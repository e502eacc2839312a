------------------------- MODULE Chunking_splitter -------------------------
(***************************************************************************)
(* That the chunks are in the order of the pages, and that the recursive   *)
(* splitter loses only crumbs of a document that repeats no word: for      *)
(* every document and every setting of the splitter.                       *)
(*                                                                         *)
(* Order.  The recursive splitter looks for each chunk in the text of its  *)
(* window from where the one before was found.  What makes the search go   *)
(* wrong is a text that occurs twice, so that a chunk is found before the  *)
(* place it was cut from; the search never passes the place, though: the   *)
(* texts are cut from places one behind the other (Spread), and the search *)
(* for each begins before the first word behind the place of the one       *)
(* before it (Placed).                                                     *)
(*                                                                         *)
(* Crumbs.  Two texts that are too small for a chunk never follow each     *)
(* other in a page: what stands before the chunk at work either ends with  *)
(* a word of a chunk that is kept, or the chunk at work is of the least    *)
(* size already (GapBefore), because a piece is cut by the next separator  *)
(* into chunks of which the last is kept, and the rest of a closed chunk   *)
(* is an overlap.                                                          *)
(***************************************************************************)
EXTENDS Chunking_proofs

-----------------------------------------------------------------------------
(***************************************************************************)
(* Where a text stands in another.                                         *)
(***************************************************************************)
Glued(a, b, w) == a \o Append(b, w) = Append(a \o b, w)

LEMMA ConcatAppend ==
  ASSUME NEW T, NEW a \in Seq(T), NEW b \in Seq(T), NEW w \in T
  PROVE  Glued(a, b, w)
<1>1. a \o b \in Seq(T)
  BY ConcatProperties
<1>2. <<w>> \in Seq(T)
  OBVIOUS
<1>3. Append(a \o b, w) = (a \o b) \o <<w>> /\ Append(b, w) = b \o <<w>>
  BY <1>1, AppendIsConcat
<1>4. (a \o b) \o <<w>> = a \o (b \o <<w>>)
  BY <1>2, ConcatAssociative
<1> QED
  BY <1>1, <1>3, <1>4 DEF Glued

LEMMA AtSides ==
  ASSUME NEW x \in Text, NEW p \in Text, NEW y \in Text
  PROVE  At(p, (x \o p) \o y, Len(x)) /\ At(p, x \o p, Len(x)) /\ At(p, p \o y, 0)
<1>1. At(p, (x \o p) \o y, Len(x))
  BY DEF At
<1>2. At(p, x \o p, Len(x))
  <2>1. x \o p = (x \o p) \o <<>> /\ <<>> \in Text
    BY TextSeq, TextConcat
  <2> QED BY <2>1 DEF At
<1>3. At(p, p \o y, 0)
  <2>1. p \o y = (<<>> \o p) \o y /\ <<>> \in Text /\ Len(<<>>) = 0
    BY TextSeq, TextConcat
  <2> QED BY <2>1 DEF At
<1> QED
  BY <1>1, <1>2, <1>3

LEMMA AtSelf ==
  ASSUME NEW t \in Text
  PROVE  At(t, t, 0)
<1>1. t \o <<>> = t /\ <<>> \in Text
  BY TextSeq, TextConcat
<1> QED
  BY <1>1, AtSides

LEMMA AtType ==
  ASSUME NEW p \in Text, NEW t \in Text, NEW n, At(p, t, n)
  PROVE  n \in Nat /\ n + Len(p) <= Len(t) /\ Len(p) \in Nat /\ Len(t) \in Nat
<1>1. PICK x \in Text, y \in Text : t = (x \o p) \o y /\ Len(x) = n
  BY DEF At
<1>2. x \o p \in Text /\ Len(x \o p) = Len(x) + Len(p) /\ Len(x) \in Nat /\ Len(p) \in Nat
  BY TextConcat
<1>3. Len((x \o p) \o y) = Len(x \o p) + Len(y) /\ Len(y) \in Nat
  BY <1>2, TextConcat
<1> QED
  BY <1>1, <1>2, <1>3

LEMMA AtWithin ==
  ASSUME NEW p \in Text, NEW q \in Text, NEW t \in Text, NEW m, NEW n,
         At(p, q, m), At(q, t, n)
  PROVE  At(p, t, n + m)
<1>1. PICK a \in Text, b \in Text : q = (a \o p) \o b /\ Len(a) = m
  BY DEF At
<1>2. PICK x \in Text, y \in Text : t = (x \o q) \o y /\ Len(x) = n
  BY DEF At
<1>3. /\ a \o p \in Text /\ x \o a \in Text /\ b \o y \in Text
      /\ Len(x \o a) = Len(x) + Len(a)
  BY TextConcat
<1>4. t = ((x \o a) \o p) \o (b \o y)
  <2>1. x \o ((a \o p) \o b) = (x \o (a \o p)) \o b
    <3> DEFINE ap == a \o p
    <3>1. ap \in Text
      BY <1>3
    <3> HIDE DEF ap
    <3>2. x \o (ap \o b) = (x \o ap) \o b
      <4>1. (x \o ap) \o b = x \o (ap \o b)
        BY <3>1, TextAssociative, ZenonT(120)
      <4> QED BY <4>1
    <3> QED BY <3>2 DEF ap
  <2>2. x \o (a \o p) = (x \o a) \o p
    BY TextAssociative, ZenonT(60)
  <2>3. (x \o a) \o p \in Text
    BY <1>3, TextConcat
  <2>4. (((x \o a) \o p) \o b) \o y = ((x \o a) \o p) \o (b \o y)
    BY <2>3, TextAssociative, ZenonT(60)
  <2> QED BY <1>1, <1>2, <2>1, <2>2, <2>4
<1> QED
  BY <1>1, <1>2, <1>3, <1>4 DEF At

LEMMA AtWord ==
  ASSUME NEW p \in Text, NEW t \in Text, NEW n, At(p, t, n), NEW i \in 1..Len(p)
  PROVE  t[n + i] = p[i]
<1>1. PICK x \in Text, y \in Text : t = (x \o p) \o y /\ Len(x) = n
  BY DEF At
<1>0. x \in Seq(Symbols) /\ y \in Seq(Symbols) /\ p \in Seq(Symbols) /\ Len(x) \in Nat
      /\ Len(p) \in Nat
  BY TextSeq
<1>2. x \o p \in Seq(Symbols) /\ Len(x \o p) = Len(x) + Len(p) /\ (x \o p)[Len(x) + i] = p[i]
  BY <1>0
<1> DEFINE xp == x \o p
<1> HIDE DEF xp
<1>3. Len(x) + i \in 1..Len(xp)
  BY <1>0, <1>2 DEF xp
<1>4. (xp \o y)[Len(x) + i] = xp[Len(x) + i]
  BY <1>0, <1>2, <1>3, ConcatProperties DEF xp
<1> QED
  BY <1>1, <1>2, <1>4 DEF xp

-----------------------------------------------------------------------------
(***************************************************************************)
(* What str.strip leaves of a text.                                        *)
(***************************************************************************)
Blank == {Line, Para}

\* The first word of t behind the first n.
IsFirst(t, n, i) ==
  /\ i \in (n + 1)..Len(t) /\ t[i] \notin Blank
  /\ \A k \in (n + 1)..(i - 1) : t[k] \in Blank

LEMMA FirstLater ==
  ASSUME NEW t \in Text, NEW n \in Nat, NEW m \in Nat, n <= m, NEW i, NEW j,
         IsFirst(t, n, i), IsFirst(t, m, j)
  PROVE  i <= j
<1>0. i \in Nat /\ j \in Nat /\ Len(t) \in Nat
  BY TextSeq DEF IsFirst
<1> SUFFICES ASSUME j < i PROVE FALSE
  BY <1>0
<1>1. j \in (n + 1)..(i - 1)
  BY <1>0 DEF IsFirst
<1> QED
  BY <1>1 DEF IsFirst

LEMMA StripIs ==
  ASSUME NEW w \in Text
  PROVE  /\ strip(w) \in Text /\ Len(strip(w)) <= Len(w) /\ Len(w) \in Nat
         /\ strip(w) # <<>> => \E i : /\ IsFirst(w, 0, i) /\ At(strip(w), w, i - 1)
<1> DEFINE word == {i \in DOMAIN w : w[i] \notin {Line, Para}}
           a == Least(word)
           b == Greatest(word)
<1>0. w \in Seq(Symbols) /\ Len(w) \in Nat /\ DOMAIN w = 1..Len(w)
  BY TextSeq
<1>1. strip(w) = IF word = {} THEN <<>> ELSE SubSeq(w, a, b)
  BY DEF strip
<1>2. word \in SUBSET Nat /\ word \in SUBSET (1..Len(w))
  BY <1>0
<1>3. CASE word = {}
  <2>1. strip(w) = <<>>
    BY <1>1, <1>3
  <2> QED BY <1>0, <2>1, TextSeq
<1>4. CASE word # {}
  <2> HIDE DEF word
  <2>1. a \in word /\ \A y \in word : a <= y
    BY <1>2, <1>4, LeastOf
  <2>2. b \in word /\ \A y \in word : y <= b
    <3>1. \E x \in word : \A y \in word : y <= x
      BY <1>0, <1>2, <1>4, TopOf
    <3> QED BY <3>1 DEF Greatest
  <2> DEFINE s == SubSeq(w, a, b)
  <2>3. strip(w) = s
    BY <1>1, <1>4
  <2> HIDE DEF a, b
  <2>4. a \in 1..Len(w) /\ b \in a..Len(w)
    BY <1>0, <1>2, <2>1, <2>2
  <2>5. s \in Seq(Symbols) /\ Len(s) = b - a + 1
    BY <1>0, <2>4, PartOf
  <2>6. IsFirst(w, 0, a)
    <3>1. w[a] \notin Blank
      BY <2>1 DEF word, Blank
    <3>2. ASSUME NEW k \in (0 + 1)..(a - 1) PROVE w[k] \in Blank
      <4>1. k \notin word
        BY <1>0, <2>1, <2>4
      <4>2. k \in DOMAIN w
        BY <1>0, <2>4
      <4> QED BY <4>1, <4>2 DEF word, Blank
    <3>3. a \in (0 + 1)..Len(w)
      BY <2>4
    <3> QED BY <3>1, <3>2, <3>3 DEF IsFirst
  <2>7. At(s, w, a - 1)
    <3>0. s \in Text
      BY <2>5, TextSeq
    <3>1. a \in Nat \ {0} /\ a \in 1..(Len(w) - Len(s) + 1) /\ a + Len(s) - 1 = b
      BY <1>0, <2>4, <2>5
    <3>2. SubSeq(w, a, a + Len(s) - 1) = s
      BY <3>1
    <3> HIDE DEF s
    <3> QED BY <3>0, <3>1, <3>2, AtWhere
  <2>8. s \in Text /\ Len(s) <= Len(w)
    BY <1>0, <2>4, <2>5, TextSeq
  <2> QED BY <1>0, <2>3, <2>6, <2>7, <2>8
<1> QED
  BY <1>3, <1>4

\* c is what strip leaves of a part of t behind the first n words.
Window(t, c, n) == \E w \in Text : At(w, t, n) /\ c = strip(w)

LEMMA WindowFirst ==
  ASSUME NEW t \in Text, NEW c, NEW n, Window(t, c, n), c # <<>>
  PROVE  /\ c \in Text /\ n \in Nat
         /\ \E i : IsFirst(t, n, i) /\ At(c, t, i - 1)
<1>1. PICK w \in Text : At(w, t, n) /\ c = strip(w)
  BY DEF Window
<1>2. n \in Nat /\ n + Len(w) <= Len(t) /\ Len(w) \in Nat /\ Len(t) \in Nat
  BY <1>1, AtType
<1>3. c \in Text
  BY <1>1, StripIs
<1>4. PICK i : IsFirst(w, 0, i) /\ At(c, w, i - 1)
  BY <1>1, StripIs
<1>5. i \in 1..Len(w) /\ w[i] \notin Blank /\ \A k \in 1..(i - 1) : w[k] \in Blank
  BY <1>4 DEF IsFirst
<1>6. \A k \in 1..Len(w) : t[n + k] = w[k]
  BY <1>1, AtWord
<1>7. IsFirst(t, n, n + i)
  <2>1. n + i \in (n + 1)..Len(t) /\ t[n + i] \notin Blank
    BY <1>2, <1>5, <1>6
  <2>2. ASSUME NEW k \in (n + 1)..((n + i) - 1) PROVE t[k] \in Blank
    <3>1. k - n \in 1..(i - 1) /\ k - n \in 1..Len(w) /\ n + (k - n) = k
      BY <1>2, <1>5
    <3>2. t[n + (k - n)] = w[k - n] /\ w[k - n] \in Blank
      BY <1>5, <1>6, <3>1
    <3> QED BY <3>1, <3>2
  <2> DEFINE j == n + i
  <2>3. /\ j \in (n + 1)..Len(t) /\ t[j] \notin Blank
        /\ \A k \in (n + 1)..(j - 1) : t[k] \in Blank
    BY <2>1, <2>2
  <2> HIDE DEF j
  <2>4. IsFirst(t, n, j)
    BY <2>3 DEF IsFirst
  <2> QED BY <2>4 DEF j
<1>8. At(c, t, (n + i) - 1)
  <2>1. At(c, t, n + (i - 1))
    BY <1>1, <1>3, <1>4, AtWithin
  <2>2. n + (i - 1) = (n + i) - 1
    BY <1>2, <1>5
  <2> QED BY <2>1, <2>2
<1> QED
  BY <1>2, <1>3, <1>7, <1>8

LEMMA WindowWithin ==
  ASSUME NEW q \in Text, NEW t \in Text, NEW c, NEW m, NEW n,
         Window(q, c, m), At(q, t, n)
  PROVE  Window(t, c, n + m)
<1>1. PICK w \in Text : At(w, q, m) /\ c = strip(w)
  BY DEF Window
<1>2. At(w, t, n + m)
  BY <1>1, AtWithin
<1> QED
  BY <1>1, <1>2 DEF Window

-----------------------------------------------------------------------------
(***************************************************************************)
(* The parts ts of a text t begin one after the other, the last not behind *)
(* the first n words.                                                      *)
(***************************************************************************)
Spread(t, ts, n) ==
  \E at \in [1..Len(ts) -> Nat] : \A k \in 1..Len(ts) :
    /\ Window(t, ts[k], at[k]) /\ at[k] <= n
    /\ \A j \in 1..k : at[j] <= at[k]

LEMMA SpreadNone ==
  ASSUME NEW t, NEW n
  PROVE  Spread(t, <<>>, n)
<1>1. 1..Len(<<>>) = {}
  OBVIOUS
<1>2. [k \in 1..Len(<<>>) |-> 0] \in [1..Len(<<>>) -> Nat]
  OBVIOUS
<1> QED
  BY <1>1, <1>2 DEF Spread

LEMMA SpreadAppend ==
  ASSUME NEW t, NEW ts \in Seq(Text), NEW c \in Text, NEW a \in Nat, NEW b \in Nat,
         NEW n \in Nat, Spread(t, ts, a), Window(t, c, b), a <= b, b <= n
  PROVE  Spread(t, Append(ts, c), n)
<1>1. PICK at \in [1..Len(ts) -> Nat] : \A k \in 1..Len(ts) :
        /\ Window(t, ts[k], at[k]) /\ at[k] <= a
        /\ \A j \in 1..k : at[j] <= at[k]
  BY DEF Spread
<1> DEFINE m == Len(ts)
           e == Append(ts, c)
           to == [k \in 1..(m + 1) |-> IF k = m + 1 THEN b ELSE at[k]]
<1>2. /\ m \in Nat /\ Len(e) = m + 1 /\ e[m + 1] = c
      /\ \A k \in 1..m : e[k] = ts[k]
  OBVIOUS
<1> HIDE DEF e, m
<1>3. at \in [1..m -> Nat] /\ \A k \in 1..m :
        /\ Window(t, ts[k], at[k]) /\ at[k] <= a
        /\ \A j \in 1..k : at[j] <= at[k]
  BY <1>1 DEF m
<1>4. to \in [1..(m + 1) -> Nat]
  BY <1>2, <1>3
<1>5. to[m + 1] = b /\ \A k \in 1..m : to[k] = at[k] /\ to[k] \in Nat
  BY <1>2, <1>3
<1> HIDE DEF to
<1>6. ASSUME NEW k \in 1..(m + 1)
      PROVE  /\ Window(t, e[k], to[k]) /\ to[k] <= n
             /\ \A j \in 1..k : to[j] <= to[k]
  <2>1. CASE k = m + 1
    <3>1. \A j \in 1..k : to[j] <= b
      <4> TAKE j \in 1..k
      <4>1. CASE j = m + 1
        BY <1>5, <4>1
      <4>2. CASE j \in 1..m
        BY <1>3, <1>5, <4>2
      <4>3. j = m + 1 \/ j \in 1..m
        BY <1>2, <2>1
      <4> QED BY <4>1, <4>2, <4>3
    <3> QED BY <1>2, <1>5, <2>1, <3>1
  <2>2. CASE k \in 1..m
    <3>1. \A j \in 1..k : j \in 1..m
      BY <1>2, <2>2
    <3> QED BY <1>2, <1>3, <1>5, <2>2, <3>1
  <2>3. k = m + 1 \/ k \in 1..m
    BY <1>2
  <2> QED BY <2>1, <2>2, <2>3
<1>7. Spread(t, e, n)
  BY <1>2, <1>4, <1>6 DEF Spread
<1> QED
  BY <1>7 DEF e

LEMMA SpreadSplit ==
  ASSUME NEW t, NEW ts \in Seq(Text), NEW c \in Text, NEW n \in Nat,
         Spread(t, Append(ts, c), n)
  PROVE  \E a \in Nat : a <= n /\ Spread(t, ts, a) /\ Window(t, c, a)
<1> DEFINE m == Len(ts)
           e == Append(ts, c)
<1>1. /\ m \in Nat /\ Len(e) = m + 1 /\ e[m + 1] = c
      /\ \A k \in 1..m : e[k] = ts[k]
  OBVIOUS
<1>2. PICK at \in [1..Len(e) -> Nat] : \A k \in 1..Len(e) :
        /\ Window(t, e[k], at[k]) /\ at[k] <= n
        /\ \A j \in 1..k : at[j] <= at[k]
  BY DEF Spread
<1> HIDE DEF e
<1> DEFINE to == [k \in 1..m |-> at[k]]
<1>3. m + 1 \in 1..Len(e) /\ \A k \in 1..m : k \in 1..Len(e) /\ k \in 1..(m + 1)
  BY <1>1
<1>4. at[m + 1] \in Nat /\ at[m + 1] <= n /\ Window(t, c, at[m + 1])
  BY <1>1, <1>2, <1>3
<1>5. to \in [1..m -> Nat]
  BY <1>2, <1>3
<1>6. ASSUME NEW k \in 1..m
      PROVE  /\ Window(t, ts[k], to[k]) /\ to[k] <= at[m + 1]
             /\ \A j \in 1..k : to[j] <= to[k]
  <2>1. to[k] = at[k] /\ \A j \in 1..k : j \in 1..m /\ to[j] = at[j]
    BY <1>1
  <2> HIDE DEF to
  <2>2. Window(t, ts[k], at[k]) /\ at[k] <= at[m + 1]
        /\ \A j \in 1..k : at[j] <= at[k]
    BY <1>1, <1>2, <1>3
  <2> QED BY <2>1, <2>2
<1> HIDE DEF to
<1>7. Spread(t, ts, at[m + 1])
  BY <1>5, <1>6 DEF Spread
<1> QED
  BY <1>4, <1>7

LEMMA SpreadLater ==
  ASSUME NEW t, NEW ts \in Seq(Text), NEW a \in Nat, NEW n \in Nat, a <= n,
         Spread(t, ts, a)
  PROVE  Spread(t, ts, n)
<1>1. PICK at \in [1..Len(ts) -> Nat] : \A k \in 1..Len(ts) :
        /\ Window(t, ts[k], at[k]) /\ at[k] <= a
        /\ \A j \in 1..k : at[j] <= at[k]
  BY DEF Spread
<1>2. \A k \in 1..Len(ts) : at[k] <= n
  BY <1>1
<1> QED
  BY <1>1, <1>2 DEF Spread

\* The parts of u follow those of x in x \o u.
LEMMA SpreadJoin ==
  ASSUME NEW x \in Text, NEW u \in Text, NEW as \in Seq(Text), NEW bs \in Seq(Text),
         NEW n \in Nat, Spread(x \o u, as, Len(x)), Spread(u, bs, n)
  PROVE  Spread(x \o u, as \o bs, Len(x) + n)
<1> DEFINE t == x \o u
           S == {s \in Seq(Text) : \A m \in Nat :
                   Spread(u, s, m) => Spread(t, as \o s, Len(x) + m)}
<1>0. Len(x) \in Nat /\ t \in Text /\ At(u, t, Len(x))
  BY TextSeq, TextConcat, AtSides
<1>1. <<>> \in S
  <2>1. <<>> \in Seq(Text) /\ as \o <<>> = as
    BY EmptySeq, ConcatEmptySeq
  <2> HIDE DEF t
  <2>2. ASSUME NEW m \in Nat PROVE Spread(t, as, Len(x) + m)
    <3>1. Len(x) + m \in Nat /\ Len(x) <= Len(x) + m
      BY <1>0
    <3>2. Spread(t, as, Len(x))
      BY DEF t
    <3> QED BY <1>0, <3>1, <3>2, SpreadLater
  <2> QED BY <2>1, <2>2
<1>2. ASSUME NEW s \in Seq(Text), NEW c \in Text, s \in S PROVE Append(s, c) \in S
  <2>1. Append(s, c) \in Seq(Text) /\ as \o s \in Seq(Text)
        /\ as \o Append(s, c) = Append(as \o s, c)
    <3>1. Append(s, c) \in Seq(Text)
      OBVIOUS
    <3> HIDE DEF S, t
    <3>2. as \o s \in Seq(Text) 
      BY ConcatProperties
    <3>a. Glued(as, s, c)
      BY ConcatAppend
    <3>3. as \o Append(s, c) = Append(as \o s, c)
      BY <3>a DEF Glued
    <3> QED BY <3>1, <3>2, <3>3
  <2> HIDE DEF t
  <2>2. ASSUME NEW m \in Nat, Spread(u, Append(s, c), m)
        PROVE  Spread(t, Append(as \o s, c), Len(x) + m)
    <3>1. PICK a \in Nat : a <= m /\ Spread(u, s, a) /\ Window(u, c, a)
      BY <2>2, SpreadSplit
    <3>2. Spread(t, as \o s, Len(x) + a)
      BY <1>2, <3>1
    <3>3. Window(t, c, Len(x) + a)
      BY <1>0, <3>1, WindowWithin
    <3>4. Len(x) + a \in Nat /\ Len(x) + m \in Nat /\ Len(x) + a <= Len(x) + m
          /\ Len(x) + a <= Len(x) + a
      BY <1>0, <3>1
    <3> DEFINE k == Len(x) + a
               l == Len(x) + m
               as2 == as \o s
    <3>5. as2 \in Seq(Text)
      BY <2>1
    <3> HIDE DEF k, l, as2
    <3>6. Spread(t, Append(as2, c), l)
      BY <3>2, <3>3, <3>4, <3>5, SpreadAppend DEF k, l, as2
    <3> QED BY <3>6 DEF l, as2
  <2> QED BY <2>1, <2>2
<1>3. \A s \in Seq(Text) : s \in S
  <2> HIDE DEF S
  <2> QED BY <1>1, <1>2, InductiveSeq
<1> QED
  BY <1>3

\* The parts of t are parts of a longer text.
LEMMA SpreadGrow ==
  ASSUME NEW t \in Text, NEW z \in Text, NEW ts \in Seq(Text), NEW n \in Nat,
         Spread(t, ts, n)
  PROVE  Spread(t \o z, ts, n)
<1>1. At(t, t \o z, 0) /\ t \o z \in Text
  BY TextConcat, AtSides
<1>2. PICK at \in [1..Len(ts) -> Nat] : \A k \in 1..Len(ts) :
        /\ Window(t, ts[k], at[k]) /\ at[k] <= n
        /\ \A j \in 1..k : at[j] <= at[k]
  BY DEF Spread
<1>3. ASSUME NEW k \in 1..Len(ts) PROVE Window(t \o z, ts[k], at[k])
  <2>1. Window(t, ts[k], at[k])
    BY <1>2
  <2>2. Window(t \o z, ts[k], 0 + at[k])
    BY <1>1, <2>1, WindowWithin
  <2>3. 0 + at[k] = at[k]
    OBVIOUS
  <2> QED BY <2>2, <2>3
<1> QED
  BY <1>2, <1>3 DEF Spread

\* So are those that are left when the empty ones go.
LEMMA SpreadWithout ==
  ASSUME NEW t, NEW out, NEW ts \in Seq(Text), NEW n \in Nat, Spread(t, ts, n)
  PROVE  Spread(t, Without(ts, out), n)
<1> DEFINE S == {s \in Seq(Text) : \A m \in Nat :
                   Spread(t, s, m) => Spread(t, Without(s, out), m)}
<1>1. <<>> \in S
  <2>1. <<>> \in Seq(Text)
    BY EmptySeq
  <2> QED BY <2>1, WithoutNone, SpreadNone
<1>2. ASSUME NEW s \in Seq(Text), NEW c \in Text, s \in S PROVE Append(s, c) \in S
  <2>1. Append(s, c) \in Seq(Text) /\ Without(s, out) \in Seq(Text)
    BY WithoutType
  <2>2. Without(Append(s, c), out) = IF c \in out THEN Without(s, out)
                                     ELSE Append(Without(s, out), c)
    BY WithoutGrows
  <2>3. ASSUME NEW m \in Nat, Spread(t, Append(s, c), m)
        PROVE  Spread(t, Without(Append(s, c), out), m)
    <3>1. PICK a \in Nat : a <= m /\ Spread(t, s, a) /\ Window(t, c, a)
      BY <2>3, SpreadSplit
    <3>2. Spread(t, Without(s, out), a)
      BY <1>2, <3>1
    <3>3. Spread(t, Without(s, out), m)
      BY <2>1, <3>1, <3>2, SpreadLater
    <3>4. Spread(t, Append(Without(s, out), c), m)
      BY <2>1, <3>1, <3>2, SpreadAppend
    <3> QED BY <2>2, <3>3, <3>4
  <2> QED BY <2>1, <2>3
<1>3. \A s \in Seq(Text) : s \in S
  <2> HIDE DEF S
  <2> QED BY <1>1, <1>2, InductiveSeq
<1> QED
  BY <1>3

-----------------------------------------------------------------------------
(***************************************************************************)
(* Texts one after the other.                                              *)
(***************************************************************************)
LEMMA FlattenText ==
  /\ FlattenSeq(<<>>) = <<>>
  /\ \A ps \in Seq(Text) :
       /\ FlattenSeq(ps) \in Text
       /\ \A p \in Text : FlattenSeq(Append(ps, p)) = FlattenSeq(ps) \o p
BY TextSeq, FlattenGrows

LEMMA FlattenConcat ==
  ASSUME NEW a \in Seq(Text), NEW b \in Seq(Text)
  PROVE  FlattenSeq(a \o b) = FlattenSeq(a) \o FlattenSeq(b)
<1> DEFINE S == {s \in Seq(Text) : FlattenSeq(a \o s) = FlattenSeq(a) \o FlattenSeq(s)}
<1>0. FlattenSeq(a) \in Text
  BY FlattenText
<1>1. <<>> \in S
  <2>1. <<>> \in Seq(Text) /\ a \o <<>> = a
    BY EmptySeq, ConcatEmptySeq
  <2>2. FlattenSeq(a) \o <<>> = FlattenSeq(a)
    BY <1>0, TextConcat
  <2> QED BY <2>1, <2>2, FlattenText
<1>2. ASSUME NEW s \in Seq(Text), NEW p \in Text, s \in S PROVE Append(s, p) \in S
  <2>1. Append(s, p) \in Seq(Text)
    OBVIOUS
  <2>2. FlattenSeq(a \o s) = FlattenSeq(a) \o FlattenSeq(s)
    BY <1>2
  <2> HIDE DEF S
  <2>3. Glued(a, s, p) /\ a \o s \in Seq(Text)
    BY ConcatAppend, ConcatProperties
  <2>4. FlattenSeq(a \o Append(s, p)) = FlattenSeq(a \o s) \o p
    BY <2>3, FlattenText DEF Glued
  <2>5. FlattenSeq(s) \in Text /\ FlattenSeq(Append(s, p)) = FlattenSeq(s) \o p
    BY FlattenText
  <2>6. (FlattenSeq(a) \o FlattenSeq(s)) \o p = FlattenSeq(a) \o (FlattenSeq(s) \o p)
    BY <1>0, <2>5, TextAssociative
  <2>7. FlattenSeq(a \o Append(s, p)) = FlattenSeq(a) \o FlattenSeq(Append(s, p))
    BY <2>2, <2>4, <2>5, <2>6
  <2> QED BY <2>1, <2>7 DEF S
<1>3. \A s \in Seq(Text) : s \in S
  <2> HIDE DEF S
  <2> QED BY <1>1, <1>2, InductiveSeq
<1> QED
  BY <1>3

\* The last texts of ps end what ps makes.
Ends(ps, r) == \E a \in Seq(Text) : ps = a \o r

LEMMA RestEnds ==
  ASSUME NEW ps \in Seq(Text), NEW k \in 1..(Len(ps) + 1)
  PROVE  SubSeq(ps, k, Len(ps)) \in Seq(Text) /\ Ends(ps, SubSeq(ps, k, Len(ps)))
<1> DEFINE n == Len(ps)
           r == SubSeq(ps, k, n)
<1>0. n \in Nat /\ \A i \in 1..n : ps[i] \in Text
  OBVIOUS
<1>1. CASE k = n + 1
  <2>1. r = <<>>
    <3>1. Len(r) = 0 /\ r \in Seq(Text)
      BY <1>0, <1>1, SubSeqProperties
    <3> HIDE DEF r
    <3> QED BY <3>1
  <2>2. <<>> \in Seq(Text) /\ ps = ps \o <<>>
    BY EmptySeq, ConcatEmptySeq
  <2> QED BY <2>1, <2>2 DEF Ends
<1>2. CASE k = 1
  <2>1. r = ps /\ <<>> \in Seq(Text) /\ ps = <<>> \o ps
    BY <1>2, EmptySeq, ConcatEmptySeq
  <2> QED BY <2>1 DEF Ends
<1>3. CASE k \in 2..n
  <2> DEFINE a == SubSeq(ps, 1, k - 1)
  <2>1. 1 \in 1..Len(ps) /\ k - 1 \in 1..Len(ps) /\ k \in 1..Len(ps) /\ Len(ps) \in k..Len(ps)
    BY <1>0, <1>3
  <2>2. a \in Seq(Text) /\ Len(a) = k - 1 /\ \A i \in 1..(k - 1) : a[i] = ps[i]
    <3> DEFINE e == k - 1
    <3>1. e \in 1..Len(ps)
      BY <2>1
    <3> HIDE DEF e
    <3>2. /\ SubSeq(ps, 1, e) \in Seq(Text) /\ Len(SubSeq(ps, 1, e)) = e - 1 + 1
          /\ \A i \in 1..(e - 1 + 1) : SubSeq(ps, 1, e)[i] = ps[1 + i - 1]
      BY <2>1, <3>1, PartOf
    <3>3. e - 1 + 1 = e
      BY <3>1
    <3> QED BY <3>1, <3>2, <3>3 DEF e
  <2>3. r \in Seq(Text) /\ Len(r) = n - k + 1 /\ \A i \in 1..(n - k + 1) : r[i] = ps[k + i - 1]
    <3> HIDE DEF n
    <3>0. n = Len(ps)
      BY DEF n
    <3> QED BY <2>1, <3>0, PartOf
  <2> HIDE DEF a, r
  <2>4. a \o r \in Seq(Text) /\ Len(a \o r) = n
    BY <1>0, <1>3, <2>2, <2>3, ConcatProperties
  <2>5. ASSUME NEW i \in 1..n PROVE (a \o r)[i] = ps[i]
    <3>1. CASE i <= k - 1
      <4>1. i \in 1..(k - 1)
        BY <1>3, <3>1
      <4> QED BY <2>2, <2>3, <4>1
    <3>2. CASE i > k - 1
      <4>1. i - (k - 1) \in 1..(n - k + 1) /\ k + (i - (k - 1)) - 1 = i /\ i \in 1..(Len(a) + Len(r))
            /\ i > Len(a)
        BY <1>0, <1>3, <2>2, <2>3, <3>2
      <4>2. (a \o r)[i] = r[i - Len(a)]
        BY <2>2, <2>3, <4>1, ConcatProperties
      <4> QED BY <2>2, <2>3, <4>1, <4>2
    <3>3. i <= k - 1 \/ i > k - 1
      BY <1>3
    <3> QED BY <3>1, <3>2, <3>3
  <2>6. a \o r = ps
    BY <1>0, <2>4, <2>5, SeqEqual
  <2> QED BY <2>2, <2>3, <2>6 DEF Ends, r
<1> QED
  BY <1>0, <1>1, <1>2, <1>3

-----------------------------------------------------------------------------
(***************************************************************************)
(* The splitter.  A text is cut into pieces that make it again.            *)
(***************************************************************************)
CutsInto(acc, w, sep) ==
  IF acc = <<>> \/ w = sep THEN Append(acc, <<w>>)
  ELSE Append(Front(acc), Append(Last(acc), w))
CutsStep(sep) == [p \in Seq(Text) \X Symbols |-> CutsInto(p[1], p[2], sep)]

LEMMA CutsIntoKeeps ==
  ASSUME NEW sep, NEW acc \in Seq(Text), NEW w \in Symbols
  PROVE  /\ CutsInto(acc, w, sep) \in Seq(Text)
         /\ FlattenSeq(CutsInto(acc, w, sep)) = Append(FlattenSeq(acc), w)
<1>0. <<w>> \in Text /\ FlattenSeq(acc) \in Text /\ FlattenSeq(acc) \in Seq(Symbols)
  BY TextSeq, FlattenText
<1>1. CASE acc = <<>> \/ w = sep
  <2>1. CutsInto(acc, w, sep) = Append(acc, <<w>>)
    BY <1>1 DEF CutsInto
  <2>2. FlattenSeq(Append(acc, <<w>>)) = FlattenSeq(acc) \o <<w>> /\ Append(acc, <<w>>) \in Seq(Text)
    <3> DEFINE v == <<w>>
    <3>1. v \in Text
      BY <1>0
    <3> HIDE DEF v
    <3>2. FlattenSeq(Append(acc, v)) = FlattenSeq(acc) \o v /\ Append(acc, v) \in Seq(Text)
      BY <3>1, FlattenText
    <3> QED BY <3>2 DEF v
  <2>3. FlattenSeq(acc) \o <<w>> = Append(FlattenSeq(acc), w)
    BY <1>0, AppendIsConcat
  <2> QED BY <2>1, <2>2, <2>3
<1>2. CASE ~(acc = <<>> \/ w = sep)
  <2>1. Front(acc) \in Seq(Text) /\ Last(acc) \in Text /\ acc = Append(Front(acc), Last(acc))
    BY <1>2, FrontLast
  <2> DEFINE f == Front(acc)
             l == Last(acc)
             e == Append(l, w)
  <2>2. CutsInto(acc, w, sep) = Append(f, e)
    BY <1>2 DEF CutsInto
  <2> HIDE DEF f, l
  <2>3. f \in Seq(Text) /\ l \in Text /\ acc = Append(f, l) /\ l \in Seq(Symbols)
    BY <2>1, TextSeq DEF f, l
  <2>4. e \in Text
    BY <2>3, TextSeq
  <2> HIDE DEF e
  <2>5. /\ FlattenSeq(Append(f, e)) = FlattenSeq(f) \o e /\ Append(f, e) \in Seq(Text)
        /\ FlattenSeq(acc) = FlattenSeq(f) \o l /\ FlattenSeq(f) \in Text
    BY <2>3, <2>4, FlattenText
  <2>6. FlattenSeq(f) \o e = Append(FlattenSeq(f) \o l, w)
    BY <2>3, <2>5, TextAppend DEF e
  <2> QED BY <2>2, <2>5, <2>6
<1> QED
  BY <1>1, <1>2

LEMMA CutsIsStep ==
  ASSUME NEW sep
  PROVE  IsStep(Symbols, Seq(Text), CutsStep(sep), <<>>)
<1>1. <<>> \in Seq(Text)
  BY EmptySeq
<1> QED
  BY <1>1, CutsIntoKeeps DEF IsStep, CutsStep

LEMMA CutsFolds ==
  ASSUME NEW sep, NEW s \in Seq(Symbols)
  PROVE  Folded(Seq(Text), CutsStep(sep), <<>>, s, Cuts(s, sep))
<1> DEFINE n == Len(s)
           Is(h) == h = [S \in SUBSET (1..n) |->
                 IF S = {} THEN <<>> ELSE CutsInto(h[S \ {Max(S)}], s[Max(S)], sep)]
           fold == CHOOSE h : Is(h)
<1>0. n \in Nat /\ DOMAIN s = 1..n /\ \A k \in 1..n : s[k] \in Symbols
  OBVIOUS
<1>1. IsStep(Symbols, Seq(Text), CutsStep(sep), <<>>)
  BY CutsIsStep
<1>2. PICK h : FoldBy(Seq(Text), CutsStep(sep), <<>>, s, h)
  BY <1>1, FoldDefined
<1>3. Is(h)
  <2>1. h \in [SUBSET (1..n) -> Seq(Text)]
    BY <1>2 DEF FoldBy
  <2>2. ASSUME NEW S \in SUBSET (1..n)
        PROVE  h[S] = IF S = {} THEN <<>> ELSE CutsInto(h[S \ {Max(S)}], s[Max(S)], sep)
    <3>1. S # {} => Max(S) \in 1..n /\ S \ {Max(S)} \in SUBSET (1..n)
      BY <1>0, TopOf
    <3>2. h[S] = IF S = {} THEN <<>> ELSE CutsStep(sep)[<<h[S \ {Max(S)}], s[Max(S)]>>]
      BY <1>2 DEF FoldBy
    <3>3. S # {} => h[S \ {Max(S)}] \in Seq(Text) /\ s[Max(S)] \in Symbols
      BY <1>0, <2>1, <3>1
    <3> QED BY <3>2, <3>3 DEF CutsStep
  <2> QED
    BY <2>1, <2>2
<1>4. Is(fold)
  <2> HIDE DEF Is
  <2> QED BY <1>3
<1>5. Cuts(s, sep) = fold[1..n]
  BY <1>0 DEF Cuts, CutsInto, FoldLeft, MapThenFoldSet
<1> HIDE DEF fold
<1>6. fold[{}] = <<>>
  BY <1>4
<1>7. ASSUME NEW k \in 1..n, fold[1..(k - 1)] \in Seq(Text)
      PROVE  fold[1..k] = CutsStep(sep)[<<fold[1..(k - 1)], s[k]>>]
  <2>0. /\ 1..k \in SUBSET (1..n) /\ 1..k # {}
        /\ Max(1..k) = k /\ (1..k) \ {k} = 1..(k - 1)
    BY <1>0, Positions
  <2>1. s[k] \in Symbols
    BY <1>0
  <2>2. fold[1..k] = CutsInto(fold[1..(k - 1)], s[k], sep)
    BY <1>4, <2>0
  <2> QED BY <1>7, <2>1, <2>2 DEF CutsStep
<1> QED
  <2>1. Folded(Seq(Text), CutsStep(sep), <<>>, s, fold[1..Len(s)])
    BY <1>1, <1>6, <1>7, FoldFolds
  <2> QED BY <1>5, <2>1

LEMMA CutsKeep ==
  ASSUME NEW sep, NEW t \in Text
  PROVE  Cuts(t, sep) \in Seq(Text) /\ FlattenSeq(Cuts(t, sep)) = t
<1> DEFINE S == {s \in Seq(Symbols) : FlattenSeq(Cuts(s, sep)) = s}
<1>0. \A s \in Seq(Symbols) : Cuts(s, sep) \in Seq(Text)
  BY CutsFolds, FoldType
<1>1. <<>> \in S
  <2>1. <<>> \in Seq(Symbols)
    BY EmptySeq
  <2>2. Cuts(<<>>, sep) = <<>>
    BY <2>1, CutsFolds, FoldBase
  <2> QED BY <2>1, <2>2, FlattenText
<1>2. ASSUME NEW s \in Seq(Symbols), NEW w \in Symbols, s \in S PROVE Append(s, w) \in S
  <2>1. Append(s, w) \in Seq(Symbols)
    OBVIOUS
  <2> DEFINE c == Cuts(s, sep)
             e == Cuts(Append(s, w), sep)
  <2>2. /\ Folded(Seq(Text), CutsStep(sep), <<>>, s, c)
        /\ Folded(Seq(Text), CutsStep(sep), <<>>, Append(s, w), e)
    BY <2>1, CutsFolds
  <2>3. FlattenSeq(c) = s
    BY <1>2
  <2> HIDE DEF c, e, S
  <2>4. c \in Seq(Text) /\ e = CutsStep(sep)[<<c, w>>]
    BY <2>2, CutsIsStep, FoldGrows
  <2>5. <<c, w>> \in Seq(Text) \X Symbols
    BY <2>4
  <2>6. e = CutsInto(c, w, sep)
    BY <2>4, <2>5 DEF CutsStep
  <2>7. FlattenSeq(e) = Append(s, w)
    BY <2>3, <2>4, <2>6, CutsIntoKeeps
  <2> QED BY <2>1, <2>7 DEF S, e
<1>3. \A s \in Seq(Symbols) : s \in S
  <2> HIDE DEF S
  <2> QED BY <1>1, <1>2, InductiveSeq
<1> QED
  BY <1>0, <1>3, TextSeq

\* The words of a text are pieces that make it, too.
Singles(t) == [i \in DOMAIN t |-> <<t[i]>>]
Small == {t \in Text : Len(t) <= MaxTokens}

LEMMA SinglesKeep ==
  ASSUME NEW t \in Text
  PROVE  Singles(t) \in Seq(Small) /\ FlattenSeq(Singles(t)) = t
<1> DEFINE S == {s \in Seq(Symbols) : FlattenSeq(Singles(s)) = s}
<1>0. \A s \in Seq(Symbols) : /\ Singles(s) \in Seq(Small) /\ Len(Singles(s)) = Len(s)
                              /\ \A i \in 1..Len(s) : Singles(s)[i] = <<s[i]>>
  <2> TAKE s \in Seq(Symbols)
  <2>1. DOMAIN s = 1..Len(s) /\ Len(s) \in Nat /\ \A i \in 1..Len(s) : s[i] \in Symbols
    OBVIOUS
  <2>2. ASSUME NEW i \in 1..Len(s) PROVE <<s[i]>> \in Small
    <3> DEFINE w == s[i]
    <3>1. w \in Symbols
      BY <2>1
    <3> HIDE DEF w
    <3>2. <<w>> \in Seq(Symbols) /\ Len(<<w>>) = 1
      BY <3>1
    <3>3. 1 <= MaxTokens
      BY ChunkingAssumption
    <3> QED BY <3>2, <3>3, TextSeq DEF Small, w
  <2>3. Singles(s) = [i \in 1..Len(s) |-> <<s[i]>>]
    BY <2>1 DEF Singles
  <2> QED BY <2>1, <2>2, <2>3
<1>1. <<>> \in S
  <2>1. <<>> \in Seq(Symbols)
    BY EmptySeq
  <2>2. Singles(<<>>) = <<>>
    <3> DEFINE f == Singles(<<>>)
    <3>1. f \in Seq(Small) /\ Len(f) = 0
      BY <1>0, <2>1
    <3> HIDE DEF f
    <3>2. f = <<>>
      BY <3>1
    <3> QED BY <3>2 DEF f
  <2> QED BY <2>1, <2>2, FlattenText
<1>2. ASSUME NEW s \in Seq(Symbols), NEW w \in Symbols, s \in S PROVE Append(s, w) \in S
  <2> DEFINE e == Append(s, w)
             f == Singles(s)
             v == <<w>>
  <2>1. e \in Seq(Symbols) /\ Len(e) = Len(s) + 1 /\ Len(s) \in Nat
        /\ e[Len(s) + 1] = w /\ \A i \in 1..Len(s) : e[i] = s[i]
    OBVIOUS
  <2>2. FlattenSeq(f) = s
    BY <1>2
  <2>3. v \in Text
    BY TextSeq
  <2>4. e = s \o v
    BY AppendIsConcat
  <2>v. v = <<w>>
    OBVIOUS
  <2> HIDE DEF e, f, S, v
  <2>5. f \in Seq(Small) /\ Len(f) = Len(s) /\ \A i \in 1..Len(s) : f[i] = <<s[i]>>
    BY <1>0 DEF f
  <2>6. f \in Seq(Text)
    BY <2>5 DEF Small
  <2>7. Singles(e) = Append(f, v)
    <3>1. /\ Singles(e) \in Seq(Small) /\ Len(Singles(e)) = Len(s) + 1
          /\ \A i \in 1..(Len(s) + 1) : Singles(e)[i] = <<e[i]>>
      BY <1>0, <2>1
    <3>2. /\ Append(f, v) \in Seq(Text) /\ Len(Append(f, v)) = Len(s) + 1
          /\ Append(f, v)[Len(s) + 1] = v
          /\ \A i \in 1..Len(s) : Append(f, v)[i] = f[i]
      BY <2>1, <2>3, <2>5, <2>6
    <3>3. ASSUME NEW i \in 1..(Len(s) + 1) PROVE Singles(e)[i] = Append(f, v)[i]
      <4>1. CASE i = Len(s) + 1
        BY <2>1, <2>v, <3>1, <3>2, <4>1
      <4>2. CASE i \in 1..Len(s)
        <5>1. Singles(e)[i] = <<e[i]>> /\ e[i] = s[i]
          BY <2>1, <3>1, <4>2
        <5>2. Append(f, v)[i] = f[i] /\ f[i] = <<s[i]>>
          BY <2>5, <3>2, <4>2
        <5> QED BY <5>1, <5>2
      <4>3. i = Len(s) + 1 \/ i \in 1..Len(s)
        BY <2>1
      <4> QED BY <4>1, <4>2, <4>3
    <3>4. Singles(e) \in Seq(Text)
      BY <3>1 DEF Small
    <3> QED BY <3>1, <3>2, <3>3, <3>4, SeqEqual
  <2>8. FlattenSeq(Append(f, v)) = FlattenSeq(f) \o v
    BY <2>3, <2>6, FlattenText
  <2> QED BY <2>1, <2>2, <2>4, <2>7, <2>8 DEF S, e
<1>3. \A s \in Seq(Symbols) : s \in S
  <2> HIDE DEF S
  <2> QED BY <1>1, <1>2, InductiveSeq
<1> QED
  BY <1>0, <1>3, TextSeq

LEMMA SmallText ==
  /\ Small \subseteq Text
  /\ \A ps \in Seq(Small) : ps \in Seq(Text)
<1>1. Small \subseteq Text
  BY DEF Small
<1> QED
  BY <1>1

-----------------------------------------------------------------------------
(***************************************************************************)
(* Pieces put together up to the size of a chunk.                          *)
(***************************************************************************)
MergeState == [done : Seq(Text), now : Seq(Text)]
MergeBase == [done |-> <<>>, now |-> <<>>]
PiecesStep == [p \in MergeState \X Text |-> MergeSplit(p[1], p[2])]
MergeEnd(s) == FoldLeft(MergeSplit, MergeBase, s)

LEMMA LengthType ==
  ASSUME NEW ps \in Seq(Text)
  PROVE  LengthOf(ps) \in Nat /\ LengthOf(ps) = Len(FlattenSeq(ps))
<1>1. FlattenSeq(ps) \in Seq(Symbols)
  BY FlattenText, TextSeq
<1> QED
  BY <1>1 DEF LengthOf

\* The overlap is made of the last pieces, and leaves room for the next one.
LEMMA OverlapIs ==
  ASSUME NEW piece \in Text, NEW ps \in Seq(Text)
  PROVE  LET rest == OverlapFor(piece, ps)
         IN  /\ rest \in Seq(Text) /\ Ends(ps, rest)
             /\ LengthOf(rest) = 0 \/ LengthOf(rest) + Len(piece) <= MaxTokens
<1> DEFINE rest(k) == SubSeq(ps, k, Len(ps))
           fits == {k \in 1..(Len(ps) + 1) :
               /\ LengthOf(rest(k)) <= OverlapTokens
               /\ \/ LengthOf(rest(k)) = 0
                  \/ LengthOf(rest(k)) + Len(piece) <= MaxTokens}
           k == Least(fits)
<1>0. Len(ps) \in Nat /\ OverlapTokens \in Nat
  BY ChunkingAssumption
<1>1. Len(ps) + 1 \in fits
  <2> DEFINE n == Len(ps) + 1
             r == rest(n)
  <2>1. n \in 1..(Len(ps) + 1) /\ n > Len(ps)
    BY <1>0
  <2>2. r = <<>>
    <3>1. r \in Seq(Text) /\ Len(r) = 0
      BY <1>0, SubSeqProperties
    <3> HIDE DEF r
    <3> QED BY <3>1
  <2>3. LengthOf(r) = 0
    <3> HIDE DEF r
    <3>1. FlattenSeq(r) = <<>>
      BY <2>2, FlattenText
    <3> QED BY <3>1 DEF LengthOf
  <2> HIDE DEF r
  <2>4. LengthOf(r) <= OverlapTokens
    BY <1>0, <2>3
  <2> QED BY <2>1, <2>3, <2>4 DEF r
<1>2. fits \in SUBSET Nat /\ fits # {}
  BY <1>0, <1>1
<1> HIDE DEF fits
<1>3. k \in fits
  BY <1>2, LeastOf
<1>4. OverlapFor(piece, ps) = rest(k)
  BY DEF OverlapFor, fits
<1> HIDE DEF k
<1>5. /\ k \in 1..(Len(ps) + 1)
      /\ LengthOf(rest(k)) = 0 \/ LengthOf(rest(k)) + Len(piece) <= MaxTokens
  BY <1>3 DEF fits
<1>6. rest(k) \in Seq(Text) /\ Ends(ps, rest(k))
  BY <1>5, RestEnds
<1> QED
  BY <1>4, <1>5, <1>6

LEMMA PiecesIsStep == IsStep(Text, MergeState, PiecesStep, MergeBase)
<1>1. MergeBase \in MergeState
  BY EmptySeq DEF MergeBase, MergeState
<1>2. ASSUME NEW acc \in MergeState, NEW piece \in Text
      PROVE  MergeSplit(acc, piece) \in MergeState
  <2>1. acc.done \in Seq(Text) /\ acc.now \in Seq(Text)
        /\ acc = [done |-> acc.done, now |-> acc.now]
    BY DEF MergeState
  <2> DEFINE o == OverlapFor(piece, acc.now)
             c == strip(FlattenSeq(acc.now))
  <2>2. o \in Seq(Text) /\ c \in Text
    BY <2>1, OverlapIs, FlattenText, StripIs
  <2>3. Append(o, piece) \in Seq(Text) /\ Append(acc.done, c) \in Seq(Text)
        /\ Append(acc.now, piece) \in Seq(Text)
    BY <2>1, <2>2
  <2>4. \/ MergeSplit(acc, piece) = [done |-> Append(acc.done, c), now |-> Append(o, piece)]
        \/ MergeSplit(acc, piece) = [acc EXCEPT !.now = Append(@, piece)]
    BY DEF MergeSplit
  <2>5. [acc EXCEPT !.now = Append(@, piece)] \in MergeState
    BY <2>1, <2>3 DEF MergeState
  <2> HIDE DEF o, c
  <2>6. [done |-> Append(acc.done, c), now |-> Append(o, piece)] \in MergeState
    BY <2>3 DEF MergeState
  <2> QED BY <2>4, <2>5, <2>6
<1> QED
  BY <1>1, <1>2 DEF IsStep, PiecesStep

LEMMA PiecesFolds ==
  ASSUME NEW s \in Seq(Text)
  PROVE  Folded(MergeState, PiecesStep, MergeBase, s, MergeEnd(s))
<1> DEFINE n == Len(s)
           Is(h) == h = [S \in SUBSET (1..n) |->
                 IF S = {} THEN MergeBase ELSE MergeSplit(h[S \ {Max(S)}], s[Max(S)])]
           fold == CHOOSE h : Is(h)
<1>0. n \in Nat /\ DOMAIN s = 1..n /\ \A k \in 1..n : s[k] \in Text
  OBVIOUS
<1>1. IsStep(Text, MergeState, PiecesStep, MergeBase)
  BY PiecesIsStep
<1>2. PICK h : FoldBy(MergeState, PiecesStep, MergeBase, s, h)
  BY <1>1, FoldDefined
<1>3. Is(h)
  <2>1. h \in [SUBSET (1..n) -> MergeState]
    BY <1>2 DEF FoldBy
  <2>2. ASSUME NEW S \in SUBSET (1..n)
        PROVE  h[S] = IF S = {} THEN MergeBase ELSE MergeSplit(h[S \ {Max(S)}], s[Max(S)])
    <3>1. S # {} => Max(S) \in 1..n /\ S \ {Max(S)} \in SUBSET (1..n)
      BY <1>0, TopOf
    <3>2. h[S] = IF S = {} THEN MergeBase ELSE PiecesStep[<<h[S \ {Max(S)}], s[Max(S)]>>]
      BY <1>2 DEF FoldBy
    <3>3. S # {} => h[S \ {Max(S)}] \in MergeState /\ s[Max(S)] \in Text
      BY <1>0, <2>1, <3>1
    <3> QED BY <3>2, <3>3 DEF PiecesStep
  <2> QED
    BY <2>1, <2>2
<1>4. Is(fold)
  <2> HIDE DEF Is
  <2> QED BY <1>3
<1>5. MergeEnd(s) = fold[1..n]
  BY <1>0 DEF MergeEnd, FoldLeft, MapThenFoldSet
<1> HIDE DEF fold
<1>6. fold[{}] = MergeBase
  BY <1>4
<1>7. ASSUME NEW k \in 1..n, fold[1..(k - 1)] \in MergeState
      PROVE  fold[1..k] = PiecesStep[<<fold[1..(k - 1)], s[k]>>]
  <2>0. /\ 1..k \in SUBSET (1..n) /\ 1..k # {}
        /\ Max(1..k) = k /\ (1..k) \ {k} = 1..(k - 1)
    BY <1>0, Positions
  <2>1. s[k] \in Text
    BY <1>0
  <2>2. fold[1..k] = MergeSplit(fold[1..(k - 1)], s[k])
    BY <1>4, <2>0
  <2> QED BY <1>7, <2>1, <2>2 DEF PiecesStep
<1> QED
  <2>1. Folded(MergeState, PiecesStep, MergeBase, s, fold[1..Len(s)])
    BY <1>1, <1>6, <1>7, FoldFolds
  <2> QED BY <1>5, <2>1

\* The pieces are behind x words of what they make.
Merging(ps, acc) ==
  /\ acc \in [done : Seq(Small), now : Seq(Small)]
  /\ Len(FlattenSeq(acc.now)) <= MaxTokens
  /\ \E x \in Text : /\ FlattenSeq(ps) = x \o FlattenSeq(acc.now)
                     /\ Spread(FlattenSeq(ps), acc.done, Len(x))

LEMMA MergingStarts == Merging(<<>>, MergeBase)
<1>1. MergeBase.done = <<>> /\ MergeBase.now = <<>> /\ <<>> \in Seq(Small)
      /\ MergeBase \in [done : Seq(Small), now : Seq(Small)]
  BY EmptySeq DEF MergeBase
<1>2. FlattenSeq(<<>>) = <<>> /\ <<>> \in Text /\ <<>> = <<>> \o <<>>
  BY FlattenText, TextSeq, TextConcat
<1>3. Len(<<>>) <= MaxTokens
  BY ChunkingAssumption
<1>4. Spread(<<>>, <<>>, Len(<<>>))
  BY SpreadNone
<1> QED
  BY <1>1, <1>2, <1>3, <1>4 DEF Merging

LEMMA MergingGoesOn ==
  ASSUME NEW ps \in Seq(Text), NEW acc, Merging(ps, acc), NEW piece \in Small
  PROVE  Merging(Append(ps, piece), MergeSplit(acc, piece))
<1> DEFINE done == acc.done
           now == acc.now
           t == FlattenSeq(ps)
           u == FlattenSeq(now)
           o == OverlapFor(piece, now)
           after == MergeSplit(acc, piece)
<1>0. /\ acc \in [done : Seq(Small), now : Seq(Small)]
      /\ acc = [done |-> done, now |-> now]
      /\ done \in Seq(Small) /\ now \in Seq(Small) /\ Len(u) <= MaxTokens
  BY DEF Merging
<1>1. PICK x \in Text : t = x \o u /\ Spread(t, done, Len(x))
  BY DEF Merging
<1>2. done \in Seq(Text) /\ now \in Seq(Text) /\ piece \in Text
      /\ Len(piece) \in Nat /\ Len(piece) <= MaxTokens /\ MaxTokens \in Nat
  BY <1>0, SmallText, TextSeq, ChunkingAssumption DEF Small
<1>3. t \in Text /\ u \in Text /\ FlattenSeq(Append(ps, piece)) = t \o piece
      /\ FlattenSeq(Append(now, piece)) = u \o piece
  BY <1>2, FlattenText
<1>4. Len(x) \in Nat /\ Len(u) \in Nat
  BY <1>3, TextSeq
<1>5. \/ /\ ~(now # <<>> /\ LengthOf(now) + Len(piece) > MaxTokens)
         /\ after = [done |-> done, now |-> Append(now, piece)]
      \/ /\ after = [done |-> Append(done, strip(u)), now |-> Append(o, piece)]
  BY <1>0 DEF MergeSplit
<1>6. LengthOf(now) = Len(u)
  BY DEF LengthOf
<1> HIDE DEF done, now, u, o, after, t
<1> DEFINE Fits(d, n, y) ==
             /\ d \in Seq(Small) /\ n \in Seq(Small) /\ y \in Text
             /\ after = [done |-> d, now |-> n] /\ FlattenSeq(n) \in Text
             /\ Len(FlattenSeq(n)) <= MaxTokens
             /\ t \o piece = y \o FlattenSeq(n) /\ Spread(t, d, Len(y))
<1>7. ASSUME NEW d, NEW n, NEW y, Fits(d, n, y)
      PROVE  Merging(Append(ps, piece), after)
  <2>1. after \in [done : Seq(Small), now : Seq(Small)] /\ after.done = d /\ after.now = n
    BY <1>7
  <2>2. d \in Seq(Text) /\ Len(y) \in Nat
    BY <1>7, SmallText, TextSeq
  <2>3. Spread(t \o piece, d, Len(y))
    BY <1>2, <1>3, <1>7, <2>2, SpreadGrow
  <2> QED BY <1>3, <1>7, <2>1, <2>3 DEF Merging
<1>8. CASE /\ ~(now # <<>> /\ LengthOf(now) + Len(piece) > MaxTokens)
           /\ after = [done |-> done, now |-> Append(now, piece)]
  <2> DEFINE n == Append(now, piece)
  <2>1. n \in Seq(Small) /\ FlattenSeq(n) = u \o piece
    BY <1>0, <1>3
  <2>2. u \o piece \in Text /\ Len(u \o piece) = Len(u) + Len(piece)
        /\ (x \o u) \o piece = x \o (u \o piece)
    <3>1. u \o piece \in Text /\ Len(u \o piece) = Len(u) + Len(piece)
      BY <1>2, <1>3, TextConcat
    <3>2. (x \o u) \o piece = x \o (u \o piece)
      BY <1>2, <1>3, TextAssociative
    <3> QED BY <3>1, <3>2
  <2>3. Len(u) + Len(piece) <= MaxTokens
    <3>1. CASE now = <<>>
      <4>1. u = <<>>
        BY <3>1, FlattenText DEF u
      <4>2. Len(u) = 0
        BY <4>1
      <4> QED BY <1>2, <4>2
    <3>2. CASE now # <<>>
      BY <1>2, <1>4, <1>6, <1>8, <3>2
    <3> QED BY <3>1, <3>2
  <2>4. after = [done |-> done, now |-> n]
    BY <1>8
  <2> HIDE DEF n
  <2>5. /\ FlattenSeq(n) \in Text /\ Len(FlattenSeq(n)) <= MaxTokens
        /\ t \o piece = x \o FlattenSeq(n)
    BY <1>1, <2>1, <2>2, <2>3
  <2>6. Fits(done, n, x)
    BY <1>0, <1>1, <2>1, <2>4, <2>5
  <2> HIDE DEF Fits
  <2> QED BY <1>7, <2>6 DEF after
<1>9. CASE after = [done |-> Append(done, strip(u)), now |-> Append(o, piece)]
  <2> DEFINE c == strip(u)
             d == Append(done, c)
             n == Append(o, piece)
             v == FlattenSeq(o)
  <2>1. c \in Text /\ Len(c) <= Len(u) /\ Len(c) \in Nat
    BY <1>3, StripIs, TextSeq
  <2>2. c \in Small
    BY <1>0, <1>2, <1>4, <2>1 DEF Small
  <2>3. Window(t, c, Len(x))
    <3>1. At(u, x \o u, Len(x))
      BY <1>3, AtSides
    <3> QED BY <1>1, <1>3, <3>1 DEF Window
  <2>4. Spread(t, d, Len(x)) /\ d \in Seq(Small)
    <3>1. Len(x) <= Len(x)
      BY <1>4
    <3> HIDE DEF c
    <3>2. Spread(t, Append(done, c), Len(x))
      BY <1>1, <1>2, <1>4, <2>1, <2>3, <3>1, SpreadAppend
    <3> QED BY <1>0, <2>2, <3>2
  <2> HIDE DEF c, d
  <2>5. o \in Seq(Text) /\ Ends(now, o) /\ (LengthOf(o) = 0 \/ LengthOf(o) + Len(piece) <= MaxTokens)
    BY <1>2, OverlapIs DEF o
  <2>6. o \in Seq(Small)
    <3>1. PICK a \in Seq(Text) : now = a \o o
      BY <2>5 DEF Ends
    <3>2. /\ Len(o) \in Nat /\ Len(a) \in Nat /\ Len(now) = Len(a) + Len(o)
          /\ \A i \in 1..Len(o) : now[Len(a) + i] = o[i]
      BY <2>5, <3>1
    <3>3. \A i \in 1..Len(o) : Len(a) + i \in 1..Len(now)
      BY <3>2
    <3>4. \A i \in 1..Len(now) : now[i] \in Small
      BY <1>0
    <3>5. \A i \in 1..Len(o) : o[i] \in Small
      BY <3>2, <3>3, <3>4
    <3> QED BY <2>5, <3>2, <3>5, SeqDef
  <2>7. PICK a \in Seq(Text) : now = a \o o
    BY <2>5 DEF Ends
  <2> DEFINE fa == FlattenSeq(a)
             y == x \o fa
  <2>8. u = fa \o v /\ fa \in Text /\ v \in Text
    BY <2>5, <2>7, FlattenText, FlattenConcat DEF u
  <2>9. n \in Seq(Small) /\ FlattenSeq(n) = v \o piece /\ v \o piece \in Text
        /\ Len(v \o piece) = Len(v) + Len(piece) /\ Len(v) \in Nat /\ LengthOf(o) = Len(v)
    <3>1. FlattenSeq(Append(o, piece)) = v \o piece
      BY <1>2, <2>5, FlattenText
    <3>2. v \o piece \in Text /\ Len(v \o piece) = Len(v) + Len(piece) /\ Len(v) \in Nat
      BY <1>2, <2>8, TextConcat
    <3> QED BY <2>6, <3>1, <3>2 DEF LengthOf
  <2> HIDE DEF fa, v, n
  <2>10. y \in Text /\ Len(y) = Len(x) + Len(fa) /\ Len(fa) \in Nat
    BY <2>8, TextConcat
  <2>11. t \o piece = y \o (v \o piece)
    <3>1. t = (x \o fa) \o v
      BY <1>1, <2>8, TextAssociative
    <3>2. (y \o v) \o piece = y \o (v \o piece)
      BY <1>2, <2>8, <2>10, TextAssociative, ZenonT(60)
    <3> QED BY <3>1, <3>2
  <2> HIDE DEF y
  <2>12. Spread(t, d, Len(y))
    <3>1. Len(x) <= Len(y) /\ Len(y) \in Nat /\ d \in Seq(Text)
      BY <1>4, <2>4, <2>10, SmallText
    <3> QED BY <1>4, <2>4, <3>1, SpreadLater
  <2>13. Len(v \o piece) <= MaxTokens
    BY <1>2, <2>5, <2>9
  <2>14. after = [done |-> d, now |-> n]
    BY <1>9 DEF d, c, n
  <2>15. /\ FlattenSeq(n) \in Text /\ Len(FlattenSeq(n)) <= MaxTokens
         /\ t \o piece = y \o FlattenSeq(n)
    BY <2>9, <2>11, <2>13
  <2>16. Fits(d, n, y)
    BY <2>4, <2>9, <2>10, <2>12, <2>14, <2>15
  <2> HIDE DEF Fits
  <2> QED BY <1>7, <2>16 DEF after
<1> QED
  BY <1>5, <1>8, <1>9 DEF after

\* The pieces put together, none longer than a chunk, in the order of the text.
Parts(t, ts) == ts \in Seq(Small) /\ Spread(t, ts, Len(t))

LEMMA MergingHolds ==
  ASSUME NEW ps \in Seq(Small)
  PROVE  Merging(ps, MergeEnd(ps))
<1> DEFINE S == {s \in Seq(Small) : Merging(s, MergeEnd(s))}
<1>1. <<>> \in S
  <2>1. <<>> \in Seq(Text) /\ <<>> \in Seq(Small)
    BY EmptySeq
  <2>2. MergeEnd(<<>>) = MergeBase
    BY <2>1, PiecesFolds, FoldBase
  <2> QED BY <2>1, <2>2, MergingStarts
<1>2. ASSUME NEW s \in Seq(Small), NEW p \in Small, s \in S PROVE Append(s, p) \in S
  <2>1. Append(s, p) \in Seq(Small) /\ s \in Seq(Text) /\ Append(s, p) \in Seq(Text) /\ p \in Text
    BY SmallText
  <2> DEFINE a == MergeEnd(s)
             e == MergeEnd(Append(s, p))
  <2>2. /\ Folded(MergeState, PiecesStep, MergeBase, s, a)
        /\ Folded(MergeState, PiecesStep, MergeBase, Append(s, p), e)
    BY <2>1, PiecesFolds
  <2>3. Merging(s, a)
    BY <1>2
  <2> HIDE DEF a, e, S
  <2>4. a \in MergeState /\ e = PiecesStep[<<a, p>>]
    BY <2>1, <2>2, PiecesIsStep, FoldGrows
  <2>5. <<a, p>> \in MergeState \X Text
    BY <2>1, <2>4
  <2>6. e = MergeSplit(a, p)
    BY <2>4, <2>5 DEF PiecesStep
  <2>7. Merging(Append(s, p), e)
    BY <2>1, <2>3, <2>6, MergingGoesOn
  <2> QED BY <2>1, <2>7 DEF S, e
<1>3. \A s \in Seq(Small) : s \in S
  <2> HIDE DEF S
  <2> QED BY <1>1, <1>2, InductiveSeq
<1> QED
  BY <1>3

LEMMA MergeSplitsParts ==
  ASSUME NEW ps \in Seq(Small)
  PROVE  Parts(FlattenSeq(ps), MergeSplits(ps))
<1> DEFINE end == MergeEnd(ps)
           t == FlattenSeq(ps)
           u == FlattenSeq(end.now)
           c == strip(u)
           all == Append(end.done, c)
<1>1. Merging(ps, end)
  BY MergingHolds
<1>2. MergeSplits(ps) = Without(all, {<<>>})
  BY DEF MergeSplits, MergeEnd, MergeBase
<1>3. end.done \in Seq(Small) /\ end.now \in Seq(Small) /\ Len(u) <= MaxTokens
  <2> HIDE DEF end
  <2>1. end \in [done : Seq(Small), now : Seq(Small)]
    BY <1>1 DEF Merging
  <2> QED BY <1>1, <2>1 DEF Merging
<1>4. PICK x \in Text : t = x \o u /\ Spread(t, end.done, Len(x))
  BY <1>1 DEF Merging
<1> HIDE DEF end, t, u
<1>5. t \in Text /\ u \in Text /\ end.done \in Seq(Text)
  BY <1>3, SmallText, FlattenText DEF t, u
<1>6. c \in Text /\ Len(c) <= Len(u) /\ Len(c) \in Nat /\ Len(u) \in Nat /\ MaxTokens \in Nat
  BY <1>5, StripIs, TextSeq, ChunkingAssumption
<1>7. c \in Small
  BY <1>3, <1>6 DEF Small
<1>8. Window(t, c, Len(x))
  <2>1. At(u, x \o u, Len(x))
    BY <1>5, AtSides
  <2> QED BY <1>4, <1>5, <2>1 DEF Window
<1>9. Len(t) = Len(x) + Len(u) /\ Len(x) \in Nat /\ Len(t) \in Nat
  BY <1>4, <1>5, TextConcat
<1> HIDE DEF c
<1>10. Spread(t, all, Len(t)) /\ all \in Seq(Small)
  <2>1. Len(x) <= Len(x) /\ Len(x) <= Len(t)
    BY <1>6, <1>9
  <2>2. Spread(t, Append(end.done, c), Len(t))
    BY <1>4, <1>5, <1>6, <1>8, <1>9, <2>1, SpreadAppend
  <2> QED BY <1>3, <1>7, <2>2
<1> HIDE DEF all
<1>11. Spread(t, Without(all, {<<>>}), Len(t)) /\ Without(all, {<<>>}) \in Seq(Small)
  BY <1>9, <1>10, SmallText, SpreadWithout, WithoutType
<1> QED
  BY <1>2, <1>11 DEF Parts, t

-----------------------------------------------------------------------------
(***************************************************************************)
(* Pieces that are too long are cut by the next separator.                 *)
(***************************************************************************)
SplitState == [done : Seq(Small), good : Seq(Small)]

\* What is done is in the first x words of the pieces, what is good behind them.
Splitting(ps, acc) ==
  /\ acc \in SplitState
  /\ \E x \in Text : /\ FlattenSeq(ps) = x \o FlattenSeq(acc.good)
                     /\ Spread(FlattenSeq(ps), acc.done, Len(x))

LEMMA SplittingStarts == Splitting(<<>>, Unsplit) /\ Unsplit \in SplitState
<1>1. Unsplit.done = <<>> /\ Unsplit.good = <<>> /\ Unsplit \in SplitState
  BY EmptySeq DEF Unsplit, SplitState
<1>2. FlattenSeq(<<>>) = <<>> /\ <<>> \in Text /\ <<>> = <<>> \o <<>>
  BY FlattenText, TextSeq, TextConcat
<1>3. Spread(<<>>, <<>>, Len(<<>>))
  BY SpreadNone
<1> QED
  BY <1>1, <1>2, <1>3 DEF Splitting

\* What the good ones make follows what is done.
LEMMA SplittingJoins ==
  ASSUME NEW ps \in Seq(Text), NEW acc, Splitting(ps, acc)
  PROVE  Parts(FlattenSeq(ps), AllOf(acc))
<1> DEFINE done == acc.done
           good == acc.good
           t == FlattenSeq(ps)
           g == FlattenSeq(good)
           m == MergeSplits(good)
<1>1. done \in Seq(Small) /\ good \in Seq(Small)
  <2>1. acc \in SplitState
    BY DEF Splitting
  <2> QED BY <2>1 DEF SplitState
<1>2. PICK x \in Text : t = x \o g /\ Spread(t, done, Len(x))
  BY DEF Splitting
<1>3. AllOf(acc) = done \o m
  BY DEF AllOf
<1> HIDE DEF done, good, t, g
<1>4. Parts(g, m)
  BY <1>1, MergeSplitsParts DEF g
<1> HIDE DEF m
<1>5. m \in Seq(Small) /\ Spread(g, m, Len(g))
  BY <1>4 DEF Parts
<1>6. g \in Text /\ Len(t) = Len(x) + Len(g) /\ Len(g) \in Nat
  <2>1. g \in Text
    BY <1>1, SmallText, FlattenText DEF g
  <2> QED BY <1>2, <2>1, TextConcat
<1>7. done \in Seq(Text) /\ m \in Seq(Text)
  BY <1>1, <1>5, SmallText
<1>8. Spread(x \o g, done \o m, Len(x) + Len(g))
  BY <1>2, <1>5, <1>6, <1>7, SpreadJoin
<1>9. done \o m \in Seq(Small)
  BY <1>1, <1>5, ConcatProperties
<1> QED
  BY <1>2, <1>3, <1>6, <1>8, <1>9 DEF Parts, t

LEMMA SplitIs ==
  ASSUME NEW acc, NEW piece, NEW deeper
  PROVE  Split(acc, piece, deeper) =
           IF Len(piece) < MaxTokens
           THEN [acc EXCEPT !.good = Append(@, piece)]
           ELSE [done |-> AllOf(acc) \o deeper, good |-> <<>>]
BY DEF Split, AllOf

LEMMA SplitType ==
  ASSUME NEW acc \in SplitState, NEW piece \in Text, NEW deeper \in Seq(Small)
  PROVE  Split(acc, piece, deeper) \in SplitState
<1>0. acc = [done |-> acc.done, good |-> acc.good] /\ acc.done \in Seq(Small)
      /\ acc.good \in Seq(Small)
  BY DEF SplitState
<1>1. CASE Len(piece) < MaxTokens
  <2>1. piece \in Small
    BY <1>1, TextSeq, ChunkingAssumption DEF Small
  <2>2. Append(acc.good, piece) \in Seq(Small)
    BY <1>0, <2>1
  <2>3. Split(acc, piece, deeper) = [done |-> acc.done, good |-> Append(acc.good, piece)]
    BY <1>0, <1>1 DEF Split
  <2> QED BY <1>0, <2>2, <2>3 DEF SplitState
<1>2. CASE ~(Len(piece) < MaxTokens)
  <2> DEFINE m == MergeSplits(acc.good)
             all == acc.done \o m
             d == all \o deeper
  <2>1. m \in Seq(Small)
    BY <1>0, MergeSplitsParts DEF Parts
  <2>2. Split(acc, piece, deeper) = [done |-> d, good |-> <<>>]
    BY <1>2, SplitIs DEF AllOf
  <2> HIDE DEF m
  <2>3. all \in Seq(Small)
    BY <1>0, <2>1, ConcatProperties
  <2> HIDE DEF all
  <2>4. d \in Seq(Small)
    BY <2>3, ConcatProperties
  <2> HIDE DEF d
  <2>5. <<>> \in Seq(Small)
    BY EmptySeq
  <2> QED BY <2>2, <2>4, <2>5 DEF SplitState
<1> QED
  BY <1>1, <1>2

LEMMA SplittingGoesOn ==
  ASSUME NEW ps \in Seq(Text), NEW acc, Splitting(ps, acc), NEW piece \in Text,
         NEW deeper, Parts(piece, deeper)
  PROVE  Splitting(Append(ps, piece), Split(acc, piece, deeper))
<1> DEFINE done == acc.done
           good == acc.good
           t == FlattenSeq(ps)
           g == FlattenSeq(good)
           after == Split(acc, piece, deeper)
<1>0. acc = [done |-> done, good |-> good] /\ done \in Seq(Small) /\ good \in Seq(Small)
      /\ acc \in SplitState
  <2>1. acc \in SplitState
    BY DEF Splitting
  <2> QED BY <2>1 DEF SplitState
<1>1. PICK x \in Text : t = x \o g /\ Spread(t, done, Len(x))
  BY DEF Splitting
<1>2. done \in Seq(Text) /\ good \in Seq(Text) /\ deeper \in Seq(Small)
      /\ Spread(piece, deeper, Len(piece))
  BY <1>0, SmallText DEF Parts
<1>3. t \in Text /\ g \in Text /\ FlattenSeq(Append(ps, piece)) = t \o piece
      /\ FlattenSeq(Append(good, piece)) = g \o piece
  BY <1>2, FlattenText
<1>4. Len(x) \in Nat
  BY TextSeq
<1>a. after \in SplitState
  BY <1>0, <1>2, SplitType
<1>5. CASE Len(piece) < MaxTokens
  <2>1. after.done = done /\ after.good = Append(good, piece)
    <3>1. after = [done |-> done, good |-> Append(good, piece)]
      BY <1>0, <1>5 DEF Split
    <3> HIDE DEF after, done, good
    <3> QED BY <3>1
  <2> HIDE DEF done, good, t, g, after
  <2>2. (x \o g) \o piece = x \o (g \o piece)
    BY <1>3, TextAssociative
  <2>3. Spread(t \o piece, done, Len(x))
    BY <1>1, <1>2, <1>3, <1>4, SpreadGrow
  <2>4. Splitting(Append(ps, piece), after)
    BY <1>1, <1>3, <1>a, <2>1, <2>2, <2>3 DEF Splitting
  <2> QED BY <2>4 DEF after
<1>6. CASE ~(Len(piece) < MaxTokens)
  <2> DEFINE all == AllOf(acc)
             d == all \o deeper
  <2>1. after.done = d /\ after.good = <<>>
    <3>1. after = [done |-> d, good |-> <<>>]
      BY <1>6, SplitIs
    <3> HIDE DEF after, d
    <3> QED BY <3>1
  <2>2. Parts(t, all)
    BY SplittingJoins
  <2> HIDE DEF done, good, t, g, after, all
  <2>3. all \in Seq(Text) /\ deeper \in Seq(Text) /\ Spread(t, all, Len(t))
    BY <1>2, <2>2, SmallText DEF Parts
  <2>4. Len(t) \in Nat /\ Len(piece) \in Nat /\ Len(t \o piece) = Len(t) + Len(piece)
        /\ t \o piece \in Text /\ t \o piece = (t \o piece) \o <<>>
    BY <1>3, TextConcat
  <2>5. Spread(t \o piece, all, Len(t))
    BY <1>3, <2>3, <2>4, SpreadGrow
  <2>6. Spread(t \o piece, d, Len(t \o piece))
    <3>1. Spread(t \o piece, all \o deeper, Len(t) + Len(piece))
      BY <1>2, <1>3, <2>3, <2>4, <2>5, SpreadJoin
    <3> QED BY <2>4, <3>1
  <2>7. FlattenSeq(after.good) = <<>>
    BY <2>1, FlattenText
  <2> DEFINE y == t \o piece
  <2>8. y \in Text /\ FlattenSeq(Append(ps, piece)) = y \o FlattenSeq(after.good)
        /\ Spread(FlattenSeq(Append(ps, piece)), after.done, Len(y))
    BY <1>3, <2>1, <2>4, <2>6, <2>7
  <2> HIDE DEF y
  <2>9. Splitting(Append(ps, piece), after)
    BY <1>a, <2>8 DEF Splitting
  <2> QED BY <2>9 DEF after
<1> QED
  BY <1>5, <1>6

LEMMA SplitWordsParts ==
  ASSUME NEW t \in Text
  PROVE  Parts(t, SplitWords(t))
<1>1. SplitWords(t) = MergeSplits(Singles(t))
  BY DEF SplitWords, Singles
<1> QED
  BY <1>1, SinglesKeep, MergeSplitsParts

\* A paragraph, line by line, word by word.
LinesStep == [p \in SplitState \X Text |-> Split(p[1], p[2], SplitWords(p[2]))]
LinesEnd(s) == FoldLeft(LAMBDA acc, piece : Split(acc, piece, SplitWords(piece)), Unsplit, s)

LEMMA LinesIsStep == IsStep(Text, SplitState, LinesStep, Unsplit)
<1>1. ASSUME NEW acc \in SplitState, NEW piece \in Text
      PROVE  Split(acc, piece, SplitWords(piece)) \in SplitState
  <2>1. SplitWords(piece) \in Seq(Small)
    BY SplitWordsParts DEF Parts
  <2> QED BY <2>1, SplitType
<1> QED
  BY <1>1, SplittingStarts DEF IsStep, LinesStep

LEMMA LinesFolds ==
  ASSUME NEW s \in Seq(Text)
  PROVE  Folded(SplitState, LinesStep, Unsplit, s, LinesEnd(s))
<1> DEFINE n == Len(s)
           Is(h) == h = [S \in SUBSET (1..n) |->
                 IF S = {} THEN Unsplit ELSE Split(h[S \ {Max(S)}], s[Max(S)], SplitWords(s[Max(S)]))]
           fold == CHOOSE h : Is(h)
<1>0. n \in Nat /\ DOMAIN s = 1..n /\ \A k \in 1..n : s[k] \in Text
  OBVIOUS
<1>1. IsStep(Text, SplitState, LinesStep, Unsplit)
  BY LinesIsStep
<1>2. PICK h : FoldBy(SplitState, LinesStep, Unsplit, s, h)
  BY <1>1, FoldDefined
<1>3. Is(h)
  <2>1. h \in [SUBSET (1..n) -> SplitState]
    BY <1>2 DEF FoldBy
  <2>2. ASSUME NEW S \in SUBSET (1..n)
        PROVE  h[S] = IF S = {} THEN Unsplit ELSE Split(h[S \ {Max(S)}], s[Max(S)], SplitWords(s[Max(S)]))
    <3>1. S # {} => Max(S) \in 1..n /\ S \ {Max(S)} \in SUBSET (1..n)
      BY <1>0, TopOf
    <3>2. h[S] = IF S = {} THEN Unsplit ELSE LinesStep[<<h[S \ {Max(S)}], s[Max(S)]>>]
      BY <1>2 DEF FoldBy
    <3>3. S # {} => h[S \ {Max(S)}] \in SplitState /\ s[Max(S)] \in Text
      BY <1>0, <2>1, <3>1
    <3> QED BY <3>2, <3>3 DEF LinesStep
  <2> QED
    BY <2>1, <2>2
<1>4. Is(fold)
  <2> HIDE DEF Is
  <2> QED BY <1>3
<1>5. LinesEnd(s) = fold[1..n]
  BY <1>0 DEF LinesEnd, FoldLeft, MapThenFoldSet
<1> HIDE DEF fold
<1>6. fold[{}] = Unsplit
  BY <1>4
<1>7. ASSUME NEW k \in 1..n, fold[1..(k - 1)] \in SplitState
      PROVE  fold[1..k] = LinesStep[<<fold[1..(k - 1)], s[k]>>]
  <2>0. /\ 1..k \in SUBSET (1..n) /\ 1..k # {}
        /\ Max(1..k) = k /\ (1..k) \ {k} = 1..(k - 1)
    BY <1>0, Positions
  <2>1. s[k] \in Text
    BY <1>0
  <2>2. fold[1..k] = Split(fold[1..(k - 1)], s[k], SplitWords(s[k]))
    BY <1>4, <2>0
  <2> QED BY <1>7, <2>1, <2>2 DEF LinesStep
<1> QED
  <2>1. Folded(SplitState, LinesStep, Unsplit, s, fold[1..Len(s)])
    BY <1>1, <1>6, <1>7, FoldFolds
  <2> QED BY <1>5, <2>1

LEMMA LinesHolds ==
  ASSUME NEW ps \in Seq(Text)
  PROVE  Splitting(ps, LinesEnd(ps))
<1> DEFINE S == {s \in Seq(Text) : Splitting(s, LinesEnd(s))}
<1>1. <<>> \in S
  <2>1. <<>> \in Seq(Text)
    BY EmptySeq
  <2>2. LinesEnd(<<>>) = Unsplit
    BY <2>1, LinesFolds, FoldBase
  <2> QED BY <2>1, <2>2, SplittingStarts
<1>2. ASSUME NEW s \in Seq(Text), NEW p \in Text, s \in S PROVE Append(s, p) \in S
  <2>1. Append(s, p) \in Seq(Text)
    OBVIOUS
  <2> DEFINE a == LinesEnd(s)
             e == LinesEnd(Append(s, p))
  <2>2. /\ Folded(SplitState, LinesStep, Unsplit, s, a)
        /\ Folded(SplitState, LinesStep, Unsplit, Append(s, p), e)
    BY <2>1, LinesFolds
  <2>3. Splitting(s, a)
    BY <1>2
  <2> HIDE DEF a, e, S
  <2>4. a \in SplitState /\ e = LinesStep[<<a, p>>]
    BY <2>1, <2>2, LinesIsStep, FoldGrows
  <2>5. <<a, p>> \in SplitState \X Text
    BY <2>4
  <2>6. e = Split(a, p, SplitWords(p))
    BY <2>4, <2>5 DEF LinesStep
  <2>7. Splitting(Append(s, p), e)
    BY <2>3, <2>6, SplitWordsParts, SplittingGoesOn
  <2> QED BY <2>1, <2>7 DEF S, e
<1>3. \A s \in Seq(Text) : s \in S
  <2> HIDE DEF S
  <2> QED BY <1>1, <1>2, InductiveSeq
<1> QED
  BY <1>3

LEMMA SplitLinesParts ==
  ASSUME NEW t \in Text
  PROVE  Parts(t, SplitLines(t))
<1> DEFINE ps == Cuts(t, Line)
<1>1. SplitLines(t) = AllOf(LinesEnd(ps))
  BY DEF SplitLines, LinesEnd
<1>2. ps \in Seq(Text) /\ FlattenSeq(ps) = t
  BY CutsKeep
<1> HIDE DEF ps
<1>3. Splitting(ps, LinesEnd(ps))
  BY <1>2, LinesHolds
<1>4. Parts(FlattenSeq(ps), AllOf(LinesEnd(ps)))
  BY <1>2, <1>3, SplittingJoins
<1> QED
  BY <1>1, <1>2, <1>4

\* A text, paragraph by paragraph, line by line.
ParasStep == [p \in SplitState \X Text |-> Split(p[1], p[2], SplitLines(p[2]))]
ParasEnd(s) == FoldLeft(LAMBDA acc, piece : Split(acc, piece, SplitLines(piece)), Unsplit, s)

LEMMA ParasIsStep == IsStep(Text, SplitState, ParasStep, Unsplit)
<1>1. ASSUME NEW acc \in SplitState, NEW piece \in Text
      PROVE  Split(acc, piece, SplitLines(piece)) \in SplitState
  <2>1. SplitLines(piece) \in Seq(Small)
    BY SplitLinesParts DEF Parts
  <2> QED BY <2>1, SplitType
<1> QED
  BY <1>1, SplittingStarts DEF IsStep, ParasStep

LEMMA ParasFolds ==
  ASSUME NEW s \in Seq(Text)
  PROVE  Folded(SplitState, ParasStep, Unsplit, s, ParasEnd(s))
<1> DEFINE n == Len(s)
           Is(h) == h = [S \in SUBSET (1..n) |->
                 IF S = {} THEN Unsplit ELSE Split(h[S \ {Max(S)}], s[Max(S)], SplitLines(s[Max(S)]))]
           fold == CHOOSE h : Is(h)
<1>0. n \in Nat /\ DOMAIN s = 1..n /\ \A k \in 1..n : s[k] \in Text
  OBVIOUS
<1>1. IsStep(Text, SplitState, ParasStep, Unsplit)
  BY ParasIsStep
<1>2. PICK h : FoldBy(SplitState, ParasStep, Unsplit, s, h)
  BY <1>1, FoldDefined
<1>3. Is(h)
  <2>1. h \in [SUBSET (1..n) -> SplitState]
    BY <1>2 DEF FoldBy
  <2>2. ASSUME NEW S \in SUBSET (1..n)
        PROVE  h[S] = IF S = {} THEN Unsplit ELSE Split(h[S \ {Max(S)}], s[Max(S)], SplitLines(s[Max(S)]))
    <3>1. S # {} => Max(S) \in 1..n /\ S \ {Max(S)} \in SUBSET (1..n)
      BY <1>0, TopOf
    <3>2. h[S] = IF S = {} THEN Unsplit ELSE ParasStep[<<h[S \ {Max(S)}], s[Max(S)]>>]
      BY <1>2 DEF FoldBy
    <3>3. S # {} => h[S \ {Max(S)}] \in SplitState /\ s[Max(S)] \in Text
      BY <1>0, <2>1, <3>1
    <3> QED BY <3>2, <3>3 DEF ParasStep
  <2> QED
    BY <2>1, <2>2
<1>4. Is(fold)
  <2> HIDE DEF Is
  <2> QED BY <1>3
<1>5. ParasEnd(s) = fold[1..n]
  BY <1>0 DEF ParasEnd, FoldLeft, MapThenFoldSet
<1> HIDE DEF fold
<1>6. fold[{}] = Unsplit
  BY <1>4
<1>7. ASSUME NEW k \in 1..n, fold[1..(k - 1)] \in SplitState
      PROVE  fold[1..k] = ParasStep[<<fold[1..(k - 1)], s[k]>>]
  <2>0. /\ 1..k \in SUBSET (1..n) /\ 1..k # {}
        /\ Max(1..k) = k /\ (1..k) \ {k} = 1..(k - 1)
    BY <1>0, Positions
  <2>1. s[k] \in Text
    BY <1>0
  <2>2. fold[1..k] = Split(fold[1..(k - 1)], s[k], SplitLines(s[k]))
    BY <1>4, <2>0
  <2> QED BY <1>7, <2>1, <2>2 DEF ParasStep
<1> QED
  <2>1. Folded(SplitState, ParasStep, Unsplit, s, fold[1..Len(s)])
    BY <1>1, <1>6, <1>7, FoldFolds
  <2> QED BY <1>5, <2>1

LEMMA ParasHolds ==
  ASSUME NEW ps \in Seq(Text)
  PROVE  Splitting(ps, ParasEnd(ps))
<1> DEFINE S == {s \in Seq(Text) : Splitting(s, ParasEnd(s))}
<1>1. <<>> \in S
  <2>1. <<>> \in Seq(Text)
    BY EmptySeq
  <2>2. ParasEnd(<<>>) = Unsplit
    BY <2>1, ParasFolds, FoldBase
  <2> QED BY <2>1, <2>2, SplittingStarts
<1>2. ASSUME NEW s \in Seq(Text), NEW p \in Text, s \in S PROVE Append(s, p) \in S
  <2>1. Append(s, p) \in Seq(Text)
    OBVIOUS
  <2> DEFINE a == ParasEnd(s)
             e == ParasEnd(Append(s, p))
  <2>2. /\ Folded(SplitState, ParasStep, Unsplit, s, a)
        /\ Folded(SplitState, ParasStep, Unsplit, Append(s, p), e)
    BY <2>1, ParasFolds
  <2>3. Splitting(s, a)
    BY <1>2
  <2> HIDE DEF a, e, S
  <2>4. a \in SplitState /\ e = ParasStep[<<a, p>>]
    BY <2>1, <2>2, ParasIsStep, FoldGrows
  <2>5. <<a, p>> \in SplitState \X Text
    BY <2>4
  <2>6. e = Split(a, p, SplitLines(p))
    BY <2>4, <2>5 DEF ParasStep
  <2>7. Splitting(Append(s, p), e)
    BY <2>3, <2>6, SplitLinesParts, SplittingGoesOn
  <2> QED BY <2>1, <2>7 DEF S, e
<1>3. \A s \in Seq(Text) : s \in S
  <2> HIDE DEF S
  <2> QED BY <1>1, <1>2, InductiveSeq
<1> QED
  BY <1>3

LEMMA split_textParts ==
  ASSUME NEW t \in Text
  PROVE  Parts(t, split_text(t))
<1> DEFINE ps == Cuts(t, Para)
<1>1. split_text(t) = AllOf(ParasEnd(ps))
  BY DEF split_text, ParasEnd
<1>2. ps \in Seq(Text) /\ FlattenSeq(ps) = t
  BY CutsKeep
<1> HIDE DEF ps
<1>3. Splitting(ps, ParasEnd(ps))
  BY <1>2, ParasHolds
<1>4. Parts(FlattenSeq(ps), AllOf(ParasEnd(ps)))
  BY <1>2, <1>3, SplittingJoins
<1> QED
  BY <1>1, <1>2, <1>4

\* Of the parts of a text, none of which is too long, those that are too small
\* are let go.
Tiny == {c \in Small : Len(c) < MinTokens}
Fitted(cs) == [i \in DOMAIN cs |-> IF cs[i] \in Tiny THEN <<>> ELSE <<cs[i]>>]

LEMMA FittedIs ==
  ASSUME NEW cs \in Seq(Small)
  PROVE  FlattenSeq(Fitted(cs)) = Without(cs, Tiny)
<1> DEFINE S == {s \in Seq(Small) : FlattenSeq(Fitted(s)) = Without(s, Tiny)}
<1>0. ASSUME NEW s \in Seq(Small)
      PROVE  /\ Fitted(s) \in Seq(Seq(Small)) /\ Len(Fitted(s)) = Len(s)
             /\ \A i \in 1..Len(s) :
                  Fitted(s)[i] = IF s[i] \in Tiny THEN <<>> ELSE <<s[i]>>
  <2>1. DOMAIN s = 1..Len(s) /\ Len(s) \in Nat /\ \A i \in 1..Len(s) : s[i] \in Small
    OBVIOUS
  <2>2. ASSUME NEW i \in 1..Len(s)
        PROVE  (IF s[i] \in Tiny THEN <<>> ELSE <<s[i]>>) \in Seq(Small)
    <3> DEFINE c == s[i]
    <3>1. c \in Small
      BY <2>1
    <3> HIDE DEF c
    <3>2. <<>> \in Seq(Small) /\ <<c>> \in Seq(Small)
      BY <3>1, EmptySeq
    <3> QED BY <3>2 DEF c
  <2>3. Fitted(s) = [i \in 1..Len(s) |-> IF s[i] \in Tiny THEN <<>> ELSE <<s[i]>>]
    BY <2>1 DEF Fitted
  <2> QED BY <2>1, <2>2, <2>3
<1>1. <<>> \in S
  <2>1. <<>> \in Seq(Small)
    BY EmptySeq
  <2>2. Fitted(<<>>) = <<>>
    <3> DEFINE f == Fitted(<<>>)
    <3>1. f \in Seq(Seq(Small)) /\ Len(f) = 0
      BY <1>0, <2>1
    <3> HIDE DEF f
    <3>2. f = <<>>
      BY <3>1
    <3> QED BY <3>2 DEF f
  <2> QED BY <2>1, <2>2, FlattenText, WithoutNone
<1>2. ASSUME NEW s \in Seq(Small), NEW c \in Small, s \in S PROVE Append(s, c) \in S
  <2> DEFINE e == Append(s, c)
             f == Fitted(s)
             v == IF c \in Tiny THEN <<>> ELSE <<c>>
             w == Without(s, Tiny)
  <2>1. e \in Seq(Small) /\ Len(e) = Len(s) + 1 /\ Len(s) \in Nat
        /\ e[Len(s) + 1] = c /\ \A i \in 1..Len(s) : e[i] = s[i]
    OBVIOUS
  <2>2. FlattenSeq(f) = w
    BY <1>2
  <2>3. v \in Seq(Small) /\ w \in Seq(Small)
    <3>1. <<>> \in Seq(Small) /\ <<c>> \in Seq(Small)
      BY EmptySeq
    <3>2. w \in Seq(Small)
      BY WithoutType
    <3> QED BY <3>1, <3>2
  <2>4. Without(e, Tiny) = IF c \in Tiny THEN w ELSE Append(w, c)
    BY WithoutGrows
  <2>v. v = IF c \in Tiny THEN <<>> ELSE <<c>>
    OBVIOUS
  <2> HIDE DEF e, f, S, v, w
  <2>5. Without(e, Tiny) = w \o v
    <3>1. w \o <<>> = w /\ Append(w, c) = w \o <<c>>
      BY <2>3, ConcatEmptySeq, AppendIsConcat
    <3> QED BY <2>4, <2>v, <3>1
  <2>6. /\ f \in Seq(Seq(Small)) /\ Len(f) = Len(s)
        /\ \A i \in 1..Len(s) : f[i] = IF s[i] \in Tiny THEN <<>> ELSE <<s[i]>>
    BY <1>0 DEF f
  <2>7. Fitted(e) = Append(f, v)
    <3>1. /\ Fitted(e) \in Seq(Seq(Small)) /\ Len(Fitted(e)) = Len(s) + 1
          /\ \A i \in 1..(Len(s) + 1) :
               Fitted(e)[i] = IF e[i] \in Tiny THEN <<>> ELSE <<e[i]>>
      BY <1>0, <2>1
    <3>2. /\ Append(f, v) \in Seq(Seq(Small)) /\ Len(Append(f, v)) = Len(s) + 1
          /\ Append(f, v)[Len(s) + 1] = v
          /\ \A i \in 1..Len(s) : Append(f, v)[i] = f[i]
      BY <2>1, <2>3, <2>6
    <3>3. ASSUME NEW i \in 1..(Len(s) + 1) PROVE Fitted(e)[i] = Append(f, v)[i]
      <4>1. CASE i = Len(s) + 1
        <5>1. e[i] = c /\ Append(f, v)[i] = v
          BY <2>1, <3>2, <4>1
        <5>2. Fitted(e)[i] = IF e[i] \in Tiny THEN <<>> ELSE <<e[i]>>
          BY <3>1
        <5> QED BY <2>v, <5>1, <5>2
      <4>2. CASE i \in 1..Len(s)
        <5>1. e[i] = s[i] /\ Append(f, v)[i] = f[i]
          BY <2>1, <3>2, <4>2
        <5>2. Fitted(e)[i] = IF e[i] \in Tiny THEN <<>> ELSE <<e[i]>>
          BY <3>1
        <5>3. f[i] = IF s[i] \in Tiny THEN <<>> ELSE <<s[i]>>
          BY <2>6, <4>2
        <5> QED BY <5>1, <5>2, <5>3
      <4>3. i = Len(s) + 1 \/ i \in 1..Len(s)
        BY <2>1
      <4> QED BY <4>1, <4>2, <4>3
    <3> QED BY <3>1, <3>2, <3>3, SeqEqual
  <2>8. FlattenSeq(Append(f, v)) = FlattenSeq(f) \o v
    BY <2>3, <2>6, FlattenGrows
  <2> QED BY <2>1, <2>2, <2>5, <2>7, <2>8 DEF S, e
<1>3. \A s \in Seq(Small) : s \in S
  <2> HIDE DEF S
  <2> QED BY <1>1, <1>2, InductiveSeq
<1> QED
  BY <1>3

LEMMA ChunkTextsAre ==
  ASSUME NEW t \in Text
  PROVE  /\ split_text(t) \in Seq(Small) /\ Spread(t, split_text(t), Len(t))
         /\ chunk_text_with_tokens(t) = Without(split_text(t), Tiny)
<1> DEFINE raw == split_text(t)
           fit(c) ==
             IF count_tokens(c) > MaxTokens
             THEN Without(split_text(c), crumbs(split_text(c)))
             ELSE IF count_tokens(c) >= MinTokens THEN <<c>> ELSE <<>>
           made == [i \in DOMAIN raw |-> fit(raw[i])]
<1>1. Parts(t, raw)
  BY split_textParts
<1>2. chunk_text_with_tokens(t) = FlattenSeq(made)
  BY DEF chunk_text_with_tokens
<1> HIDE DEF raw
<1>3. raw \in Seq(Small) /\ Spread(t, raw, Len(t))
  BY <1>1 DEF Parts
<1>0. MinTokens \in Nat \ {0} /\ MaxTokens \in Nat
  BY ChunkingAssumption
<1>4. made = Fitted(raw)
  <2>1. ASSUME NEW i \in DOMAIN raw
        PROVE  fit(raw[i]) = IF raw[i] \in Tiny THEN <<>> ELSE <<raw[i]>>
    <3> DEFINE c == raw[i]
    <3>1. c \in Small
      BY <1>3
    <3> HIDE DEF c
    <3>2. Len(c) \in Nat /\ ~(Len(c) > MaxTokens)
      BY <1>0, <3>1, TextSeq DEF Small
    <3>3. c \in Tiny <=> ~(Len(c) >= MinTokens)
      BY <1>0, <3>1, <3>2 DEF Tiny
    <3>4. fit(c) = IF Len(c) >= MinTokens THEN <<c>> ELSE <<>>
      BY <3>2 DEF count_tokens
    <3> HIDE DEF fit
    <3>5. fit(c) = IF c \in Tiny THEN <<>> ELSE <<c>>
      BY <3>3, <3>4
    <3> QED BY <3>5 DEF c
  <2> HIDE DEF fit
  <2> QED BY <2>1 DEF Fitted
<1> HIDE DEF made
<1>5. chunk_text_with_tokens(t) = Without(raw, Tiny)
  BY <1>2, <1>3, <1>4, FittedIs
<1> QED
  BY <1>3, <1>5 DEF raw

\* The chunks of a text stand in it one after the other, and none is empty.
LEMMA ChunkTexts ==
  ASSUME NEW t \in Text
  PROVE  LET ts == chunk_text_with_tokens(t)
         IN  /\ ts \in Seq(Text) /\ Spread(t, ts, Len(t))
             /\ \A k \in 1..Len(ts) : ts[k] # <<>>
<1> DEFINE raw == split_text(t)
           ts == Without(raw, Tiny)
<1>0. MinTokens \in Nat \ {0} /\ Len(t) \in Nat
  BY ChunkingAssumption, TextSeq
<1>3. raw \in Seq(Small) /\ Spread(t, raw, Len(t))
  BY ChunkTextsAre
<1>5. chunk_text_with_tokens(t) = ts
  BY ChunkTextsAre
<1> HIDE DEF raw
<1>6. raw \in Seq(Text)
  BY <1>3, SmallText
<1>7. ts \in Seq(Small) /\ ts \in Seq(Text) /\ Spread(t, ts, Len(t))
  BY <1>0, <1>3, <1>6, SmallText, WithoutType, SpreadWithout
<1>8. ToSet(ts) = ToSet(raw) \ Tiny
  BY <1>3, WithoutSet
<1> HIDE DEF ts
<1>9. ASSUME NEW k \in 1..Len(ts) PROVE ts[k] # <<>>
  <2>1. ts[k] \in ToSet(ts) /\ ts[k] \in Small
    BY <1>7 DEF ToSet
  <2>2. ts[k] \notin Tiny
    BY <1>8, <2>1
  <2> SUFFICES ASSUME ts[k] = <<>> PROVE FALSE
    OBVIOUS
  <2>3. Len(ts[k]) = 0
    OBVIOUS
  <2> QED BY <1>0, <2>1, <2>2, <2>3 DEF Tiny
<1> QED
  BY <1>5, <1>7, <1>9

-----------------------------------------------------------------------------
(***************************************************************************)
(* The text of a window, and where its pages stand in it.                  *)
(***************************************************************************)
LEMMA LineSymbol == Line \in Symbols /\ Para \in Blank
BY DEF Symbols, Blank

LEMMA JoinedTwo ==
  ASSUME NEW x \in Text, NEW y \in Text
  PROVE  /\ Joined(<<x, y>>, Para) \in Text
         /\ x = <<>> => Joined(<<x, y>>, Para) = y
         /\ x # <<>> => Joined(<<x, y>>, Para) = (x \o <<Para>>) \o y
<1>1. /\ <<>> \in Seq(Text) /\ <<x>> \in Seq(Text) /\ <<x, y>> \in Seq(Text)
      /\ <<x>> = Append(<<>>, x) /\ <<x, y>> = Append(<<x>>, y)
  OBVIOUS
<1>2. Joined(<<x>>, Para) = x
  <2>1. Joined(Append(<<>>, x), Para) =
          IF Joined(<<>>, Para) = <<>> THEN x ELSE Joined(<<>>, Para) \o <<Para>> \o x
    BY <1>1, ParaSymbol, JoinedGrows
  <2>2. Joined(<<>>, Para) = <<>>
    BY ParaSymbol, JoinedGrows
  <2> QED BY <1>1, <2>1, <2>2
<1>3. Joined(Append(<<x>>, y), Para) =
        IF Joined(<<x>>, Para) = <<>> THEN y ELSE Joined(<<x>>, Para) \o <<Para>> \o y
  BY <1>1, ParaSymbol, JoinedGrows
<1>4. Joined(<<x, y>>, Para) \in Text
  BY <1>1, ParaSymbol, JoinedGrows
<1> QED
  BY <1>1, <1>2, <1>3, <1>4

LEMMA CleanType ==
  ASSUME NEW blocks \in Seq(Seq(Words))
  PROVE  clean_and_format_text(blocks) \in Text
<1> DEFINE cleaned == [i \in DOMAIN blocks |-> Without(blocks[i], {Markup})]
<1>1. cleaned \in Seq(Text)
  <2>1. DOMAIN blocks = 1..Len(blocks) /\ Len(blocks) \in Nat
    OBVIOUS
  <2>2. ASSUME NEW i \in DOMAIN blocks PROVE Without(blocks[i], {Markup}) \in Text
    <3>1. blocks[i] \in Seq(Words)
      OBVIOUS
    <3>2. Words \subseteq Symbols
      BY DEF Symbols
    <3>3. blocks[i] \in Seq(Symbols)
      BY <3>1, <3>2, SeqMonotonic
    <3> QED BY <3>3, WithoutType, TextSeq
  <2>3. cleaned = [i \in 1..Len(blocks) |-> cleaned[i]] /\ \A i \in 1..Len(blocks) : cleaned[i] \in Text
    BY <2>1, <2>2
  <2> HIDE DEF cleaned
  <2>4. cleaned \in [1..Len(blocks) -> Text]
    BY <2>3
  <2>5. PICK n \in Nat : n = Len(blocks)
    BY <2>1
  <2>6. cleaned \in [1..n -> Text]
    BY <2>4, <2>5
  <2> QED BY <2>6, SeqDef
<1>2. clean_and_format_text(blocks) = Joined(Without(cleaned, {<<>>}), Line)
  BY DEF clean_and_format_text
<1> HIDE DEF cleaned
<1>3. Without(cleaned, {<<>>}) \in Seq(Text)
  BY <1>1, WithoutType
<1> QED
  BY <1>2, <1>3, LineSymbol, JoinedGrows, ZenonT(60)

Pages      == 1..Len(doc)
Offset     == [page : Nat, first : Nat, last : Nat]
BuildState == [text : Text, offsets : Seq(Offset)]
BuildBase  == [text |-> <<>>, offsets |-> <<>>]
BuildStep  == [p \in BuildState \X Pages |-> BuildPage(p[1], p[2])]

\* What a page adds: nothing, or its text at the end, with its offset.
Added(acc, page, after) ==
  \/ after = acc
  \/ /\ after \in BuildState
     /\ \E a \in Nat, o \in Offset :
          /\ a >= Len(acc.text) /\ o.page = page /\ o.first = a + 1
          /\ o.last = Len(after.text) /\ o.first <= o.last
          /\ after.offsets = Append(acc.offsets, o)
          /\ \A i \in 1..a : \/ i <= Len(acc.text) /\ after.text[i] = acc.text[i]
                             \/ after.text[i] = Para

LEMMA BuildAdds ==
  ASSUME doc \in Documents, NEW acc \in BuildState, NEW page \in Pages
  PROVE  BuildPage(acc, page) \in BuildState /\ Added(acc, page, BuildPage(acc, page))
<1> DEFINE x == acc.text
           y == clean_and_format_text(doc[page])
           t == Joined(<<x, y>>, Para)
           o == [page |-> page, first |-> Len(t) - Len(y) + 1, last |-> Len(t)]
           after == BuildPage(acc, page)
<1>1. doc \in Seq(Seq(Seq(Words))) /\ page \in Nat
  BY DocumentsAssumption DEF Pages
<1>2. y \in Text /\ x \in Text /\ acc.offsets \in Seq(Offset)
  <2>1. doc[page] \in Seq(Seq(Words))
    BY <1>1 DEF Pages
  <2> QED BY <2>1, CleanType DEF BuildState
<1>3. after = IF y = <<>> THEN acc ELSE [text |-> t, offsets |-> Append(acc.offsets, o)]
  BY DEF BuildPage
<1>4. /\ t \in Text
      /\ x = <<>> => t = y
      /\ x # <<>> => t = (x \o <<Para>>) \o y
  BY <1>2, JoinedTwo
<1> HIDE DEF x, y, t, after
<1>5. CASE y = <<>>
  BY <1>3, <1>5 DEF Added, after
<1>6. CASE y # <<>>
  <2>1. after = [text |-> t, offsets |-> Append(acc.offsets, o)]
    BY <1>3, <1>6
  <2>2. Len(y) \in Nat \ {0} /\ Len(x) \in Nat /\ Len(t) \in Nat
    BY <1>2, <1>4, <1>6, TextSeq
  <2> DEFINE a == Len(t) - Len(y)
  <2>3. a \in Nat /\ a >= Len(x)
        /\ \A i \in 1..a : \/ i <= Len(x) /\ t[i] = x[i]
                           \/ t[i] = Para
    <3>1. CASE x = <<>>
      <4>0. t = y
        BY <1>4, <3>1
      <4>a. Len(<<>>) = 0
        OBVIOUS
      <4>1. Len(t) = Len(y) /\ Len(x) = 0
        BY <3>1, <4>0, <4>a
      <4> QED BY <2>2, <4>1
    <3>2. CASE x # <<>>
      <4> DEFINE xp == x \o <<Para>>
                 p == <<Para>>
      <4>1. t = xp \o y
        BY <1>4, <3>2
      <4>2. Len(p) = 1 /\ p[1] = Para /\ p \in Text
        BY ParaSymbol
      <4> HIDE DEF p
      <4>3. xp = x \o p
        BY DEF p
      <4> HIDE DEF xp
      <4>4. xp \in Text /\ Len(xp) = Len(x) + 1
        <5>1. x \o p \in Text /\ Len(x \o p) = Len(x) + Len(p)
          BY <1>2, <4>2, TextConcat
        <5> QED BY <4>2, <4>3, <5>1
      <4>5. Len(t) = Len(xp) + Len(y)
        BY <1>2, <4>1, <4>4, TextConcat
      <4>6. ASSUME NEW i \in 1..a PROVE (i <= Len(x) /\ t[i] = x[i]) \/ t[i] = Para
        <5>1. i \in 1..Len(xp) /\ i \in Nat
          BY <2>2, <4>4, <4>5
        <5>2. t[i] = xp[i]
          <6>1. i \in 1..(Len(xp) + Len(y)) /\ i <= Len(xp)
            BY <2>2, <4>4, <5>1
          <6>2. xp \in Seq(Symbols) /\ y \in Seq(Symbols)
            BY <1>2, <4>4, TextSeq
          <6> QED BY <4>1, <6>1, <6>2, ConcatProperties
        <5>3. x \in Seq(Symbols) /\ p \in Seq(Symbols)
          BY <1>2, <4>2, TextSeq
        <5>4. CASE i <= Len(x)
          <6>1. xp[i] = x[i]
            BY <2>2, <4>2, <4>3, <5>1, <5>3, <5>4, ConcatProperties
          <6> QED BY <5>2, <5>4, <6>1
        <5>5. CASE i > Len(x)
          <6>1. i = Len(x) + 1
            BY <2>2, <4>4, <5>1, <5>5
          <6>2. xp[i] = p[i - Len(x)]
            BY <2>2, <4>2, <4>3, <5>1, <5>3, <5>5, <6>1, ConcatProperties
          <6>3. i - Len(x) = 1
            BY <2>2, <6>1
          <6> QED BY <4>2, <5>2, <6>2, <6>3
        <5>6. i <= Len(x) \/ i > Len(x)
          BY <2>2, <5>1
        <5> QED BY <5>4, <5>5, <5>6
      <4>7. a = Len(x) + 1
        BY <2>2, <4>4, <4>5
      <4> HIDE DEF a
      <4> QED BY <2>2, <4>6, <4>7
    <3> QED BY <3>1, <3>2
  <2>4. o \in Offset /\ o.page = page /\ o.first = a + 1 /\ o.last = Len(t) /\ o.first <= o.last
    <3>1. a + 1 \in Nat /\ a + 1 <= Len(t)
      BY <2>2, <2>3
    <3>2. o = [page |-> page, first |-> a + 1, last |-> Len(t)]
      OBVIOUS
    <3> HIDE DEF o, a
    <3> QED BY <1>1, <2>2, <3>1, <3>2 DEF Offset
  <2> HIDE DEF o, a
  <2>5. Append(acc.offsets, o) \in Seq(Offset)
    BY <1>2, <2>4
  <2>6. after.text = t /\ after.offsets = Append(acc.offsets, o) /\ after \in BuildState
    <3> DEFINE os == Append(acc.offsets, o)
    <3>1. after = [text |-> t, offsets |-> os] /\ os \in Seq(Offset)
      BY <2>1, <2>5
    <3> HIDE DEF os
    <3>2. after.text = t /\ after.offsets = os
      BY <3>1
    <3>3. after \in BuildState
      BY <1>4, <3>1 DEF BuildState
    <3> QED BY <3>2, <3>3 DEF os
  <2>7. Added(acc, page, after)
    BY <2>3, <2>4, <2>6 DEF Added, x
  <2> QED BY <2>6, <2>7 DEF after
<1> QED
  BY <1>5, <1>6

LEMMA BuildIsStep ==
  ASSUME doc \in Documents
  PROVE  IsStep(Pages, BuildState, BuildStep, BuildBase)
<1>1. BuildBase \in BuildState
  BY EmptySeq, TextSeq DEF BuildBase, BuildState
<1> QED
  BY <1>1, BuildAdds DEF IsStep, BuildStep

LEMMA BuildFolds ==
  ASSUME doc \in Documents, NEW s \in Seq(Pages)
  PROVE  Folded(BuildState, BuildStep, BuildBase, s, _build_window_text(s))
<1> DEFINE n == Len(s)
           Is(h) == h = [S \in SUBSET (1..n) |->
                 IF S = {} THEN BuildBase ELSE BuildPage(h[S \ {Max(S)}], s[Max(S)])]
           fold == CHOOSE h : Is(h)
<1>0. n \in Nat /\ DOMAIN s = 1..n /\ \A k \in 1..n : s[k] \in Pages
  OBVIOUS
<1>1. IsStep(Pages, BuildState, BuildStep, BuildBase)
  BY BuildIsStep
<1>2. PICK h : FoldBy(BuildState, BuildStep, BuildBase, s, h)
  BY <1>1, FoldDefined
<1>3. Is(h)
  <2>1. h \in [SUBSET (1..n) -> BuildState]
    BY <1>2 DEF FoldBy
  <2>2. ASSUME NEW S \in SUBSET (1..n)
        PROVE  h[S] = IF S = {} THEN BuildBase ELSE BuildPage(h[S \ {Max(S)}], s[Max(S)])
    <3>1. S # {} => Max(S) \in 1..n /\ S \ {Max(S)} \in SUBSET (1..n)
      BY <1>0, TopOf
    <3>2. h[S] = IF S = {} THEN BuildBase ELSE BuildStep[<<h[S \ {Max(S)}], s[Max(S)]>>]
      BY <1>2 DEF FoldBy
    <3>3. S # {} => h[S \ {Max(S)}] \in BuildState /\ s[Max(S)] \in Pages
      BY <1>0, <2>1, <3>1
    <3> QED BY <3>2, <3>3 DEF BuildStep
  <2> QED
    BY <2>1, <2>2
<1>4. Is(fold)
  <2> HIDE DEF Is
  <2> QED BY <1>3
<1>5. _build_window_text(s) = fold[1..n]
  BY <1>0 DEF _build_window_text, BuildBase, FoldLeft, MapThenFoldSet
<1> HIDE DEF fold
<1>6. fold[{}] = BuildBase
  BY <1>4
<1>7. ASSUME NEW k \in 1..n, fold[1..(k - 1)] \in BuildState
      PROVE  fold[1..k] = BuildStep[<<fold[1..(k - 1)], s[k]>>]
  <2>0. /\ 1..k \in SUBSET (1..n) /\ 1..k # {}
        /\ Max(1..k) = k /\ (1..k) \ {k} = 1..(k - 1)
    BY <1>0, Positions
  <2>1. s[k] \in Pages
    BY <1>0
  <2>2. fold[1..k] = BuildPage(fold[1..(k - 1)], s[k])
    BY <1>4, <2>0
  <2> QED BY <1>7, <2>1, <2>2 DEF BuildStep
<1> QED
  <2>1. Folded(BuildState, BuildStep, BuildBase, s, fold[1..Len(s)])
    BY <1>1, <1>6, <1>7, FoldFolds
  <2> QED BY <1>5, <2>1

\* Where the pages behind page b, up to page m, stand: one behind the other,
\* with all of the text but the separators.
BuiltOk(built, b, m) ==
  /\ built \in BuildState
  /\ \A o \in ToSet(built.offsets) :
       o.page \in (b + 1)..m /\ o.first >= 1 /\ o.last <= Len(built.text)
  /\ \A o, q \in ToSet(built.offsets) : o.page <= q.page \/ q.last < o.first
  /\ \A i \in 1..Len(built.text) :
       \/ built.text[i] = Para
       \/ \E o \in ToSet(built.offsets) : i \in o.first..o.last

LEMMA BuiltGrows ==
  ASSUME NEW b \in Nat, NEW m \in Nat, b <= m, NEW built, BuiltOk(built, b, m),
         NEW after, Added(built, m + 1, after)
  PROVE  BuiltOk(after, b, m + 1)
<1> DEFINE t == built.text
           u == after.text
           os == built.offsets
           n == Len(t)
           k == Len(u)
<1>0. /\ built \in BuildState
      /\ \A o \in ToSet(os) : o.page \in (b + 1)..m /\ o.first >= 1 /\ o.last <= n
      /\ \A o, q \in ToSet(os) : o.page <= q.page \/ q.last < o.first
      /\ \A i \in 1..n : t[i] = Para \/ \E o \in ToSet(os) : i \in o.first..o.last
  BY DEF BuiltOk
<1>1. CASE after = built
  <2>1. \A o \in ToSet(os) : o.page \in (b + 1)..(m + 1)
    BY <1>0
  <2> HIDE DEF t, os
  <2>2. ToSet(built.offsets) = ToSet(os) /\ n = Len(built.text) /\ t = built.text
    BY DEF os, t
  <2> HIDE DEF n
  <2> QED BY <1>0, <1>1, <2>1, <2>2 DEF BuiltOk
<1>2. CASE /\ after \in BuildState
           /\ \E a \in Nat, o \in Offset :
                /\ a >= n /\ o.page = m + 1 /\ o.first = a + 1
                /\ o.last = k /\ o.first <= o.last
                /\ after.offsets = Append(os, o)
                /\ \A i \in 1..a : (i <= n /\ u[i] = t[i]) \/ u[i] = Para
  <2>1. PICK a \in Nat, o \in Offset :
          /\ a >= n /\ o.page = m + 1 /\ o.first = a + 1
          /\ o.last = k /\ o.first <= o.last
          /\ after.offsets = Append(os, o)
          /\ \A i \in 1..a : (i <= n /\ u[i] = t[i]) \/ u[i] = Para
    BY <1>2
  <2>2. os \in Seq(Offset) /\ n \in Nat /\ k \in Nat
    <3>1. t \in Text /\ u \in Text /\ os \in Seq(Offset)
      BY <1>0, <1>2 DEF BuildState
    <3> QED BY <3>1, TextSeq
  <2>3. ToSet(after.offsets) = ToSet(os) \union {o}
    BY <2>1, <2>2, ToSetAppend
  <2>o. \A q \in ToSet(os) : q \in Offset
    BY <2>2, ToSetType
  <2>t. \A q \in Offset : q.page \in Nat /\ q.first \in Nat /\ q.last \in Nat
    BY DEF Offset
  <2> HIDE DEF t, u, os, n, k
  <2>4. ASSUME NEW q \in ToSet(after.offsets)
        PROVE  q.page \in (b + 1)..(m + 1) /\ q.first >= 1 /\ q.last <= k
    <3>1. CASE q \in ToSet(os)
      <4>1. q.page \in (b + 1)..m /\ q.first >= 1 /\ q.last <= n /\ q.last \in Nat
        BY <1>0, <2>o, <2>t, <3>1
      <4>2. n <= k
        BY <2>1, <2>2
      <4> QED BY <2>2, <4>1, <4>2
    <3>2. CASE q = o
      BY <2>1, <2>2, <3>2
    <3> QED BY <2>3, <3>1, <3>2
  <2>5. ASSUME NEW p \in ToSet(after.offsets), NEW q \in ToSet(after.offsets)
        PROVE  p.page <= q.page \/ q.last < p.first
    <3>1. CASE p \in ToSet(os) /\ q \in ToSet(os)
      BY <1>0, <3>1
    <3>2. CASE p \in ToSet(os) /\ q = o
      <4>1. p.page \in (b + 1)..m
        BY <1>0, <3>2
      <4>2. p.page <= m + 1
        BY <4>1
      <4> QED BY <2>1, <3>2, <4>2
    <3>3. CASE p = o /\ q \in ToSet(os)
      <4>1. q.last <= n /\ q.last \in Nat
        BY <1>0, <2>o, <2>t, <3>3
      <4> QED BY <2>1, <2>2, <3>3, <4>1
    <3>4. CASE p = o /\ q = o
      BY <2>1, <3>4
    <3> QED BY <2>3, <3>1, <3>2, <3>3, <3>4
  <2>6. ASSUME NEW i \in 1..k
        PROVE  u[i] = Para \/ \E q \in ToSet(after.offsets) : i \in q.first..q.last
    <3>1. CASE i <= a
      <4>1. i \in 1..a
        BY <2>2, <3>1
      <4>2. CASE i <= n /\ u[i] = t[i]
        <5>1. i \in 1..n
          BY <2>2, <4>2
        <5>2. t[i] = Para \/ \E q \in ToSet(os) : i \in q.first..q.last
          BY <1>0, <5>1
        <5> QED BY <2>3, <4>2, <5>2
      <4> QED BY <2>1, <4>1, <4>2
    <3>2. CASE i > a
      <4>1. i \in o.first..o.last
        BY <2>1, <2>2, <3>2
      <4> QED BY <2>3, <4>1
    <3> QED BY <2>2, <3>1, <3>2
  <2> QED BY <1>2, <2>4, <2>5, <2>6 DEF BuiltOk, u, k
<1> QED
  BY <1>1, <1>2 DEF Added

\* The pages behind page b, one after the other.
Consecutive(s, b) == \A i \in 1..Len(s) : s[i] = b + i

LEMMA WindowBuilt ==
  ASSUME doc \in Documents, NEW b \in Nat, NEW s \in Seq(Pages), Consecutive(s, b)
  PROVE  BuiltOk(_build_window_text(s), b, b + Len(s))
<1> DEFINE S == {w \in Seq(Pages) : Consecutive(w, b) =>
                   BuiltOk(_build_window_text(w), b, b + Len(w))}
<1>1. <<>> \in S
  <2>1. <<>> \in Seq(Pages) /\ Len(<<>>) = 0
    BY EmptySeq
  <2>2. _build_window_text(<<>>) = BuildBase
    BY <2>1, BuildFolds, FoldBase
  <2>3. BuildBase \in BuildState /\ BuildBase.text = <<>> /\ BuildBase.offsets = <<>>
    BY EmptySeq, TextSeq DEF BuildBase, BuildState
  <2>4. ToSet(<<>>) = {}
    BY <2>1, ToSetType
  <2>5. BuiltOk(BuildBase, b, b + 0)
    <3> HIDE DEF BuildBase
    <3>1. 1..Len(BuildBase.text) = {} /\ ToSet(BuildBase.offsets) = {}
      BY <2>1, <2>3, <2>4
    <3> QED BY <2>3, <3>1 DEF BuiltOk
  <2> QED BY <2>1, <2>2, <2>5
<1>2. ASSUME NEW w \in Seq(Pages), NEW p \in Pages, w \in S PROVE Append(w, p) \in S
  <2>1. /\ Append(w, p) \in Seq(Pages) /\ Len(w) \in Nat /\ Len(Append(w, p)) = Len(w) + 1
        /\ Append(w, p)[Len(w) + 1] = p /\ \A i \in 1..Len(w) : Append(w, p)[i] = w[i]
    OBVIOUS
  <2>2. ASSUME Consecutive(Append(w, p), b)
        PROVE  BuiltOk(_build_window_text(Append(w, p)), b, b + Len(Append(w, p)))
    <3>1. Consecutive(w, b) /\ p = b + (Len(w) + 1)
      <4>1. \A i \in 1..(Len(w) + 1) : Append(w, p)[i] = b + i
        BY <2>1, <2>2 DEF Consecutive
      <4>2. Len(w) + 1 \in 1..(Len(w) + 1) /\ \A i \in 1..Len(w) : i \in 1..(Len(w) + 1)
        BY <2>1
      <4>3. p = b + (Len(w) + 1)
        BY <2>1, <4>1, <4>2
      <4>4. \A i \in 1..Len(w) : w[i] = b + i
        BY <2>1, <4>1, <4>2
      <4> QED BY <4>3, <4>4 DEF Consecutive
    <3> DEFINE a == _build_window_text(w)
               e == _build_window_text(Append(w, p))
               m == b + Len(w)
    <3>2. BuiltOk(a, b, m)
      BY <1>2, <3>1
    <3>3. /\ Folded(BuildState, BuildStep, BuildBase, w, a)
          /\ Folded(BuildState, BuildStep, BuildBase, Append(w, p), e)
      BY <2>1, BuildFolds
    <3> HIDE DEF a, e, S
    <3>4. a \in BuildState /\ e = BuildStep[<<a, p>>]
      BY <3>3, BuildIsStep, FoldGrows
    <3>5. <<a, p>> \in BuildState \X Pages
      BY <3>4
    <3>6. e = BuildPage(a, p)
      BY <3>4, <3>5 DEF BuildStep
    <3>7. Added(a, p, e)
      BY <3>4, <3>6, BuildAdds
    <3>8. p = m + 1 /\ m \in Nat /\ b <= m /\ b + Len(Append(w, p)) = m + 1
      BY <2>1, <3>1
    <3>9. BuiltOk(e, b, m + 1)
      <4> HIDE DEF m
      <4> QED BY <3>2, <3>7, <3>8, BuiltGrows
    <3> QED BY <3>8, <3>9 DEF e
  <2> QED BY <2>1, <2>2
<1>3. \A w \in Seq(Pages) : w \in S
  <2> HIDE DEF S
  <2> QED BY <1>1, <1>2, InductiveSeq
<1> QED
  BY <1>3

-----------------------------------------------------------------------------
(***************************************************************************)
(* A chunk is looked for from where the one before was found.              *)
(***************************************************************************)
LEMMA PairOf ==
  ASSUME NEW m \in Int, NEW n \in Int
  PROVE  Least({m, n}) \in Int /\ Greatest({m, n}) \in Int
<1>1. (\E x \in {m, n} : \A y \in {m, n} : x <= y) /\ (\E x \in {m, n} : \A y \in {m, n} : y <= x)
  OBVIOUS
<1>2. Least({m, n}) \in {m, n}
  BY <1>1 DEF Least
<1>3. Greatest({m, n}) \in {m, n}
  BY <1>1 DEF Greatest
<1> QED
  BY <1>2, <1>3

LEMMA FindType ==
  ASSUME NEW p \in Text, NEW t \in Text, NEW from \in Nat
  PROVE  find(t, p, from) \in Nat
<1> DEFINE at == {i \in from..(Len(t) - Len(p) + 1) :
                    SubSeq(t, i, i + Len(p) - 1) = p}
<1>1. at \in SUBSET Nat
  BY TextSeq
<1>2. find(t, p, from) = IF at = {} THEN 0 ELSE Least(at)
  BY DEF find
<1> HIDE DEF at
<1>3. at # {} => Least(at) \in at
  BY <1>1, LeastOf
<1>4. CASE at = {}
  BY <1>2, <1>4
<1>5. CASE at # {}
  <2>1. Least(at) \in Nat
    BY <1>1, <1>3, <1>5
  <2> QED BY <1>2, <1>5, <2>1
<1> QED
  BY <1>4, <1>5

LEMMA SpansType ==
  ASSUME NEW offsets \in Seq(Offset), NEW from \in Int, NEW to \in Int
  PROVE  /\ _spans_for_range(offsets, from, to) \in SUBSET Spans
         /\ _pages_for_span(offsets, from, to) \in SUBSET Nat
         /\ \A p : p \in _pages_for_span(offsets, from, to) <=>
              \E o \in ToSet(offsets) : p = o.page /\ o.first <= to /\ o.last >= from
<1>1. \A o \in ToSet(offsets) : o \in Offset
  BY ToSetType
<1>2. \A o \in ToSet(offsets) : o.page \in Nat /\ o.first \in Nat /\ o.last \in Nat
  BY <1>1 DEF Offset
<1>3. ASSUME NEW o \in ToSet(offsets)
      PROVE  [page |-> o.page, first |-> Greatest({from, o.first}) - o.first + 1,
              last |-> Least({to, o.last}) - o.first + 1] \in Spans
  <2> DEFINE a == Greatest({from, o.first}) - o.first + 1
             b == Least({to, o.last}) - o.first + 1
             g == o.page
  <2>1. o.first \in Int /\ o.last \in Int /\ g \in Nat
    BY <1>2
  <2>2. a \in Int /\ b \in Int
    <3>1. Greatest({from, o.first}) \in Int /\ Least({to, o.last}) \in Int
      BY <2>1, PairOf
    <3> QED BY <2>1, <3>1
  <2> HIDE DEF a, b, g
  <2>3. [page |-> g, first |-> a, last |-> b] \in Spans
    BY <2>1, <2>2 DEF Spans
  <2> QED BY <2>3 DEF a, b, g
<1>4. _spans_for_range(offsets, from, to) \in SUBSET Spans
  BY <1>3 DEF _spans_for_range
<1>5. /\ _pages_for_span(offsets, from, to) \in SUBSET Nat
      /\ \A p : p \in _pages_for_span(offsets, from, to) <=>
              \E o \in ToSet(offsets) : p = o.page /\ o.first <= to /\ o.last >= from
  BY <1>2 DEF _pages_for_span
<1> QED
  BY <1>4, <1>5

\* A chunk that may have been found on no page.
LooseChunk == [text : Text, pages : SUBSET Nat, spans : SUBSET Spans,
               reference : BOOLEAN]
PlaceState == [from : Nat, placed : Seq(LooseChunk)]
PlaceBase  == [from |-> 1, placed |-> <<>>]
PlaceStep(built) == [p \in PlaceState \X Text |-> Place(built, p[1], p[2])]
PlaceEnd(built, s) ==
  FoldLeft(LAMBDA acc, raw : Place(built, acc, raw), PlaceBase, s)

\* The chunk of a text found at a position.
Spot(built, raw, found) ==
  LET end == found + Len(raw) - 1
  IN  [text      |-> strip(raw),
       pages     |-> _pages_for_span(built.offsets, found, end),
       spans     |-> _spans_for_range(built.offsets, found, end),
       reference |-> is_reference_section(raw)]

LEMMA SpotType ==
  ASSUME NEW built \in BuildState, NEW raw \in Text, NEW found \in Nat
  PROVE  /\ Spot(built, raw, found) \in LooseChunk
         /\ Spot(built, raw, found).pages =
              _pages_for_span(built.offsets, found, found + Len(raw) - 1)
<1> DEFINE end == found + Len(raw) - 1
           a == strip(raw)
           b == _pages_for_span(built.offsets, found, end)
           c == _spans_for_range(built.offsets, found, end)
           d == is_reference_section(raw)
<1>1. built.offsets \in Seq(Offset) /\ end \in Int /\ a \in Text
  BY TextSeq, StripIs DEF BuildState
<1>2. b \in SUBSET Nat /\ c \in SUBSET Spans
  <2> HIDE DEF end
  <2> QED BY <1>1, SpansType
<1>3. d \in BOOLEAN
  BY DEF is_reference_section, Contains
<1>4. Spot(built, raw, found) = [text |-> a, pages |-> b, spans |-> c, reference |-> d]
  BY DEF Spot
<1>5. b = _pages_for_span(built.offsets, found, found + Len(raw) - 1)
  OBVIOUS
<1> HIDE DEF a, b, c, d
<1> QED
  BY <1>1, <1>2, <1>3, <1>4, <1>5 DEF LooseChunk

LEMMA PlaceIs ==
  ASSUME NEW built \in BuildState, NEW acc \in PlaceState, NEW raw \in Text
  PROVE  \E found \in Nat :
           /\ Place(built, acc, raw) =
                [from |-> found, placed |-> Append(acc.placed, Spot(built, raw, found))]
           /\ LET next == find(built.text, raw, acc.from)
              IN  next # 0 => found = next
<1> DEFINE next == find(built.text, raw, acc.from)
           found == IF next = 0 THEN find(built.text, raw, 1) ELSE next
<1>1. built.text \in Text /\ acc.from \in Nat
  BY DEF BuildState, PlaceState
<1>2. next \in Nat /\ find(built.text, raw, 1) \in Nat
  BY <1>1, FindType
<1>3. Place(built, acc, raw) =
        [from |-> found, placed |-> Append(acc.placed, Spot(built, raw, found))]
  BY DEF Place, Spot, search_from
<1>4. found \in Nat /\ (next # 0 => found = next)
  BY <1>2
<1> HIDE DEF found
<1> QED
  BY <1>3, <1>4

LEMMA PlaceType ==
  ASSUME NEW built \in BuildState, NEW acc \in PlaceState, NEW raw \in Text
  PROVE  Place(built, acc, raw) \in PlaceState
<1>1. PICK found \in Nat :
        Place(built, acc, raw) =
          [from |-> found, placed |-> Append(acc.placed, Spot(built, raw, found))]
  BY PlaceIs
<1> DEFINE c == Spot(built, raw, found)
<1>2. c \in LooseChunk
  BY SpotType
<1> HIDE DEF c
<1>3. acc.placed \in Seq(LooseChunk)
  BY DEF PlaceState
<1>4. Append(acc.placed, c) \in Seq(LooseChunk)
  BY <1>2, <1>3
<1> DEFINE p == Append(acc.placed, c)
<1>5. Place(built, acc, raw) = [from |-> found, placed |-> p]
  BY <1>1 DEF c
<1>6. p \in Seq(LooseChunk)
  BY <1>4
<1> HIDE DEF p
<1> QED
  BY <1>5, <1>6 DEF PlaceState

LEMMA PlaceIsStep ==
  ASSUME NEW built \in BuildState
  PROVE  IsStep(Text, PlaceState, PlaceStep(built), PlaceBase)
<1>1. PlaceBase \in PlaceState
  BY EmptySeq DEF PlaceBase, PlaceState
<1> QED
  BY <1>1, PlaceType DEF IsStep, PlaceStep

LEMMA PlaceFolds ==
  ASSUME NEW built \in BuildState, NEW s \in Seq(Text)
  PROVE  Folded(PlaceState, PlaceStep(built), PlaceBase, s, PlaceEnd(built, s))
<1> DEFINE n == Len(s)
           Is(h) == h = [S \in SUBSET (1..n) |->
                 IF S = {} THEN PlaceBase ELSE Place(built, h[S \ {Max(S)}], s[Max(S)])]
           fold == CHOOSE h : Is(h)
<1>0. n \in Nat /\ DOMAIN s = 1..n /\ \A k \in 1..n : s[k] \in Text
  OBVIOUS
<1>1. IsStep(Text, PlaceState, PlaceStep(built), PlaceBase)
  BY PlaceIsStep
<1>2. PICK h : FoldBy(PlaceState, PlaceStep(built), PlaceBase, s, h)
  BY <1>1, FoldDefined
<1>3. Is(h)
  <2>1. h \in [SUBSET (1..n) -> PlaceState]
    BY <1>2 DEF FoldBy
  <2>2. ASSUME NEW S \in SUBSET (1..n)
        PROVE  h[S] = IF S = {} THEN PlaceBase ELSE Place(built, h[S \ {Max(S)}], s[Max(S)])
    <3>1. S # {} => Max(S) \in 1..n /\ S \ {Max(S)} \in SUBSET (1..n)
      BY <1>0, TopOf
    <3>2. h[S] = IF S = {} THEN PlaceBase ELSE PlaceStep(built)[<<h[S \ {Max(S)}], s[Max(S)]>>]
      BY <1>2 DEF FoldBy
    <3>3. S # {} => h[S \ {Max(S)}] \in PlaceState /\ s[Max(S)] \in Text
      BY <1>0, <2>1, <3>1
    <3> QED BY <3>2, <3>3 DEF PlaceStep
  <2> QED
    BY <2>1, <2>2
<1>4. Is(fold)
  <2> HIDE DEF Is
  <2> QED BY <1>3
<1>5. PlaceEnd(built, s) = fold[1..n]
  BY <1>0 DEF PlaceEnd, FoldLeft, MapThenFoldSet
<1> HIDE DEF fold
<1>6. fold[{}] = PlaceBase
  BY <1>4
<1>7. ASSUME NEW k \in 1..n, fold[1..(k - 1)] \in PlaceState
      PROVE  fold[1..k] = PlaceStep(built)[<<fold[1..(k - 1)], s[k]>>]
  <2>0. /\ 1..k \in SUBSET (1..n) /\ 1..k # {}
        /\ Max(1..k) = k /\ (1..k) \ {k} = 1..(k - 1)
    BY <1>0, Positions
  <2>1. s[k] \in Text
    BY <1>0
  <2>2. fold[1..k] = Place(built, fold[1..(k - 1)], s[k])
    BY <1>4, <2>0
  <2> QED BY <1>7, <2>1, <2>2 DEF PlaceStep
<1> QED
  <2>1. Folded(PlaceState, PlaceStep(built), PlaceBase, s, fold[1..Len(s)])
    BY <1>1, <1>6, <1>7, FoldFolds
  <2> QED BY <1>5, <2>1

\* The chunks found for the texts of a window, the last of them not behind the
\* first n words: they are in order, the search goes on before the first word
\* behind those n, and a page that ends behind it is not before the pages of
\* the chunks found.
Placed(built, n, acc) ==
  /\ acc.from \in Nat \ {0} /\ acc.placed \in Seq(Chunk) /\ InOrder(acc.placed)
  /\ \A m \in Nat : \A i : m >= n /\ IsFirst(built.text, m, i) => acc.from <= i
  /\ \A c \in ToSet(acc.placed) :
       /\ c.pages \subseteq {o.page : o \in ToSet(built.offsets)}
       /\ \A o \in ToSet(built.offsets) :
            o.last >= acc.from => page_start(c) <= o.page

LEMMA PlacedStarts ==
  ASSUME NEW built, NEW n \in Nat
  PROVE  Placed(built, n, PlaceBase)
<1>1. PlaceBase.from = 1 /\ PlaceBase.placed = <<>>
  BY DEF PlaceBase
<1>2. <<>> \in Seq(Chunk) /\ InOrder(<<>>) /\ ToSet(<<>>) = {}
  <2>1. <<>> \in Seq(Chunk) /\ DOMAIN <<>> = {}
    BY EmptySeq
  <2> QED BY <2>1, ToSetType DEF InOrder
<1>3. ASSUME NEW m \in Nat, NEW i, IsFirst(built.text, m, i) PROVE 1 <= i
  BY <1>3 DEF IsFirst
<1> QED
  BY <1>1, <1>2, <1>3 DEF Placed

\* Where a text that is not white space is found, a page of the window is.
LEMMA SpotOnPage ==
  ASSUME NEW b, NEW m, NEW built, BuiltOk(built, b, m), NEW raw \in Text, raw # <<>>,
         NEW found \in Nat \ {0}, At(raw, built.text, found - 1), raw[1] \notin Blank
  PROVE  \E o \in ToSet(built.offsets) :
           o.first <= found /\ o.last >= found /\ o.first <= found + Len(raw) - 1
<1> DEFINE t == built.text
<1>1. built \in BuildState /\ t \in Text
  BY DEF BuiltOk, BuildState
<1>2. (found - 1) + Len(raw) <= Len(t) /\ Len(raw) \in Nat \ {0} /\ Len(t) \in Nat
  <2>1. (found - 1) + Len(raw) <= Len(t) /\ Len(t) \in Nat
    BY <1>1, AtType
  <2>2. Len(raw) \in Nat /\ raw \in Seq(Symbols)
    BY TextSeq
  <2>3. Len(raw) # 0
    BY <2>2
  <2> QED BY <2>1, <2>2, <2>3
<1>3. found \in 1..Len(t) /\ 1 \in 1..Len(raw) /\ (found - 1) + 1 = found
  BY <1>2
<1>4. t[(found - 1) + 1] = raw[1]
  BY <1>1, <1>3, AtWord
<1>5. t[found] # Para
  BY <1>3, <1>4, LineSymbol
<1>6. \E o \in ToSet(built.offsets) : found \in o.first..o.last
  BY <1>3, <1>5 DEF BuiltOk
<1>7. PICK o \in ToSet(built.offsets) : found \in o.first..o.last
  BY <1>6
<1>8. o \in Offset
  BY <1>1, <1>7, ToSetType DEF BuildState
<1>9. o.first \in Nat /\ o.last \in Nat
  BY <1>8 DEF Offset
<1> QED
  BY <1>2, <1>7, <1>9

LEMMA PlacedGoesOn ==
  ASSUME NEW b, NEW m, NEW built, BuiltOk(built, b, m),
         NEW acc \in PlaceState, NEW a \in Nat, NEW n \in Nat, a <= n,
         Placed(built, a, acc),
         NEW raw \in Text, raw # <<>>, Window(built.text, raw, a)
  PROVE  Placed(built, n, Place(built, acc, raw))
<1> DEFINE t == built.text
           os == ToSet(built.offsets)
           from == acc.from
           cs == acc.placed
           after == Place(built, acc, raw)
<1>1. built \in BuildState /\ t \in Text /\ built.offsets \in Seq(Offset)
  BY DEF BuiltOk, BuildState
<1>2. /\ from \in Nat \ {0} /\ cs \in Seq(Chunk) /\ InOrder(cs)
      /\ \A k \in Nat : \A i : k >= a /\ IsFirst(t, k, i) => from <= i
      /\ \A c \in ToSet(cs) : /\ c.pages \subseteq {o.page : o \in os}
                              /\ \A o \in os : o.last >= from => page_start(c) <= o.page
  BY DEF Placed
<1>3. PICK found \in Nat :
        /\ after = [from |-> found, placed |-> Append(cs, Spot(built, raw, found))]
        /\ find(t, raw, from) # 0 => found = find(t, raw, from)
  <2>1. \E found \in Nat :
           /\ Place(built, acc, raw) =
                [from |-> found, placed |-> Append(acc.placed, Spot(built, raw, found))]
           /\ LET next == find(built.text, raw, acc.from)
              IN  next # 0 => found = next
    BY <1>1, PlaceIs
  <2> QED BY <2>1
<1> HIDE DEF t, os, from, cs, after
<1>4. PICK i : IsFirst(t, a, i) /\ At(raw, t, i - 1)
  BY <1>1, WindowFirst DEF t
<1>5. i \in Nat \ {0} /\ from <= i
  <2>1. a >= a
    OBVIOUS
  <2>2. i \in (a + 1)..Len(t) /\ Len(t) \in Nat
    BY <1>1, <1>4, TextSeq DEF IsFirst
  <2> QED BY <1>2, <1>4, <2>1, <2>2
<1>6. found \in Nat \ {0} /\ from <= found /\ found <= i /\ At(raw, t, found - 1)
  <2>1. find(t, raw, from) # 0 /\ find(t, raw, from) <= i
    BY <1>1, <1>2, <1>4, <1>5, FindFirst
  <2>2. find(t, raw, from) >= from /\ At(raw, t, find(t, raw, from) - 1)
    BY <1>1, <1>2, <2>1, FindFirst
  <2> QED BY <1>2, <1>3, <2>1, <2>2
<1>7. raw[1] \notin Blank
  <2>1. Len(raw) \in Nat /\ raw \in Seq(Symbols)
    BY TextSeq
  <2>2. 1 \in 1..Len(raw)
    BY <2>1
  <2>3. t[(i - 1) + 1] = raw[1] /\ (i - 1) + 1 = i
    BY <1>1, <1>4, <1>5, <2>2, AtWord
  <2> QED BY <1>4, <2>3 DEF IsFirst
<1>8. PICK p \in os : p.first <= found /\ p.last >= found /\ p.first <= found + Len(raw) - 1
  <2>1. BuiltOk(built, b, m) /\ At(raw, built.text, found - 1)
    BY <1>6 DEF t
  <2> QED BY <1>6, <1>7, <2>1, SpotOnPage DEF os
<1> DEFINE c == Spot(built, raw, found)
           end == found + Len(raw) - 1
<1>9. /\ c \in LooseChunk
      /\ \A q : q \in c.pages <=> \E o \in os : q = o.page /\ o.first <= end /\ o.last >= found
  <2>1. c \in LooseChunk /\ c.pages = _pages_for_span(built.offsets, found, end)
    BY <1>1, SpotType
  <2>2. end \in Int
    BY TextSeq
  <2> HIDE DEF c, end
  <2>3. \A q : q \in _pages_for_span(built.offsets, found, end) <=>
              \E o \in os : q = o.page /\ o.first <= end /\ o.last >= found
    BY <1>1, <2>2, SpansType DEF os
  <2> QED BY <2>1, <2>3
<1>10. p.page \in c.pages
  <2>1. p.first <= end
    BY <1>8
  <2> HIDE DEF c, end
  <2> QED BY <1>8, <1>9, <2>1
<1> HIDE DEF c
<1>11. c \in Chunk
  BY <1>9, <1>10 DEF LooseChunk, Chunk
<1>12. after.from = found /\ after.placed = Append(cs, c)
  BY <1>3 DEF c
<1>13. /\ page_start(c) \in Nat /\ page_start(c) \in c.pages
       /\ \A q \in c.pages : page_start(c) <= q
  BY <1>11, StartType
<1> HIDE DEF end
<1>14. \A o \in os : o \in Offset
  BY <1>1, ToSetType DEF os
<1>15. \A o \in os : o.page \in Nat /\ o.first \in Nat /\ o.last \in Nat
  BY <1>14 DEF Offset
<1>16. \A o \in os : o.last >= found => page_start(c) <= o.page
  <2> TAKE o \in os
  <2> SUFFICES ASSUME o.last >= found PROVE page_start(c) <= o.page
    OBVIOUS
  <2>1. p.page <= o.page \/ o.last < p.first
    BY DEF BuiltOk, os
  <2>2. p.page <= o.page
    BY <1>8, <1>15, <2>1
  <2>3. page_start(c) <= p.page
    BY <1>10, <1>13
  <2> QED BY <1>13, <1>15, <2>2, <2>3
<1>17. ASSUME NEW x \in ToSet(cs)
       PROVE  /\ page_start(x) <= page_start(c)
              /\ \A o \in os : o.last >= found => page_start(x) <= o.page
  <2>1. \A o \in os : o.last >= from => page_start(x) <= o.page
    BY <1>2, <1>17
  <2>2. \A o \in os : o.last >= found => o.last >= from
    BY <1>2, <1>6, <1>15
  <2>3. PICK o \in os : page_start(c) = o.page /\ o.last >= found
    BY <1>9, <1>13
  <2>4. page_start(x) <= o.page
    BY <2>1, <2>2, <2>3
  <2> QED BY <2>1, <2>2, <2>3, <2>4
<1>18. InOrder(after.placed) /\ after.placed \in Seq(Chunk)
  <2>1. InOrder(Append(cs, c))
    BY <1>2, <1>11, <1>17, InOrderAppend
  <2>2. Append(cs, c) \in Seq(Chunk)
    BY <1>2, <1>11
  <2> QED BY <1>12, <2>1, <2>2
<1>19. ASSUME NEW k \in Nat, NEW j, k >= n, IsFirst(t, k, j) PROVE found <= j
  <2>1. a <= k
    BY <1>19
  <2>2. i <= j
    BY <1>1, <1>4, <1>19, <2>1, FirstLater
  <2>3. j \in Nat
    BY <1>1, <1>19, TextSeq DEF IsFirst
  <2> QED BY <1>5, <1>6, <2>2, <2>3
<1>20. ASSUME NEW x \in ToSet(after.placed)
       PROVE  /\ x.pages \subseteq {o.page : o \in os}
              /\ \A o \in os : o.last >= found => page_start(x) <= o.page
  <2>1. ToSet(after.placed) = ToSet(cs) \union {c}
    BY <1>2, <1>11, <1>12, ToSetAppend
  <2>2. CASE x \in ToSet(cs)
    BY <1>2, <1>17, <2>2
  <2>3. CASE x = c
    <3>1. c.pages \subseteq {o.page : o \in os}
      BY <1>9
    <3> QED BY <1>16, <2>3, <3>1
  <2> QED BY <2>1, <2>2, <2>3
<1>21. Placed(built, n, after)
  BY <1>6, <1>12, <1>18, <1>19, <1>20 DEF Placed, t, os
<1> QED
  BY <1>21 DEF after

LEMMA PlacedHolds ==
  ASSUME NEW b, NEW m, NEW built, BuiltOk(built, b, m),
         NEW ts \in Seq(Text), \A k \in 1..Len(ts) : ts[k] # <<>>,
         NEW n \in Nat, Spread(built.text, ts, n)
  PROVE  Placed(built, n, PlaceEnd(built, ts))
<1> DEFINE t == built.text
           Filled(s) == \A k \in 1..Len(s) : s[k] # <<>>
           S == {s \in Seq(Text) : \A k \in Nat :
                   Spread(t, s, k) /\ Filled(s) => Placed(built, k, PlaceEnd(built, s))}
<1>0. built \in BuildState
  BY DEF BuiltOk
<1>1. <<>> \in S
  <2>1. <<>> \in Seq(Text)
    BY EmptySeq
  <2>2. PlaceEnd(built, <<>>) = PlaceBase
    BY <1>0, <2>1, PlaceFolds, FoldBase
  <2> QED BY <2>1, <2>2, PlacedStarts
<1>2. ASSUME NEW s \in Seq(Text), NEW raw \in Text, s \in S PROVE Append(s, raw) \in S
  <2>1. /\ Append(s, raw) \in Seq(Text) /\ Len(s) \in Nat
        /\ Len(Append(s, raw)) = Len(s) + 1
        /\ Append(s, raw)[Len(s) + 1] = raw
        /\ \A i \in 1..Len(s) : Append(s, raw)[i] = s[i]
    OBVIOUS
  <2>2. ASSUME NEW k \in Nat, Spread(t, Append(s, raw), k), Filled(Append(s, raw))
        PROVE  Placed(built, k, PlaceEnd(built, Append(s, raw)))
    <3>1. PICK a \in Nat : a <= k /\ Spread(t, s, a) /\ Window(t, raw, a)
      BY <2>2, SpreadSplit
    <3>2. Filled(s) /\ raw # <<>>
      <4>1. Len(s) + 1 \in 1..(Len(s) + 1) /\ \A i \in 1..Len(s) : i \in 1..(Len(s) + 1)
        BY <2>1
      <4> QED BY <2>1, <2>2, <4>1
    <3> DEFINE acc == PlaceEnd(built, s)
               e == PlaceEnd(built, Append(s, raw))
    <3>3. Placed(built, a, acc)
      BY <1>2, <3>1, <3>2
    <3>4. /\ Folded(PlaceState, PlaceStep(built), PlaceBase, s, acc)
          /\ Folded(PlaceState, PlaceStep(built), PlaceBase, Append(s, raw), e)
      BY <1>0, <2>1, PlaceFolds
    <3>d. e = PlaceEnd(built, Append(s, raw))
      OBVIOUS
    <3> HIDE DEF acc, e, S
    <3>5. acc \in PlaceState /\ e = PlaceStep(built)[<<acc, raw>>]
      BY <1>0, <3>4, PlaceIsStep, FoldGrows
    <3>6. <<acc, raw>> \in PlaceState \X Text
      BY <3>5
    <3>7. e = Place(built, acc, raw)
      BY <3>5, <3>6 DEF PlaceStep
    <3>8. Placed(built, k, Place(built, acc, raw))
      BY <3>1, <3>2, <3>3, <3>5, PlacedGoesOn
    <3> QED BY <3>7, <3>8, <3>d
  <2> HIDE DEF Filled
  <2> QED BY <2>1, <2>2
<1>3. \A s \in Seq(Text) : s \in S
  <2> HIDE DEF S
  <2> QED BY <1>1, <1>2, InductiveSeq
<1> QED
  BY <1>3

-----------------------------------------------------------------------------
(***************************************************************************)
(* chunk_pages.  The chunks of the recursive splitter are in order, and    *)
(* begin on the pages it has been through.                                 *)
(***************************************************************************)
LEMMA WindowInOrder ==
  ASSUME doc \in Documents, NEW b \in Nat, NEW window \in Seq(Pages), Consecutive(window, b)
  PROVE  LET cs == WindowChunks(window)
         IN  /\ cs \in Seq(Chunk) /\ InOrder(cs)
             /\ \A c \in ToSet(cs) : page_start(c) \in (b + 1)..(b + Len(window))
<1> DEFINE built == _build_window_text(window)
           m == b + Len(window)
           ts == chunk_text_with_tokens(built.text)
           end == PlaceEnd(built, ts)
<1>1. BuiltOk(built, b, m)
  BY WindowBuilt
<1>2. WindowChunks(window) = IF built.text = <<>> THEN <<>> ELSE end.placed
  BY DEF WindowChunks, PlaceEnd, PlaceBase
<1> HIDE DEF built, m, ts
<1>3. CASE built.text = <<>>
  <2>1. <<>> \in Seq(Chunk) /\ DOMAIN <<>> = {}
    BY EmptySeq
  <2>2. InOrder(<<>>) /\ ToSet(<<>>) = {}
    BY <2>1, ToSetType DEF InOrder
  <2> QED BY <1>2, <1>3, <2>1, <2>2
<1>4. CASE built.text # <<>>
  <2>1. built.text \in Text
    BY <1>1 DEF BuiltOk, BuildState
  <2>2. /\ ts \in Seq(Text) /\ Spread(built.text, ts, Len(built.text))
        /\ \A k \in 1..Len(ts) : ts[k] # <<>>
    BY <2>1, ChunkTexts DEF ts
  <2>3. Len(built.text) \in Nat
    BY <2>1, TextSeq
  <2>4. Placed(built, Len(built.text), end)
    BY <1>1, <2>2, <2>3, PlacedHolds
  <2> HIDE DEF end
  <2> DEFINE cs == end.placed
  <2>5. /\ cs \in Seq(Chunk) /\ InOrder(cs)
        /\ \A c \in ToSet(cs) : c.pages \subseteq {o.page : o \in ToSet(built.offsets)}
    BY <2>4 DEF Placed
  <2>6. ASSUME NEW c \in ToSet(cs) PROVE page_start(c) \in (b + 1)..m
    <3> HIDE DEF cs
    <3>1. c \in Chunk
      BY <2>5, <2>6, ToSetType
    <3>2. page_start(c) \in c.pages
      BY <3>1, StartType
    <3>3. PICK o \in ToSet(built.offsets) : page_start(c) = o.page
      BY <2>5, <2>6, <3>2
    <3> QED BY <1>1, <3>3 DEF BuiltOk
  <2>7. WindowChunks(window) = cs
    BY <1>2, <1>4
  <2> HIDE DEF cs
  <2> QED BY <2>5, <2>6, <2>7 DEF m
<1> QED
  BY <1>3, <1>4

LEMMA InOrderConcat ==
  ASSUME NEW a \in Seq(Chunk), NEW b \in Seq(Chunk), NEW n \in Nat, InOrder(a), InOrder(b),
         \A c \in ToSet(a) : page_start(c) <= n,
         \A c \in ToSet(b) : n <= page_start(c)
  PROVE  /\ a \o b \in Seq(Chunk) /\ InOrder(a \o b)
         /\ ToSet(a \o b) \subseteq ToSet(a) \union ToSet(b)
<1> DEFINE t == a \o b
           k == Len(a)
           l == Len(b)
<1>1. /\ t \in Seq(Chunk) /\ Len(t) = k + l /\ k \in Nat /\ l \in Nat
      /\ \A i \in 1..(k + l) : t[i] = IF i <= k THEN a[i] ELSE b[i - k]
  BY ConcatProperties
<1>2. DOMAIN a = 1..k /\ DOMAIN b = 1..l /\ DOMAIN t = 1..(k + l)
  BY <1>1
<1>3. \A i \in 1..k : a[i] \in ToSet(a) /\ a[i] \in Chunk
  BY <1>2 DEF ToSet
<1>4. \A i \in 1..l : b[i] \in ToSet(b) /\ b[i] \in Chunk
  BY <1>2 DEF ToSet
<1> HIDE DEF t, k, l
<1>5. ASSUME NEW i \in 1..(k + l)
      PROVE  \/ i \in 1..k /\ t[i] = a[i]
             \/ i - k \in 1..l /\ t[i] = b[i - k] /\ i > k
  BY <1>1
<1>6. ASSUME NEW i \in 1..(k + l), NEW j \in 1..(k + l), i < j
      PROVE  page_start(t[i]) <= page_start(t[j])
  <2>1. CASE j \in 1..k /\ t[j] = a[j]
    <3>1. i \in 1..k /\ t[i] = a[i]
      BY <1>1, <1>5, <1>6, <2>1
    <3> QED BY <1>2, <1>6, <2>1, <3>1 DEF InOrder
  <2>2. CASE j - k \in 1..l /\ t[j] = b[j - k] /\ j > k
    <3>1. CASE i \in 1..k /\ t[i] = a[i]
      <4>1. page_start(a[i]) <= n /\ page_start(a[i]) \in Nat
        BY <1>3, <3>1, StartType
      <4>2. n <= page_start(b[j - k]) /\ page_start(b[j - k]) \in Nat
        BY <1>4, <2>2, StartType
      <4> QED BY <2>2, <3>1, <4>1, <4>2
    <3>2. CASE i - k \in 1..l /\ t[i] = b[i - k] /\ i > k
      <4>1. i - k < j - k
        BY <1>1, <1>6
      <4> QED BY <1>2, <2>2, <3>2, <4>1 DEF InOrder
    <3> QED BY <1>5, <3>1, <3>2
  <2> QED BY <1>5, <2>1, <2>2
<1>7. InOrder(t)
  BY <1>2, <1>6 DEF InOrder
<1>8. ASSUME NEW c \in ToSet(t) PROVE c \in ToSet(a) \union ToSet(b)
  <2>1. PICK i \in 1..(k + l) : c = t[i]
    BY <1>2 DEF ToSet
  <2> QED BY <1>3, <1>4, <1>5, <2>1
<1> QED
  BY <1>1, <1>7, <1>8 DEF t

\* Between two windows the chunks begin on pages of the windows taken.
RecursiveInv ==
  /\ DeterministicInv
  /\ provider \in PROVIDERS /\ status \in {"running", "done", "raised"}
  /\ status = "raised" => chunks = <<>>
  /\ provider = Recursive /\ status # "raised" =>
       /\ taken \in 0..Len(doc)
       /\ chunks \in Seq(Chunk) /\ InOrder(chunks)
       /\ \A c \in ToSet(chunks) : page_start(c) <= taken

\* The chunks of the recursive splitter, as constants see them.
Through(n, cs, d) ==
  /\ n \in 0..Len(d) /\ cs \in Seq(Chunk) /\ InOrder(cs)
  /\ \A c \in ToSet(cs) : page_start(c) <= n

LEMMA NoneInOrder ==
  ASSUME NEW d, Len(d) \in Nat
  PROVE  InOrder(<<>>) /\ Through(0, <<>>, d)
<1>1. <<>> \in Seq(Chunk) /\ DOMAIN <<>> = {}
  BY EmptySeq
<1>2. ToSet(<<>>) = {}
  BY <1>1, ToSetType
<1> QED
  BY <1>1, <1>2 DEF InOrder, Through

\* The window TakeWindow takes: the pages behind those taken.
LEMMA TakenWindow ==
  ASSUME RecursiveInv, TakeWindow
  PROVE  \E window \in Seq(Pages) :
           /\ Consecutive(window, taken) /\ taken \in Nat /\ Len(window) \in Nat
           /\ taken' = taken + Len(window) /\ taken' \in 0..Len(doc)
           /\ chunks' = chunks \o WindowChunks(window)
           /\ \A p \in 1..taken' : p \in 1..taken \/ p \in ToSet(window)
<1> DEFINE n == Least({WindowSize, Len(doc) - taken})
           window == [i \in 1..n |-> taken + i]
<1>1. /\ provider = Recursive /\ status = "running" /\ taken < Len(doc)
      /\ chunks' = chunks \o WindowChunks(window) /\ taken' = taken + Len(window)
  BY DEF TakeWindow
<1>2. taken \in 0..Len(doc) /\ doc \in Documents
  BY <1>1 DEF RecursiveInv, DeterministicInv
<1>3. Len(doc) \in Nat /\ WindowSize \in Nat
  BY <1>2, DocumentsAssumption, ChunkingAssumption
<1>4. n \in Nat /\ n <= Len(doc) - taken
  <2> DEFINE r == Len(doc) - taken
  <2>1. r \in Nat
    BY <1>1, <1>2, <1>3
  <2> HIDE DEF r
  <2>2. Least({WindowSize, r}) \in {WindowSize, r} /\ Least({WindowSize, r}) <= r
    BY <1>3, <2>1, LeastOfTwo
  <2>3. Least({WindowSize, r}) \in Nat
    BY <1>3, <2>1, <2>2
  <2> QED BY <2>2, <2>3 DEF r
<1> HIDE DEF n
<1>5. window \in Seq(Pages) /\ Len(window) = n /\ DOMAIN window = 1..n
      /\ \A i \in 1..n : window[i] = taken + i
  <2>1. ASSUME NEW i \in 1..n PROVE taken + i \in 1..Len(doc)
    BY <1>2, <1>3, <1>4
  <2>2. window \in [1..n -> Pages]
    BY <2>1 DEF Pages
  <2>3. window \in Seq(Pages) /\ DOMAIN window = 1..n
    BY <1>4, <2>2, SeqDef
  <2>4. Len(window) = n
    BY <1>4, <2>3
  <2> QED BY <2>3, <2>4
<1> HIDE DEF window
<1>6. Consecutive(window, taken) /\ taken \in Nat
  BY <1>2, <1>5 DEF Consecutive
<1>7. taken' \in 0..Len(doc)
  BY <1>1, <1>2, <1>3, <1>4, <1>5
<1>8. ASSUME NEW p \in 1..taken' PROVE p \in 1..taken \/ p \in ToSet(window)
  <2>1. p \in 1..taken \/ p - taken \in 1..n
    BY <1>1, <1>4, <1>5, <1>6
  <2>2. ASSUME p - taken \in 1..n PROVE p \in ToSet(window)
    <3>1. window[p - taken] = p
      BY <1>5, <1>6, <2>2
    <3> QED BY <1>5, <2>2, <3>1 DEF ToSet
  <2> QED BY <2>1, <2>2
<1> QED
  BY <1>1, <1>4, <1>5, <1>6, <1>7, <1>8

LEMMA TakeWindowInOrder ==
  ASSUME RecursiveInv, TakeWindow
  PROVE  Through(taken', chunks', doc)
<1>1. PICK window \in Seq(Pages) :
        /\ Consecutive(window, taken) /\ taken \in Nat /\ Len(window) \in Nat
        /\ taken' = taken + Len(window) /\ taken' \in 0..Len(doc)
        /\ chunks' = chunks \o WindowChunks(window)
  BY TakenWindow
<1>2. /\ chunks \in Seq(Chunk) /\ InOrder(chunks) /\ doc \in Documents
      /\ \A c \in ToSet(chunks) : page_start(c) <= taken
  BY DEF TakeWindow, RecursiveInv, DeterministicInv
<1> DEFINE cs == WindowChunks(window)
           n == Len(window)
<1>3. /\ cs \in Seq(Chunk) /\ InOrder(cs)
      /\ \A c \in ToSet(cs) : page_start(c) \in (taken + 1)..(taken + n)
  BY <1>1, <1>2, WindowInOrder
<1> HIDE DEF cs, n
<1>4. n \in Nat /\ taken' = taken + n
  BY <1>1 DEF n
<1>5. \A c \in ToSet(cs) : taken <= page_start(c) /\ page_start(c) <= taken + n
  BY <1>1, <1>3, <1>4
<1>6. ASSUME NEW c \in ToSet(chunks) PROVE page_start(c) <= taken + n
  <2>1. c \in Chunk
    BY <1>2, ToSetType
  <2>2. page_start(c) \in Nat /\ page_start(c) <= taken
    BY <1>2, <2>1, StartType
  <2> QED BY <1>1, <1>4, <2>2
<1>7. /\ chunks \o cs \in Seq(Chunk) /\ InOrder(chunks \o cs)
      /\ ToSet(chunks \o cs) \subseteq ToSet(chunks) \union ToSet(cs)
  <2>1. \A c \in ToSet(cs) : taken <= page_start(c)
    BY <1>5
  <2> HIDE DEF cs
  <2>2. taken \in Nat
    BY <1>1
  <2> QED BY <1>2, <1>3, <2>1, <2>2, InOrderConcat
<1> QED
  BY <1>1, <1>4, <1>5, <1>6, <1>7 DEF Through, cs

LEMMA InitRecursive == Init => RecursiveInv
<1> SUFFICES ASSUME Init PROVE RecursiveInv
  OBVIOUS
<1>1. /\ doc \in Documents /\ provider \in PROVIDERS /\ taken = 0 /\ chunks = <<>>
      /\ status = "running"
  BY DEF Init
<1>2. Len(doc) \in Nat
  BY <1>1, DocumentsAssumption
<1>3. Through(taken, chunks, doc)
  BY <1>1, <1>2, NoneInOrder
<1> QED
  BY <1>1, <1>3, InitDeterministic DEF RecursiveInv, Through

LEMMA NextRecursive == RecursiveInv /\ [Next]_vars => RecursiveInv'
<1> SUFFICES ASSUME RecursiveInv, [Next]_vars PROVE RecursiveInv'
  OBVIOUS
<1>1. DeterministicInv'
  BY NextDeterministic DEF RecursiveInv
<1>0. /\ Recursive # Deterministic /\ doc \in Documents /\ provider \in PROVIDERS
      /\ status \in {"running", "done", "raised"}
      /\ status = "raised" => chunks = <<>>
      /\ provider = Recursive /\ status # "raised" => Through(taken, chunks, doc)
  BY DEF Recursive, Deterministic, RecursiveInv, DeterministicInv, Through
<1>2. /\ provider' \in PROVIDERS /\ status' \in {"running", "done", "raised"}
      /\ status' = "raised" => chunks' = <<>>
      /\ provider' = Recursive /\ status' # "raised" => Through(taken', chunks', doc')
  <2>1. CASE TakeWindow
    <3>1. Through(taken', chunks', doc)
      BY <2>1, TakeWindowInOrder
    <3>2. doc' = doc /\ provider' = provider /\ status' = status /\ status = "running"
      BY <2>1 DEF TakeWindow
    <3> QED BY <1>0, <3>1, <3>2
  <2>2. CASE EndRecursive
    <3>1. /\ doc' = doc /\ provider' = provider /\ status' = "done" /\ status = "running"
          /\ taken' = taken /\ chunks' = chunks
      BY <2>2 DEF EndRecursive
    <3> QED BY <1>0, <3>1
  <2>3. CASE TakeUnit
    <3>1. provider = Deterministic /\ provider' = provider /\ status' = status
          /\ status = "running"
      BY <2>3 DEF TakeUnit
    <3> QED BY <1>0, <3>1
  <2>4. CASE EndDeterministic
    <3>1. provider = Deterministic /\ provider' = provider /\ status' = "done"
      BY <2>4 DEF EndDeterministic
    <3> QED BY <1>0, <3>1
  <2>5. CASE Raise
    <3>1. /\ provider' \in PROVIDERS /\ status' \in {"running", "raised"}
          /\ chunks' = <<>> /\ taken' = 0 /\ doc' = doc
      BY <1>0, <2>5 DEF Raise
    <3>2. Len(doc) \in Nat
      BY <1>0, DocumentsAssumption
    <3>3. Through(0, <<>>, doc)
      BY <3>2, NoneInOrder
    <3> QED BY <3>1, <3>3
  <2>6. CASE UNCHANGED vars
    <3>1. /\ doc' = doc /\ provider' = provider /\ status' = status
          /\ taken' = taken /\ chunks' = chunks
      BY <2>6 DEF vars
    <3> QED BY <1>0, <3>1
  <2> QED BY <2>1, <2>2, <2>3, <2>4, <2>5, <2>6 DEF Next
<1> QED
  BY <1>1, <1>2 DEF RecursiveInv, Through

\* No chunk begins on a page before the page of the chunk it follows: not of the
\* recursive splitter, although it looks for a text that may occur twice by
\* what it says, and not of the deterministic provider, whose passes drop and
\* merge chunks.
THEOREM ChunksAreInOrder == Spec => []PagesInOrder
<1>1. RecursiveInv => PagesInOrder
  <2> SUFFICES ASSUME RecursiveInv PROVE InOrder(chunks)
    BY DEF InOrder, PagesInOrder
  <2>0. /\ provider \in PROVIDERS /\ status \in {"running", "done", "raised"}
        /\ DeterministicInv
    BY DEF RecursiveInv
  <2>1. InOrder(<<>>)
    BY DEF InOrder
  <2>2. CASE status = "raised"
    BY <2>1, <2>2 DEF RecursiveInv
  <2>3. CASE status # "raised" /\ provider = Recursive
    BY <2>3 DEF RecursiveInv
  <2>4. CASE status = "running" /\ provider = Deterministic
    <3>1. CASE taken = 0
      BY <2>0, <2>1, <2>4, <3>1 DEF DeterministicInv
    <3>2. CASE taken # 0
      <4>1. taken \in 0..Len(units) /\ Len(units) \in Nat
        BY <2>0, <2>4, UnitsInOrder DEF DeterministicInv
      <4>2. taken > 0
        BY <3>2, <4>1
      <4>3. PICK f \in 1..taken : Running(units, taken, f, current, chunks)
        BY <2>0, <2>4, <4>2 DEF DeterministicInv
      <4> QED BY <4>3 DEF Running
    <3> QED BY <3>1, <3>2
  <2>5. CASE status = "done" /\ provider = Deterministic
    BY <2>0, <2>5 DEF DeterministicInv, Ended
  <2> QED BY <2>0, <2>2, <2>3, <2>4, <2>5 DEF PROVIDERS
<1> QED
  BY <1>1, InitRecursive, NextRecursive, PTL DEF Spec

-----------------------------------------------------------------------------
(***************************************************************************)
(* Crumbs.  The words of a text, the words of those of some texts that are *)
(* long enough for a chunk, and the texts of which any MinTokens words in  *)
(* a row have one of a set of words.                                       *)
(***************************************************************************)
WordsOf(t) == {w \in Symbols \ Blank : \E i \in DOMAIN t : t[i] = w}

LEMMA AtByWords ==
  ASSUME NEW p \in Text, NEW t \in Text, NEW n \in Nat, n + Len(p) <= Len(t),
         \A i \in 1..Len(p) : t[n + i] = p[i]
  PROVE  At(p, t, n)
<1>0. Len(t) \in Nat /\ Len(p) \in Nat /\ t \in Seq(Symbols) /\ p \in Seq(Symbols)
  BY TextSeq
<1> DEFINE k == n + 1
           s == SubSeq(t, k, k + Len(p) - 1)
<1>1. k \in Nat \ {0} /\ k \in 1..(Len(t) - Len(p) + 1) /\ k - 1 = n
  BY <1>0
<1>2. s \in Seq(Symbols) /\ Len(s) = Len(p)
  BY <1>0
<1>5. ASSUME NEW i \in 1..Len(p) PROVE s[i] = p[i]
  <2>1. s[i] = t[n + i]
    BY <1>0
  <2> HIDE DEF s
  <2> QED BY <2>1
<1> HIDE DEF s
<1>3. s = p
  BY <1>0, <1>2, <1>5, SeqEqual
<1> HIDE DEF k
<1>4. At(p, t, k - 1)
  BY <1>1, <1>3, AtWhere DEF s
<1> QED
  BY <1>1, <1>4

LEMMA AtOccurs ==
  ASSUME NEW p \in Text, NEW t \in Text
  PROVE  Occurs(p, t) <=> \E n \in Nat : At(p, t, n)
<1>1. ASSUME Occurs(p, t) PROVE \E n \in Nat : At(p, t, n)
  <2>1. PICK x \in Text, y \in Text : t = (x \o p) \o y
    BY <1>1 DEF Occurs
  <2>2. Len(x) \in Nat
    BY TextSeq
  <2>3. At(p, t, Len(x))
    BY <2>1 DEF At
  <2> QED BY <2>2, <2>3
<1>2. ASSUME NEW n \in Nat, At(p, t, n) PROVE Occurs(p, t)
  BY <1>2 DEF Occurs, At
<1> QED
  BY <1>1, <1>2

LEMMA WordsAppend ==
  ASSUME NEW t \in Text, NEW w \in Symbols
  PROVE  /\ WordsOf(Append(t, w)) = WordsOf(t) \union ({w} \ Blank)
         /\ WordsOf(<<>>) = {}
<1>1. /\ DOMAIN t = 1..Len(t) /\ Len(t) \in Nat
      /\ DOMAIN Append(t, w) = 1..(Len(t) + 1)
      /\ Append(t, w)[Len(t) + 1] = w
      /\ \A i \in 1..Len(t) : Append(t, w)[i] = t[i]
  BY TextSeq
<1>2. \A i \in 1..(Len(t) + 1) : i \in 1..Len(t) \/ i = Len(t) + 1
  BY <1>1
<1>3. \A i \in 1..Len(t) : i \in 1..(Len(t) + 1)
  BY <1>1
<1>4. Len(t) + 1 \in 1..(Len(t) + 1)
  BY <1>1
<1>5. DOMAIN <<>> = {}
  OBVIOUS
<1> QED
  BY <1>1, <1>2, <1>3, <1>4, <1>5 DEF WordsOf

LEMMA WordsConcat ==
  ASSUME NEW x \in Text, NEW y \in Text
  PROVE  WordsOf(x \o y) = WordsOf(x) \union WordsOf(y)
<1> DEFINE z == x \o y
<1>1. /\ DOMAIN x = 1..Len(x) /\ DOMAIN y = 1..Len(y) /\ Len(x) \in Nat /\ Len(y) \in Nat
      /\ DOMAIN z = 1..(Len(x) + Len(y))
      /\ \A i \in 1..Len(x) : z[i] = x[i]
      /\ \A i \in 1..Len(y) : z[Len(x) + i] = y[i]
  BY TextSeq
<1> HIDE DEF z
<1>2. \A i \in 1..(Len(x) + Len(y)) :
         i \in 1..Len(x) \/ \E j \in 1..Len(y) : i = Len(x) + j
  <2> TAKE i \in 1..(Len(x) + Len(y))
  <2>1. i \in 1..Len(x) \/ i - Len(x) \in 1..Len(y)
    BY <1>1
  <2>2. i = Len(x) + (i - Len(x))
    BY <1>1
  <2> QED BY <2>1, <2>2
<1>3. \A i \in 1..Len(x) : i \in 1..(Len(x) + Len(y))
  BY <1>1
<1>4. \A i \in 1..Len(y) : Len(x) + i \in 1..(Len(x) + Len(y))
  BY <1>1
<1>5. WordsOf(z) = WordsOf(x) \union WordsOf(y)
  <2>1. ASSUME NEW w \in WordsOf(z) PROVE w \in WordsOf(x) \union WordsOf(y)
    <3>1. PICK i \in 1..(Len(x) + Len(y)) : z[i] = w
      BY <1>1 DEF WordsOf
    <3>2. i \in 1..Len(x) \/ \E j \in 1..Len(y) : i = Len(x) + j
      BY <1>2
    <3> QED BY <1>1, <3>1, <3>2, ZenonT(60) DEF WordsOf
  <2>2. ASSUME NEW w \in WordsOf(x) PROVE w \in WordsOf(z)
    <3>1. PICK i \in 1..Len(x) : x[i] = w
      BY <1>1 DEF WordsOf
    <3> QED BY <1>1, <1>3, <3>1 DEF WordsOf
  <2>3. ASSUME NEW w \in WordsOf(y) PROVE w \in WordsOf(z)
    <3>1. PICK i \in 1..Len(y) : y[i] = w
      BY <1>1 DEF WordsOf
    <3> QED BY <1>1, <1>4, <3>1 DEF WordsOf
  <2> QED BY <2>1, <2>2, <2>3
<1> QED
  BY <1>5 DEF z

LEMMA WordsOccur ==
  ASSUME NEW s \in Text, NEW t \in Text, Occurs(s, t)
  PROVE  WordsOf(s) \subseteq WordsOf(t)
<1>1. PICK x \in Text, y \in Text : t = (x \o s) \o y
  BY DEF Occurs
<1> DEFINE xs == x \o s
<1>2. xs \in Text /\ WordsOf(xs) = WordsOf(x) \union WordsOf(s)
  BY TextConcat, WordsConcat
<1> HIDE DEF xs
<1>3. WordsOf(xs \o y) = WordsOf(xs) \union WordsOf(y)
  BY <1>2, WordsConcat
<1> QED
  BY <1>1, <1>2, <1>3 DEF xs

\* The words that are left of a text without its white space.
Count(t) == Len(normalize_text(t))

LEMMA CountIs ==
  ASSUME NEW t \in Text
  PROVE  /\ Count(t) \in Nat /\ Count(t) <= Len(t)
         /\ WordsOf(t) = {} => Count(t) = 0
<1> DEFINE S == {s \in Seq(Symbols) : /\ Count(s) \in Nat /\ Count(s) <= Len(s)
                                      /\ WordsOf(s) = {} => Count(s) = 0}
<1>1. <<>> \in S
  <2>1. <<>> \in Seq(Symbols) /\ Len(<<>>) = 0
    BY EmptySeq
  <2>2. Count(<<>>) = 0
    BY <2>1, NormalGrows DEF Count
  <2> QED BY <2>1, <2>2
<1>2. ASSUME NEW s \in Seq(Symbols), NEW w \in Symbols, s \in S PROVE Append(s, w) \in S
  <2> DEFINE e == Append(s, w)
             n == normalize_text(s)
  <2>1. s \in Text /\ e \in Text /\ e \in Seq(Symbols) /\ Len(e) = Len(s) + 1 /\ Len(s) \in Nat
    BY TextSeq
  <2>2. Count(s) \in Nat /\ Count(s) <= Len(s) /\ (WordsOf(s) = {} => Count(s) = 0)
    BY <1>2
  <2>3. n \in Text /\ normalize_text(e) = IF w \notin Blank THEN Append(n, w) ELSE n
    BY <2>1, NormalGrows DEF Blank
  <2>4. WordsOf(e) = WordsOf(s) \union ({w} \ Blank)
    BY <2>1, WordsAppend
  <2> HIDE DEF e, n, S
  <2>5. Len(Append(n, w)) = Len(n) + 1 /\ Len(n) = Count(s)
    BY <2>3, TextSeq DEF Count, n
  <2>6. Count(e) = IF w \notin Blank THEN Count(s) + 1 ELSE Count(s)
    BY <2>3, <2>5 DEF Count
  <2>7. /\ Count(e) \in Nat /\ Count(e) <= Len(e)
        /\ WordsOf(e) = {} => Count(e) = 0
    BY <2>1, <2>2, <2>4, <2>6
  <2> QED BY <2>1, <2>7 DEF S, e
<1>3. \A s \in Seq(Symbols) : s \in S
  <2> HIDE DEF S
  <2> QED BY <1>1, <1>2, InductiveSeq
<1> QED
  BY <1>3, TextSeq

LEMMA CountConcat ==
  ASSUME NEW x \in Text, NEW y \in Text
  PROVE  Count(x \o y) = Count(x) + Count(y)
<1>1. normalize_text(x) \in Text /\ normalize_text(y) \in Text
  BY NormalGrows
<1>2. Len(normalize_text(x) \o normalize_text(y)) = Count(x) + Count(y)
  BY <1>1, TextConcat DEF Count
<1> QED
  BY <1>2, NormalConcat DEF Count

LEMMA CountOccurs ==
  ASSUME NEW s \in Text, NEW t \in Text, Occurs(s, t)
  PROVE  Count(s) <= Count(t)
<1>1. PICK x \in Text, y \in Text : t = (x \o s) \o y
  BY DEF Occurs
<1>2. x \o s \in Text
  BY TextConcat
<1>3. Count(t) = Count(x) + Count(s) + Count(y)
  BY <1>1, <1>2, CountConcat
<1> QED
  BY <1>3, CountIs

LEMMA CutAt ==
  ASSUME NEW s \in Text, NEW m \in 0..Len(s)
  PROVE  \E u, v \in Text : s = u \o v /\ Len(u) = m
<1>1. <<>> \in Text /\ Len(<<>>) = 0 /\ Len(s) \in Nat
  BY TextSeq
<1>2. At(<<>>, s, m)
  BY <1>1, AtByWords
<1>3. PICK x \in Text, y \in Text : s = (x \o <<>>) \o y /\ Len(x) = m
  BY <1>2 DEF At
<1>4. x \o <<>> = x
  BY TextConcat
<1> QED
  BY <1>3, <1>4

\* The words of two texts, one behind the other.
LEMMA ConcatWords ==
  ASSUME NEW x \in Text, NEW y \in Text
  PROVE  /\ Len(x) \in Nat /\ Len(y) \in Nat /\ x \o y \in Text
         /\ Len(x \o y) = Len(x) + Len(y)
         /\ \A i \in 1..Len(x) : (x \o y)[i] = x[i]
         /\ \A i \in 1..Len(y) : (x \o y)[Len(x) + i] = y[i]
<1>1. x \in Seq(Symbols) /\ y \in Seq(Symbols)
  BY TextSeq
<1> QED
  BY <1>1, TextSeq

\* What occurs in two texts, one behind the other, is a part of the first and a
\* part of the second; when there is something of both, the first part ends
\* with the first text.
OneAndTwo(s, a, b) ==
  \E u, v \in Text :
    /\ s = u \o v /\ Occurs(u, a) /\ Occurs(v, b)
    /\ \/ u = <<>> \/ v = <<>>
       \/ a # <<>> /\ u[Len(u)] = a[Len(a)]

LEMMA OccursInTwo ==
  ASSUME NEW a \in Text, NEW b \in Text, NEW s \in Text, Occurs(s, a \o b)
  PROVE  OneAndTwo(s, a, b)
<1> DEFINE z == a \o b
<1>0. /\ Len(a) \in Nat /\ Len(b) \in Nat /\ Len(s) \in Nat /\ z \in Text
      /\ Len(z) = Len(a) + Len(b)
      /\ \A i \in 1..Len(a) : z[i] = a[i]
      /\ \A i \in 1..Len(b) : z[Len(a) + i] = b[i]
  BY ConcatWords, TextSeq
<1>1. Occurs(s, z)
  OBVIOUS
<1> HIDE DEF z
<1>2. PICK n \in Nat : At(s, z, n)
  BY <1>0, <1>1, AtOccurs
<1>3. n + Len(s) <= Len(a) + Len(b) /\ \A i \in 1..Len(s) : z[n + i] = s[i]
  <2>1. n + Len(s) <= Len(z)
    BY <1>0, <1>2, AtType
  <2> QED BY <1>0, <1>2, <2>1, AtWord
<1> DEFINE Fits(m) == /\ m \in 0..Len(s)
                      /\ m > 0 => n + m <= Len(a)
                      /\ m < Len(s) => n + m >= Len(a)
<1>4. \E m \in Nat : Fits(m)
  <2>1. CASE n >= Len(a)
    <3>1. Fits(0)
      BY <1>0, <2>1
    <3> QED BY <3>1
  <2>2. CASE n + Len(s) <= Len(a)
    <3>1. Fits(Len(s))
      BY <1>0, <2>2
    <3> QED BY <1>0, <3>1
  <2>3. CASE n < Len(a) /\ n + Len(s) > Len(a)
    <3>1. Fits(Len(a) - n) /\ Len(a) - n \in Nat
      BY <1>0, <2>3
    <3> QED BY <3>1
  <2> QED BY <1>0, <2>1, <2>2, <2>3
<1> HIDE DEF Fits
<1>f. PICK m \in Nat : Fits(m)
  BY <1>4
<1>5. /\ m \in 0..Len(s)
      /\ m > 0 => n + m <= Len(a)
      /\ m < Len(s) => n + m >= Len(a)
  BY <1>f DEF Fits
<1>6. PICK u \in Text, v \in Text : s = u \o v /\ Len(u) = m
  BY <1>5, CutAt
<1>7. /\ Len(v) \in Nat /\ Len(s) = m + Len(v)
      /\ \A i \in 1..m : s[i] = u[i]
      /\ \A i \in 1..Len(v) : s[m + i] = v[i]
  <2>1. /\ Len(v) \in Nat /\ Len(u \o v) = Len(u) + Len(v)
        /\ \A i \in 1..Len(u) : (u \o v)[i] = u[i]
        /\ \A i \in 1..Len(v) : (u \o v)[Len(u) + i] = v[i]
    BY ConcatWords
  <2> QED BY <1>6, <2>1
<1>8. Occurs(u, a)
  <2>1. CASE m = 0
    <3>1. u = <<>>
      BY <1>6, <2>1, TextSeq
    <3> QED BY <3>1, OccursSelf
  <2>2. CASE m # 0
    <3>1. n + m <= Len(a)
      <4>1. m > 0
        BY <2>2
      <4> QED BY <1>5, <4>1
    <3>2. ASSUME NEW i \in 1..m PROVE a[n + i] = u[i]
      <4>1. n + i \in 1..Len(a) /\ i \in 1..Len(s)
        BY <1>0, <1>7, <3>1
      <4> QED BY <1>0, <1>3, <1>7, <4>1
    <3>3. At(u, a, n)
      BY <1>6, <3>1, <3>2, AtByWords
    <3> QED BY <3>3, AtOccurs
  <2> QED BY <2>1, <2>2
<1>9. Occurs(v, b)
  <2>1. CASE Len(v) = 0
    <3>1. v = <<>>
      BY <2>1, TextSeq
    <3> QED BY <3>1, OccursSelf
  <2>2. CASE Len(v) # 0
    <3> DEFINE k == n + m - Len(a)
    <3>1. k \in Nat /\ k + Len(v) <= Len(b)
      BY <1>0, <1>3, <1>5, <1>7, <2>2
    <3>2. ASSUME NEW i \in 1..Len(v) PROVE b[k + i] = v[i]
      <4>1. k + i \in 1..Len(b) /\ m + i \in 1..Len(s) /\ n + (m + i) = Len(a) + (k + i)
        BY <1>0, <1>7, <3>1
      <4>2. z[Len(a) + (k + i)] = b[k + i] /\ z[n + (m + i)] = s[m + i]
        BY <1>0, <1>3, <4>1
      <4> QED BY <1>7, <4>1, <4>2
    <3> HIDE DEF k
    <3>3. At(v, b, k)
      BY <3>1, <3>2, AtByWords
    <3> QED BY <3>1, <3>3, AtOccurs
  <2> QED BY <2>1, <2>2
<1>10. u = <<>> \/ v = <<>> \/ (a # <<>> /\ u[Len(u)] = a[Len(a)])
  <2> SUFFICES ASSUME u # <<>>, v # <<>> PROVE a # <<>> /\ u[Len(u)] = a[Len(a)]
    OBVIOUS
  <2>1. m > 0 /\ Len(v) > 0
    BY <1>6, <1>7, TextSeq
  <2>2. n + m = Len(a) /\ m \in 1..m /\ m \in 1..Len(s) /\ n + m \in 1..Len(a)
    BY <1>0, <1>5, <1>7, <2>1
  <2>3. a[n + m] = z[n + m] /\ z[n + m] = s[m] /\ s[m] = u[m]
    BY <1>0, <1>3, <1>7, <2>2
  <2>4. a # <<>>
    <3> SUFFICES ASSUME a = <<>> PROVE FALSE
      OBVIOUS
    <3>1. Len(a) = 0
      OBVIOUS
    <3> QED BY <2>2, <3>1
  <2> QED BY <1>6, <2>2, <2>3, <2>4
<1> QED
  BY <1>6, <1>8, <1>9, <1>10 DEF OneAndTwo

\* Of what occurs in t without one of the words K, too little is left for a
\* chunk.
Crumbs(t, K) ==
  \A s \in Text : Occurs(s, t) /\ WordsOf(s) \intersect K = {} => Count(s) < MinTokens
\* Nothing, or it ends with one of the words K.
EndsKept(t, K) == t = <<>> \/ (t[Len(t)] \in K /\ t[Len(t)] \in Symbols \ Blank)

LEMMA CrumbsMore ==
  ASSUME NEW t, NEW K, NEW L, K \subseteq L
  PROVE  /\ Crumbs(t, K) => Crumbs(t, L)
         /\ EndsKept(t, K) => EndsKept(t, L)
<1>1. \A s : WordsOf(s) \intersect L = {} => WordsOf(s) \intersect K = {}
  OBVIOUS
<1> QED
  BY <1>1 DEF Crumbs, EndsKept

LEMMA CrumbsCovered ==
  ASSUME NEW t \in Text, NEW K, WordsOf(t) \subseteq K
  PROVE  Crumbs(t, K)
<1> SUFFICES ASSUME NEW s \in Text, Occurs(s, t), WordsOf(s) \intersect K = {}
             PROVE  Count(s) < MinTokens
  BY DEF Crumbs
<1>1. WordsOf(s) = {}
  BY WordsOccur
<1> QED
  BY <1>1, CountIs, ChunkingAssumption

LEMMA CrumbsSmall ==
  ASSUME NEW t \in Text, NEW K, Count(t) < MinTokens
  PROVE  Crumbs(t, K)
<1> SUFFICES ASSUME NEW s \in Text, Occurs(s, t) PROVE Count(s) < MinTokens
  BY DEF Crumbs
<1> QED
  BY CountOccurs, CountIs, ChunkingAssumption

LEMMA CrumbsNone ==
  ASSUME NEW K
  PROVE  Crumbs(<<>>, K) /\ EndsKept(<<>>, K)
<1>1. <<>> \in Text /\ Count(<<>>) = 0 /\ 0 < MinTokens
  <2>1. <<>> \in Text /\ WordsOf(<<>>) = {}
    BY TextSeq DEF WordsOf
  <2> QED BY <2>1, CountIs, ChunkingAssumption
<1> QED
  BY <1>1, CrumbsSmall DEF EndsKept

\* Nothing is lost of the second text.
LEMMA CrumbsThen ==
  ASSUME NEW a \in Text, NEW b \in Text, NEW K, Crumbs(a, K), WordsOf(b) \subseteq K
  PROVE  Crumbs(a \o b, K)
<1> SUFFICES ASSUME NEW s \in Text, Occurs(s, a \o b), WordsOf(s) \intersect K = {}
             PROVE  Count(s) < MinTokens
  BY DEF Crumbs
<1>1. PICK u \in Text, v \in Text : s = u \o v /\ Occurs(u, a) /\ Occurs(v, b)
  BY OccursInTwo, ZenonT(60) DEF OneAndTwo
<1>2. WordsOf(s) = WordsOf(u) \union WordsOf(v) /\ Count(s) = Count(u) + Count(v)
  BY <1>1, WordsConcat, CountConcat
<1>3. WordsOf(v) = {}
  BY <1>1, <1>2, WordsOccur
<1>4. Count(u) < MinTokens
  BY <1>1, <1>2 DEF Crumbs
<1> QED
  BY <1>2, <1>3, <1>4, CountIs

\* The first text ends with a word that is kept.
LEMMA CrumbsAfter ==
  ASSUME NEW a \in Text, NEW b \in Text, NEW K, Crumbs(a, K), EndsKept(a, K), Crumbs(b, K)
  PROVE  Crumbs(a \o b, K)
<1> SUFFICES ASSUME NEW s \in Text, Occurs(s, a \o b), WordsOf(s) \intersect K = {}
             PROVE  Count(s) < MinTokens
  BY DEF Crumbs
<1>1. PICK u \in Text, v \in Text :
         /\ s = u \o v /\ Occurs(u, a) /\ Occurs(v, b)
         /\ u = <<>> \/ v = <<>> \/ (a # <<>> /\ u[Len(u)] = a[Len(a)])
  BY OccursInTwo DEF OneAndTwo
<1>2. WordsOf(s) = WordsOf(u) \union WordsOf(v)
  BY <1>1, WordsConcat
<1>3. CASE u = <<>>
  <2>1. s = v
    BY <1>1, <1>3, TextConcat
  <2> QED BY <1>1, <2>1 DEF Crumbs
<1>4. CASE v = <<>>
  <2>1. s = u
    BY <1>1, <1>4, TextConcat
  <2> QED BY <1>1, <2>1 DEF Crumbs
<1>5. CASE u # <<>> /\ a # <<>> /\ u[Len(u)] = a[Len(a)]
  <2>1. Len(u) \in DOMAIN u
    <3>1. u \in Seq(Symbols)
      BY TextSeq
    <3> QED BY <1>5, <3>1
  <2>2. u[Len(u)] \in WordsOf(u) /\ u[Len(u)] \in K
    BY <1>5, <2>1 DEF EndsKept, WordsOf
  <2> QED BY <1>2, <2>2
<1> QED
  BY <1>1, <1>3, <1>4, <1>5

-----------------------------------------------------------------------------
(***************************************************************************)
(* What strip takes is white space; it takes at most one word of the lines *)
(* of a text, the separator at its beginning.                              *)
(***************************************************************************)
Stripped(w, c, x, y) ==
  /\ w = (x \o c) \o y /\ WordsOf(x) = {} /\ WordsOf(y) = {}
  /\ \A k \in 1..Len(w) : w[k] \notin Blank => Len(x) < k /\ Len(y) <= Len(w) - k

LEMMA StripParts ==
  ASSUME NEW w \in Text
  PROVE  strip(w) \in Text /\ \E x, y \in Text : Stripped(w, strip(w), x, y)
<1> DEFINE word == {i \in DOMAIN w : w[i] \notin {Line, Para}}
           a == Least(word)
           b == Greatest(word)
<1>0. w \in Seq(Symbols) /\ Len(w) \in Nat /\ DOMAIN w = 1..Len(w)
  BY TextSeq
<1>1. strip(w) = IF word = {} THEN <<>> ELSE SubSeq(w, a, b)
  BY DEF strip
<1>2. word \in SUBSET Nat /\ word \in SUBSET (1..Len(w))
  BY <1>0
<1>w. \A i \in 1..Len(w) : w[i] \in Blank <=> i \notin word
  BY <1>0 DEF Blank
<1>3. CASE word = {}
  <2>1. strip(w) = <<>>
    BY <1>1, <1>3
  <2>2. w = (w \o <<>>) \o <<>> /\ <<>> \in Text
    BY TextSeq, TextConcat
  <2>3. \A k \in 1..Len(w) : w[k] \in Blank
    BY <1>3, <1>w
  <2>4. WordsOf(w) = {} /\ WordsOf(<<>>) = {}
    BY <1>0, <2>3 DEF WordsOf
  <2> HIDE DEF word
  <2>5. Stripped(w, <<>>, w, <<>>)
    BY <2>2, <2>3, <2>4 DEF Stripped
  <2> QED BY <2>1, <2>2, <2>5
<1>4. CASE word # {}
  <2> HIDE DEF word
  <2>1. a \in word /\ \A y \in word : a <= y
    BY <1>2, <1>4, LeastOf
  <2>2. b \in word /\ \A y \in word : y <= b
    <3>1. \E x \in word : \A y \in word : y <= x
      BY <1>0, <1>2, <1>4, TopOf
    <3> QED BY <3>1 DEF Greatest
  <2> DEFINE s == SubSeq(w, a, b)
  <2>3. strip(w) = s
    BY <1>1, <1>4
  <2> HIDE DEF a, b
  <2>4. a \in 1..Len(w) /\ b \in a..Len(w)
    BY <1>0, <1>2, <2>1, <2>2
  <2>5. s \in Seq(Symbols) /\ Len(s) = b - a + 1
    BY <1>0, <2>4, PartOf
  <2>6. s \in Text
    BY <2>5, TextSeq
  <2>7. At(s, w, a - 1)
    <3>1. a \in Nat \ {0} /\ a \in 1..(Len(w) - Len(s) + 1) /\ a + Len(s) - 1 = b
      BY <1>0, <2>4, <2>5
    <3>2. SubSeq(w, a, a + Len(s) - 1) = s
      BY <3>1
    <3> HIDE DEF s
    <3> QED BY <2>6, <3>1, <3>2, AtWhere
  <2> HIDE DEF s
  <2>8. PICK x \in Text, y \in Text : w = (x \o s) \o y /\ Len(x) = a - 1
    BY <2>7 DEF At
  <2> DEFINE xs == x \o s
  <2>9. /\ xs \in Text /\ Len(xs) = b /\ \A i \in 1..Len(x) : xs[i] = x[i]
    <3>1. /\ x \o s \in Text /\ Len(x \o s) = Len(x) + Len(s)
          /\ \A i \in 1..Len(x) : (x \o s)[i] = x[i]
      BY <2>6, ConcatWords
    <3> QED BY <2>4, <2>5, <2>8, <3>1
  <2>10. w = xs \o y
    BY <2>8
  <2> HIDE DEF xs
  <2>11. /\ Len(y) \in Nat /\ Len(w) = b + Len(y)
         /\ \A i \in 1..b : w[i] = xs[i]
         /\ \A i \in 1..Len(y) : w[b + i] = y[i]
    <3>1. /\ Len(xs \o y) = Len(xs) + Len(y) /\ Len(y) \in Nat
          /\ \A i \in 1..Len(xs) : (xs \o y)[i] = xs[i]
          /\ \A i \in 1..Len(y) : (xs \o y)[Len(xs) + i] = y[i]
      BY <2>9, ConcatWords
    <3> QED BY <2>9, <2>10, <3>1
  <2>12. WordsOf(x) = {}
    <3>1. DOMAIN x = 1..(a - 1)
      BY <2>8, TextSeq
    <3>2. ASSUME NEW i \in 1..(a - 1) PROVE x[i] \in Blank
      <4>1. i \in 1..b /\ i \in 1..Len(x) /\ i \in 1..Len(w) /\ i < a
        BY <1>0, <2>4, <2>8
      <4>2. x[i] = w[i]
        BY <2>9, <2>11, <4>1
      <4>3. i \notin word
        BY <1>0, <2>1, <2>4, <4>1
      <4> QED BY <1>w, <4>1, <4>2, <4>3
    <3> QED BY <3>1, <3>2 DEF WordsOf
  <2>13. WordsOf(y) = {}
    <3>1. DOMAIN y = 1..Len(y)
      BY TextSeq
    <3>2. ASSUME NEW i \in 1..Len(y) PROVE y[i] \in Blank
      <4>1. b + i \in 1..Len(w) /\ ~(b + i <= b)
        BY <1>0, <2>4, <2>11
      <4>2. y[i] = w[b + i] /\ b + i \notin word
        BY <2>2, <2>11, <4>1
      <4> QED BY <1>w, <4>1, <4>2
    <3> QED BY <3>1, <3>2 DEF WordsOf
  <2>14. ASSUME NEW k \in 1..Len(w), w[k] \notin Blank
         PROVE  Len(x) < k /\ Len(y) <= Len(w) - k
    <3>1. a <= k /\ k <= b
      BY <1>w, <2>1, <2>2, <2>14
    <3> QED BY <1>0, <2>4, <2>8, <2>11, <3>1
  <2>15. Stripped(w, s, x, y)
    BY <2>8, <2>12, <2>13, <2>14 DEF Stripped
  <2> QED BY <2>3, <2>6, <2>15
<1> QED
  BY <1>3, <1>4

LEMMA StripKeeps ==
  ASSUME NEW w \in Text
  PROVE  /\ strip(w) \in Text /\ Len(strip(w)) \in Nat
         /\ WordsOf(strip(w)) = WordsOf(w) /\ Count(w) <= Len(strip(w))
<1> DEFINE c == strip(w)
<1>1. c \in Text /\ \E x, y \in Text : Stripped(w, c, x, y)
  BY StripParts
<1> HIDE DEF c
<1>2. PICK x \in Text, y \in Text : Stripped(w, c, x, y)
  BY <1>1
<1> DEFINE xc == x \o c
<1>3. xc \in Text /\ WordsOf(xc) = WordsOf(x) \union WordsOf(c) /\ Count(xc) = Count(x) + Count(c)
  BY <1>1, TextConcat, WordsConcat, CountConcat
<1>4. w = xc \o y /\ WordsOf(x) = {} /\ WordsOf(y) = {}
  BY <1>2 DEF Stripped
<1> HIDE DEF xc
<1>5. WordsOf(w) = WordsOf(xc) \union WordsOf(y) /\ Count(w) = Count(xc) + Count(y)
  BY <1>3, <1>4, WordsConcat, CountConcat
<1>6. Count(x) = 0 /\ Count(y) = 0 /\ Count(c) \in Nat /\ Count(c) <= Len(c) /\ Len(c) \in Nat
  BY <1>1, <1>4, CountIs, TextSeq
<1>7. WordsOf(c) = WordsOf(w) /\ Count(w) <= Len(c)
  BY <1>3, <1>4, <1>5, <1>6
<1> QED
  BY <1>1, <1>6, <1>7 DEF c

\* It ends with a word and begins with one, or with one behind a separator.
Framed(w) ==
  /\ w # <<>> /\ w[Len(w)] \notin Blank
  /\ \E k \in 1..2 : k <= Len(w) /\ w[k] \notin Blank

LEMMA FramedStrip ==
  ASSUME NEW w \in Text, Framed(w)
  PROVE  Len(w) <= Len(strip(w)) + 1
<1> DEFINE c == strip(w)
<1>1. c \in Text /\ \E x, y \in Text : Stripped(w, c, x, y)
  BY StripParts
<1> HIDE DEF c
<1>2. PICK x \in Text, y \in Text : Stripped(w, c, x, y)
  BY <1>1
<1> DEFINE xc == x \o c
<1>3. xc \in Text /\ Len(xc) = Len(x) + Len(c) /\ Len(x) \in Nat /\ Len(c) \in Nat
  BY <1>1, ConcatWords
<1>4. w = xc \o y
  BY <1>2 DEF Stripped
<1> HIDE DEF xc
<1>5. Len(w) = Len(x) + Len(c) + Len(y) /\ Len(y) \in Nat
  <2>1. Len(xc \o y) = Len(xc) + Len(y) /\ Len(y) \in Nat
    BY <1>3, ConcatWords
  <2> QED BY <1>3, <1>4, <2>1
<1>6. Len(y) <= 0
  <2>1. Len(w) \in 1..Len(w)
    BY TextSeq DEF Framed
  <2>2. Len(y) <= Len(w) - Len(w)
    BY <1>2, <2>1 DEF Framed, Stripped
  <2> QED BY <1>5, <2>1, <2>2
<1>7. Len(x) < 2
  <2>1. PICK k \in 1..2 : k <= Len(w) /\ w[k] \notin Blank
    BY DEF Framed
  <2>2. k \in 1..Len(w)
    BY <1>3, <1>5, <2>1
  <2>3. Len(x) < k
    BY <1>2, <2>1, <2>2 DEF Stripped
  <2> QED BY <1>3, <2>1, <2>3
<1>8. Len(w) <= Len(c) + 1
  BY <1>3, <1>5, <1>6, <1>7
<1> QED
  BY <1>8 DEF c

\* A line, with the separator before it.
LinePiece == {t \in Text : /\ t # <<>> /\ t[Len(t)] \notin Blank
                           /\ \A k \in 2..Len(t) : t[k] \notin Blank}

LEMMA LineIsFramed ==
  ASSUME NEW t \in LinePiece
  PROVE  t \in Text /\ t # <<>> /\ Len(t) \in Nat \ {0} /\ Framed(t)
<1>1. t \in Text /\ t # <<>> /\ t[Len(t)] \notin Blank /\ \A k \in 2..Len(t) : t[k] \notin Blank
  BY DEF LinePiece
<1>2. Len(t) \in Nat \ {0}
  BY <1>1, TextSeq
<1>3. \E k \in 1..2 : k <= Len(t) /\ t[k] \notin Blank
  <2>1. CASE Len(t) = 1
    BY <1>1, <2>1
  <2>2. CASE Len(t) # 1
    <3>1. 2 \in 2..Len(t) /\ 2 \in 1..2 /\ 2 <= Len(t)
      BY <1>2, <2>2
    <3> QED BY <1>1, <3>1
  <2> QED BY <2>1, <2>2
<1> QED
  BY <1>1, <1>2, <1>3 DEF Framed

LEMMA LinesAreText ==
  /\ LinePiece \subseteq Text
  /\ \A ps \in Seq(LinePiece) : ps \in Seq(Text)
<1>1. LinePiece \subseteq Text
  BY DEF LinePiece
<1> QED
  BY <1>1, SeqMonotonic

LEMMA FramedConcat ==
  ASSUME NEW a \in Text, Framed(a), NEW b \in Text, Framed(b)
  PROVE  Framed(a \o b)
<1> DEFINE z == a \o b
<1>1. /\ Len(a) \in Nat /\ Len(b) \in Nat /\ z \in Text
      /\ Len(z) = Len(a) + Len(b)
      /\ \A i \in 1..Len(a) : z[i] = a[i]
      /\ \A i \in 1..Len(b) : z[Len(a) + i] = b[i]
  BY ConcatWords
<1> HIDE DEF z
<1>2. Len(b) \in 1..Len(b) /\ Len(z) = Len(a) + Len(b) /\ b[Len(b)] \notin Blank
  BY <1>1, TextSeq DEF Framed
<1>3. z[Len(z)] \notin Blank
  BY <1>1, <1>2
<1>4. PICK k \in 1..2 : k <= Len(a) /\ a[k] \notin Blank
  BY DEF Framed
<1>5. k \in 1..Len(a) /\ k <= Len(z)
  BY <1>1, <1>4
<1>6. z[k] \notin Blank
  BY <1>1, <1>4, <1>5
<1>7. z # <<>>
  <2> SUFFICES ASSUME z = <<>> PROVE FALSE
    OBVIOUS
  <2>1. Len(z) = 0
    OBVIOUS
  <2> QED BY <1>1, <1>2, <2>1
<1> QED
  BY <1>3, <1>5, <1>6, <1>7 DEF Framed, z

LEMMA FlatFramed ==
  ASSUME NEW ps \in Seq(LinePiece)
  PROVE  /\ FlattenSeq(ps) \in Text
         /\ ps # <<>> => Framed(FlattenSeq(ps))
         /\ ps = <<>> => FlattenSeq(ps) = <<>>
<1> DEFINE S == {s \in Seq(LinePiece) : s # <<>> => Framed(FlattenSeq(s))}
<1>1. <<>> \in S
  BY EmptySeq
<1>2. ASSUME NEW s \in Seq(LinePiece), NEW p \in LinePiece, s \in S PROVE Append(s, p) \in S
  <2>1. Append(s, p) \in Seq(LinePiece) /\ s \in Seq(Text) /\ p \in Text /\ Framed(p)
    BY LinesAreText, LineIsFramed
  <2>2. s # <<>> => Framed(FlattenSeq(s))
    BY <1>2
  <2> HIDE DEF S
  <2>3. FlattenSeq(s) \in Text /\ FlattenSeq(Append(s, p)) = FlattenSeq(s) \o p
    BY <2>1, FlattenText
  <2>4. CASE s = <<>>
    <3>1. FlattenSeq(s) = <<>>
      BY <2>4, FlattenText
    <3>2. FlattenSeq(Append(s, p)) = p
      BY <2>1, <2>3, <3>1, TextConcat
    <3> QED BY <2>1, <3>2 DEF S
  <2>5. CASE s # <<>>
    <3>1. Framed(FlattenSeq(s) \o p)
      BY <2>1, <2>2, <2>3, <2>5, FramedConcat
    <3> QED BY <2>1, <2>3, <3>1 DEF S
  <2> QED BY <2>4, <2>5
<1>3. \A s \in Seq(LinePiece) : s \in S
  <2> HIDE DEF S
  <2> QED BY <1>1, <1>2, InductiveSeq
<1>4. FlattenSeq(ps) \in Text /\ FlattenSeq(<<>>) = <<>>
  BY LinesAreText, FlattenText
<1> QED
  BY <1>3, <1>4

\* A text all of whose words are kept ends with one of them.
LEMMA FramedEnds ==
  ASSUME NEW a \in Text, Framed(a), NEW K, WordsOf(a) \subseteq K
  PROVE  EndsKept(a, K)
<1>1. DOMAIN a = 1..Len(a) /\ Len(a) \in Nat \ {0} /\ \A i \in DOMAIN a : a[i] \in Symbols
  BY TextSeq DEF Framed
<1>2. Len(a) \in DOMAIN a
  BY <1>1
<1>3. a[Len(a)] \in Symbols \ Blank
  BY <1>1, <1>2 DEF Framed
<1>4. a[Len(a)] \in WordsOf(a)
  BY <1>2, <1>3 DEF WordsOf
<1> QED
  BY <1>3, <1>4 DEF EndsKept

LEMMA EndsConcat ==
  ASSUME NEW a \in Text, NEW b \in Text, b # <<>>, NEW K, EndsKept(b, K)
  PROVE  EndsKept(a \o b, K)
<1>1. /\ Len(a \o b) = Len(a) + Len(b) /\ Len(b) \in 1..Len(b)
      /\ \A i \in 1..Len(b) : (a \o b)[Len(a) + i] = b[i]
  BY ConcatWords, TextSeq
<1> QED
  BY <1>1 DEF EndsKept

\* The words of the texts that are long enough for a chunk.
KeptWords(ts) ==
  {w \in Symbols : \E c \in ToSet(ts) : Len(c) >= MinTokens /\ w \in WordsOf(c)}

LEMMA WordsType ==
  ASSUME NEW t
  PROVE  WordsOf(t) \subseteq Symbols
BY DEF WordsOf

LEMMA KeptAppend ==
  ASSUME NEW ts \in Seq(Text), NEW c \in Text
  PROVE  /\ KeptWords(ts) \subseteq KeptWords(Append(ts, c))
         /\ Len(c) >= MinTokens => WordsOf(c) \subseteq KeptWords(Append(ts, c))
<1>1. ToSet(Append(ts, c)) = ToSet(ts) \union {c}
  BY ToSetAppend
<1> QED
  BY <1>1, WordsType DEF KeptWords

LEMMA ToSetConcat ==
  ASSUME NEW T, NEW a \in Seq(T), NEW b \in Seq(T)
  PROVE  ToSet(a \o b) = ToSet(a) \union ToSet(b)
<1> DEFINE z == a \o b
<1>1. /\ DOMAIN a = 1..Len(a) /\ DOMAIN b = 1..Len(b) /\ Len(a) \in Nat /\ Len(b) \in Nat
      /\ DOMAIN z = 1..(Len(a) + Len(b))
      /\ \A i \in 1..Len(a) : z[i] = a[i]
      /\ \A i \in 1..Len(b) : z[Len(a) + i] = b[i]
  OBVIOUS
<1> HIDE DEF z
<1>2. ASSUME NEW w \in ToSet(z) PROVE w \in ToSet(a) \union ToSet(b)
  <2>1. PICK i \in 1..(Len(a) + Len(b)) : z[i] = w
    BY <1>1 DEF ToSet
  <2>2. CASE i \in 1..Len(a)
    BY <1>1, <2>1, <2>2 DEF ToSet
  <2>3. CASE i \notin 1..Len(a)
    <3>1. i - Len(a) \in 1..Len(b) /\ Len(a) + (i - Len(a)) = i
      BY <1>1, <2>3
    <3>2. b[i - Len(a)] = w
      BY <1>1, <2>1, <3>1
    <3> QED BY <1>1, <3>1, <3>2 DEF ToSet
  <2> QED BY <2>2, <2>3
<1>3. ASSUME NEW w \in ToSet(a) PROVE w \in ToSet(z)
  <2>1. PICK i \in 1..Len(a) : a[i] = w
    BY <1>1 DEF ToSet
  <2>2. i \in 1..(Len(a) + Len(b))
    BY <1>1
  <2> QED BY <1>1, <2>1, <2>2 DEF ToSet
<1>4. ASSUME NEW w \in ToSet(b) PROVE w \in ToSet(z)
  <2>1. PICK i \in 1..Len(b) : b[i] = w
    BY <1>1 DEF ToSet
  <2>2. Len(a) + i \in 1..(Len(a) + Len(b))
    BY <1>1
  <2> QED BY <1>1, <2>1, <2>2 DEF ToSet
<1>5. ToSet(z) = ToSet(a) \union ToSet(b)
  BY <1>2, <1>3, <1>4
<1> QED
  BY <1>5 DEF z

LEMMA KeptConcat ==
  ASSUME NEW ts \in Seq(Text), NEW us \in Seq(Text)
  PROVE  /\ KeptWords(ts) \subseteq KeptWords(ts \o us)
         /\ KeptWords(us) \subseteq KeptWords(ts \o us)
<1>1. ToSet(ts \o us) = ToSet(ts) \union ToSet(us)
  BY ToSetConcat
<1> QED
  BY <1>1 DEF KeptWords

\* The texts that are let go are too small.
LEMMA KeptWithout ==
  ASSUME NEW ts \in Seq(Text), NEW out, \A c \in out : Len(c) < MinTokens
  PROVE  KeptWords(ts) \subseteq KeptWords(Without(ts, out))
<1>1. ToSet(Without(ts, out)) = ToSet(ts) \ out
  BY WithoutSet
<1>2. \A c \in ToSet(ts) : Len(c) >= MinTokens => c \notin out
  <2> TAKE c \in ToSet(ts)
  <2>1. Len(c) \in Nat /\ MinTokens \in Nat
    BY ToSetType, TextSeq, ChunkingAssumption
  <2> QED BY <2>1
<1> QED
  BY <1>1, <1>2 DEF KeptWords

\* Of a text that is put among others, all words are kept, or it is too small.
LEMMA ClosingKeeps ==
  ASSUME NEW done \in Seq(Text), NEW u \in Text
  PROVE  LET K == KeptWords(Append(done, strip(u)))
         IN  /\ KeptWords(done) \subseteq K /\ Crumbs(u, K)
             /\ WordsOf(u) \subseteq K \/ (Len(strip(u)) < MinTokens /\ Count(u) < MinTokens)
<1> DEFINE c == strip(u)
           K == KeptWords(Append(done, c))
<1>1. /\ c \in Text /\ Len(c) \in Nat /\ WordsOf(c) = WordsOf(u) /\ Count(u) <= Len(c)
      /\ Count(u) \in Nat /\ MinTokens \in Nat
  BY StripKeeps, CountIs, ChunkingAssumption
<1> HIDE DEF c
<1>2. KeptWords(done) \subseteq K /\ (Len(c) >= MinTokens => WordsOf(c) \subseteq K)
  BY <1>1, KeptAppend
<1> HIDE DEF K
<1>3. WordsOf(u) \subseteq K \/ (Len(c) < MinTokens /\ Count(u) < MinTokens)
  BY <1>1, <1>2
<1>4. Crumbs(u, K)
  BY <1>3, CrumbsCovered, CrumbsSmall
<1> QED
  BY <1>2, <1>3, <1>4 DEF K, c

LEMMA CrumbsPart ==
  ASSUME NEW p \in Text, NEW t \in Text, NEW K, Occurs(p, t), Crumbs(t, K)
  PROVE  Crumbs(p, K)
<1> SUFFICES ASSUME NEW s \in Text, Occurs(s, p), WordsOf(s) \intersect K = {}
             PROVE  Count(s) < MinTokens
  BY DEF Crumbs
<1>1. Occurs(s, t)
  BY OccursTransitive
<1> QED
  BY <1>1 DEF Crumbs

-----------------------------------------------------------------------------
(***************************************************************************)
(* Short pieces put together.  Before a piece is put, the chunk it would   *)
(* make too long is closed: the pieces a go with it, the pieces o begin    *)
(* the next.                                                               *)
(***************************************************************************)
Closes(acc, piece, after, a, o) ==
  /\ a # <<>> /\ acc.now = a \o o
  /\ after = [done |-> Append(acc.done, strip(FlattenSeq(acc.now))),
              now  |-> Append(o, piece)]

LEMMA MergeSplitIs ==
  ASSUME NEW acc \in MergeState, NEW piece \in Small
  PROVE  \/ /\ Len(FlattenSeq(acc.now)) + Len(piece) <= MaxTokens
            /\ MergeSplit(acc, piece) = [done |-> acc.done, now |-> Append(acc.now, piece)]
         \/ /\ Len(FlattenSeq(acc.now)) + Len(piece) > MaxTokens
            /\ \E a, o \in Seq(Text) : Closes(acc, piece, MergeSplit(acc, piece), a, o)
<1> DEFINE now == acc.now
           done == acc.done
           n == LengthOf(now)
           o == OverlapFor(piece, now)
           after == MergeSplit(acc, piece)
<1>1. /\ acc = [done |-> done, now |-> now] /\ now \in Seq(Text)
      /\ piece \in Text /\ Len(piece) \in Nat /\ Len(piece) <= MaxTokens /\ MaxTokens \in Nat
  BY TextSeq, ChunkingAssumption DEF MergeState, Small
<1>2. n \in Nat /\ n = Len(FlattenSeq(now)) /\ (now = <<>> => n = 0)
  <2>1. now = <<>> => FlattenSeq(now) = <<>>
    BY FlattenText
  <2>2. Len(<<>>) = 0
    OBVIOUS
  <2> QED BY <1>1, <2>1, <2>2, LengthType
<1>3. \/ /\ ~(now # <<>> /\ n + Len(piece) > MaxTokens)
         /\ after = [done |-> done, now |-> Append(now, piece)]
      \/ /\ now # <<>> /\ n + Len(piece) > MaxTokens
         /\ after = [done |-> Append(done, strip(FlattenSeq(now))), now |-> Append(o, piece)]
  BY <1>1 DEF MergeSplit
<1>4. /\ o \in Seq(Text) /\ Ends(now, o)
      /\ LengthOf(o) = 0 \/ LengthOf(o) + Len(piece) <= MaxTokens
  BY <1>1, OverlapIs
<1> HIDE DEF now, done, n, o, after
<1>5. CASE n + Len(piece) <= MaxTokens
  <2>1. after = [done |-> done, now |-> Append(now, piece)]
    BY <1>1, <1>2, <1>3, <1>5
  <2> QED BY <1>2, <1>5, <2>1 DEF after, now, done
<1>6. CASE n + Len(piece) > MaxTokens
  <2>1. now # <<>>
    BY <1>1, <1>2, <1>6
  <2>2. PICK a \in Seq(Text) : now = a \o o
    BY <1>4 DEF Ends
  <2>3. a # <<>>
    <3> SUFFICES ASSUME a = <<>> PROVE FALSE
      OBVIOUS
    <3>1. now = o
      BY <1>4, <2>2, ConcatEmptySeq
    <3>2. n = 0 \/ n + Len(piece) <= MaxTokens
      BY <1>4, <3>1 DEF n
    <3> QED BY <1>1, <1>2, <1>6, <3>2
  <2>4. after = [done |-> Append(done, strip(FlattenSeq(now))), now |-> Append(o, piece)]
    BY <1>3, <1>6, <2>1
  <2>5. Closes(acc, piece, after, a, o)
    BY <2>2, <2>3, <2>4 DEF Closes, now, done
  <2> QED BY <1>2, <1>4, <1>6, <2>5 DEF after, now
<1> QED
  BY <1>1, <1>2, <1>5, <1>6

\* A piece stands in what the pieces make.
LEMMA FlattenOccurs ==
  ASSUME NEW ps \in Seq(Text)
  PROVE  \A p \in ToSet(ps) : Occurs(p, FlattenSeq(ps))
<1> DEFINE S == {s \in Seq(Text) : \A p \in ToSet(s) : Occurs(p, FlattenSeq(s))}
<1>1. <<>> \in S
  <2>1. <<>> \in Seq(Text)
    BY EmptySeq
  <2>2. ToSet(<<>>) = {}
    BY <2>1, ToSetType
  <2> QED BY <2>1, <2>2
<1>2. ASSUME NEW s \in Seq(Text), NEW q \in Text, s \in S PROVE Append(s, q) \in S
  <2> DEFINE e == Append(s, q)
             f == FlattenSeq(s)
  <2>1. e \in Seq(Text) /\ ToSet(e) = ToSet(s) \union {q} /\ ToSet(s) \subseteq Text
    BY ToSetAppend, ToSetType
  <2>2. f \in Text /\ FlattenSeq(e) = f \o q /\ f \o q \in Text
    BY FlattenText, TextConcat
  <2>3. \A p \in ToSet(s) : Occurs(p, f)
    BY <1>2
  <2> HIDE DEF e, f, S
  <2>4. Occurs(q, f \o q) /\ Occurs(f, f \o q)
    <3>1. f \o q = (f \o q) \o <<>> /\ <<>> \in Text
      BY <2>2, TextSeq, TextConcat
    <3>2. f \o q = (<<>> \o f) \o q
      BY <2>2, TextConcat
    <3> QED BY <2>2, <3>1, <3>2 DEF Occurs
  <2>5. ASSUME NEW p \in ToSet(e) PROVE Occurs(p, f \o q)
    <3>1. CASE p \in ToSet(s)
      BY <2>1, <2>2, <2>3, <2>4, <3>1, OccursTransitive
    <3>2. CASE p = q
      BY <2>4, <3>2
    <3> QED BY <2>1, <3>1, <3>2
  <2> QED BY <2>1, <2>2, <2>5 DEF S, e
<1>3. \A s \in Seq(Text) : s \in S
  <2> HIDE DEF S
  <2> QED BY <1>1, <1>2, InductiveSeq
<1> QED
  BY <1>3

\* The text t is something of which only crumbs are lost, and then u: a chunk
\* that is not too small, unless what is before it ends with a word kept.
GapBefore(t, K, u) ==
  \E d \in Text : /\ t = d \o u /\ Crumbs(d, K)
                  /\ EndsKept(d, K) \/ Len(u) > MinTokens

LEMMA GapPut ==
  ASSUME NEW t \in Text, NEW u \in Text, NEW q \in Text, NEW K, GapBefore(t, K, u)
  PROVE  GapBefore(t \o q, K, u \o q)
<1>1. PICK d \in Text : /\ t = d \o u /\ Crumbs(d, K)
                        /\ EndsKept(d, K) \/ Len(u) > MinTokens
  BY DEF GapBefore
<1>2. t \o q = d \o (u \o q)
  BY <1>1, TextAssociative
<1>3. Len(u \o q) = Len(u) + Len(q) /\ Len(u) \in Nat /\ Len(q) \in Nat
  BY TextConcat
<1>4. EndsKept(d, K) \/ Len(u \o q) > MinTokens
  BY <1>1, <1>3, ChunkingAssumption
<1> QED
  BY <1>1, <1>2, <1>4 DEF GapBefore

LEMMA GapClose ==
  ASSUME NEW t \in Text, NEW done \in Seq(Text), NEW x \in Text, NEW y \in Text,
         NEW q \in Text, Framed(x), Framed(x \o y), Len(q) <= MaxTokens,
         Len(x \o y) + Len(q) > MaxTokens,
         GapBefore(t, KeptWords(done), x \o y)
  PROVE  GapBefore(t \o q, KeptWords(Append(done, strip(x \o y))), y \o q)
<1> DEFINE u == x \o y
           c == strip(u)
           K == KeptWords(done)
           L == KeptWords(Append(done, c))
<1>1. /\ u \in Text /\ Len(u) \in Nat /\ Len(x) \in Nat /\ Len(y) \in Nat /\ Len(q) \in Nat
      /\ Len(u) = Len(x) + Len(y) /\ y \o q \in Text /\ Len(y \o q) = Len(y) + Len(q)
  BY TextConcat
<1>2. PICK d \in Text : /\ t = d \o u /\ Crumbs(d, K)
                        /\ EndsKept(d, K) \/ Len(u) > MinTokens
  BY DEF GapBefore
<1>a. Occurs(x, u)
  <2>1. u = (<<>> \o x) \o y /\ <<>> \in Text
    BY TextSeq, TextConcat
  <2> QED BY <2>1 DEF Occurs
<1>u. u = x \o y /\ Framed(u) /\ Len(u) + Len(q) > MaxTokens
  OBVIOUS
<1> HIDE DEF u
<1>3. /\ K \subseteq L
      /\ WordsOf(u) \subseteq L \/ (Len(c) < MinTokens /\ Count(u) < MinTokens)
  BY <1>1, ClosingKeeps
<1>4. Len(u) <= Len(c) + 1 /\ Len(c) \in Nat
  BY <1>1, <1>u, FramedStrip, StripKeeps
<1> HIDE DEF c, K, L
<1>5. Crumbs(d, L) /\ (EndsKept(d, K) => EndsKept(d, L))
  BY <1>2, <1>3, CrumbsMore
<1> DEFINE e == d \o x
<1>6. e \in Text /\ t \o q = e \o (y \o q)
  <2>1. e \in Text
    BY TextConcat
  <2>2. t = e \o y
    BY <1>2, <1>u, TextAssociative, ZenonT(60)
  <2> HIDE DEF e
  <2> QED BY <2>1, <2>2, TextAssociative, ZenonT(60)
<1>7. CASE WordsOf(u) \subseteq L
  <2>1. WordsOf(x) \subseteq L
    BY <1>1, <1>7, <1>a, WordsOccur
  <2>2. Crumbs(e, L)
    BY <1>5, <2>1, CrumbsThen
  <2>3. EndsKept(e, L)
    <3>1. EndsKept(x, L) /\ x # <<>>
      BY <2>1, FramedEnds DEF Framed
    <3> QED BY <3>1, EndsConcat
  <2> HIDE DEF e
  <2>4. GapBefore(t \o q, L, y \o q)
    BY <1>6, <2>2, <2>3 DEF GapBefore
  <2> QED BY <2>4 DEF L, c, u
<1>8. CASE Len(c) < MinTokens /\ Count(u) < MinTokens
  <2>0. MinTokens \in Nat /\ MaxTokens \in Nat /\ 2 * MinTokens < MaxTokens
    BY ChunkingAssumption
  <2>1. Len(u) <= MinTokens
    BY <1>1, <1>4, <1>8, <2>0
  <2>2. EndsKept(d, L)
    BY <1>1, <1>2, <1>5, <2>0, <2>1
  <2>3. Count(x) < MinTokens
    <3>1. Count(x) <= Count(u)
      BY <1>1, <1>a, CountOccurs
    <3>2. Count(x) \in Nat /\ Count(u) \in Nat
      BY <1>1, CountIs
    <3> QED BY <1>8, <2>0, <3>1, <3>2
  <2>4. Crumbs(x, L)
    BY <2>3, CrumbsSmall
  <2>5. Crumbs(e, L)
    BY <1>5, <2>2, <2>4, CrumbsAfter
  <2>6. Len(y \o q) > MinTokens
    BY <1>1, <1>u, <2>0, <2>1
  <2> HIDE DEF e
  <2>7. GapBefore(t \o q, L, y \o q)
    BY <1>6, <2>5, <2>6 DEF GapBefore
  <2> QED BY <2>7 DEF L, c, u
<1> QED
  BY <1>3, <1>7, <1>8

LEMMA GapEnds ==
  ASSUME NEW t \in Text, NEW done \in Seq(Text), NEW u \in Text,
         u = <<>> \/ Framed(u), GapBefore(t, KeptWords(done), u)
  PROVE  Crumbs(t, KeptWords(Append(done, strip(u))))
<1> DEFINE c == strip(u)
           K == KeptWords(done)
           L == KeptWords(Append(done, c))
<1>1. PICK d \in Text : /\ t = d \o u /\ Crumbs(d, K)
                        /\ EndsKept(d, K) \/ Len(u) > MinTokens
  BY DEF GapBefore
<1>2. /\ K \subseteq L /\ Crumbs(u, L)
      /\ WordsOf(u) \subseteq L \/ (Len(c) < MinTokens /\ Count(u) < MinTokens)
  BY ClosingKeeps
<1>3. Len(c) \in Nat /\ Len(u) \in Nat /\ MinTokens \in Nat \ {0}
  BY StripKeeps, TextSeq, ChunkingAssumption
<1>4. Len(u) <= Len(c) + 1
  <2>1. CASE u = <<>>
    <3>1. Len(u) = 0
      BY <2>1
    <3> QED BY <1>3, <3>1
  <2>2. CASE Framed(u)
    BY <2>2, FramedStrip
  <2> QED BY <2>1, <2>2
<1> HIDE DEF c, K, L
<1>5. Crumbs(d, L) /\ (EndsKept(d, K) => EndsKept(d, L))
  BY <1>1, <1>2, CrumbsMore
<1>6. CASE WordsOf(u) \subseteq L
  <2>1. Crumbs(d \o u, L)
    BY <1>5, <1>6, CrumbsThen
  <2> QED BY <1>1, <2>1 DEF L, c
<1>7. CASE Len(c) < MinTokens
  <2>1. EndsKept(d, L)
    BY <1>1, <1>3, <1>4, <1>5, <1>7
  <2>2. Crumbs(d \o u, L)
    BY <1>2, <1>5, <2>1, CrumbsAfter
  <2> QED BY <1>1, <2>2 DEF L, c
<1> QED
  BY <1>2, <1>6, <1>7

LEMMA SeqParts ==
  ASSUME NEW T, NEW U, NEW a \in Seq(U), NEW b \in Seq(U), a \o b \in Seq(T)
  PROVE  a \in Seq(T) /\ b \in Seq(T)
<1> DEFINE z == a \o b
<1>1. /\ Len(a) \in Nat /\ Len(b) \in Nat /\ Len(z) = Len(a) + Len(b)
      /\ \A i \in 1..Len(a) : z[i] = a[i]
      /\ \A i \in 1..Len(b) : z[Len(a) + i] = b[i]
  OBVIOUS
<1>2. z \in Seq(T)
  OBVIOUS
<1> HIDE DEF z
<1>3. \A i \in 1..Len(z) : z[i] \in T
  BY <1>2
<1>4. \A i \in 1..Len(a) : a[i] \in T
  <2> TAKE i \in 1..Len(a)
  <2>1. i \in 1..Len(z)
    BY <1>1
  <2> QED BY <1>1, <1>3, <2>1
<1>5. \A i \in 1..Len(b) : b[i] \in T
  <2> TAKE i \in 1..Len(b)
  <2>1. Len(a) + i \in 1..Len(z)
    BY <1>1
  <2> QED BY <1>1, <1>3, <2>1
<1> QED
  BY <1>1, <1>4, <1>5, SeqDef

\* Of lines put together to chunks only crumbs are lost: no two chunks that are
\* too small follow each other.
ShortLine == LinePiece \intersect Small
MergeGap(ps, acc) ==
  /\ acc \in [done : Seq(Text), now : Seq(LinePiece)]
  /\ GapBefore(FlattenSeq(ps), KeptWords(acc.done), FlattenSeq(acc.now))

LEMMA MergeGapStarts == MergeGap(<<>>, MergeBase)
<1>1. <<>> \in Seq(Text) /\ <<>> \in Seq(LinePiece) /\ <<>> \in Text
  BY EmptySeq, TextSeq
<1>2. FlattenSeq(<<>>) = <<>> /\ <<>> \o <<>> = <<>>
  BY <1>1, FlattenText, TextConcat
<1>3. GapBefore(<<>>, KeptWords(<<>>), <<>>)
  <2> DEFINE K == KeptWords(<<>>)
  <2> HIDE DEF K
  <2>1. GapBefore(<<>>, K, <<>>)
    BY <1>1, <1>2, CrumbsNone DEF GapBefore
  <2> QED BY <2>1 DEF K
<1>4. MergeBase.done = <<>> /\ MergeBase.now = <<>>
      /\ MergeBase \in [done : Seq(Text), now : Seq(LinePiece)]
  BY <1>1 DEF MergeBase
<1> QED
  BY <1>2, <1>3, <1>4 DEF MergeGap

LEMMA MergeGapGoesOn ==
  ASSUME NEW ps \in Seq(ShortLine), NEW acc, MergeGap(ps, acc), NEW piece \in ShortLine
  PROVE  MergeGap(Append(ps, piece), MergeSplit(acc, piece))
<1> DEFINE done == acc.done
           now == acc.now
           t == FlattenSeq(ps)
           u == FlattenSeq(now)
           after == MergeSplit(acc, piece)
<1>0. done \in Seq(Text) /\ now \in Seq(LinePiece) /\ now \in Seq(Text) /\ acc \in MergeState
  <2>1. acc \in [done : Seq(Text), now : Seq(LinePiece)]
    BY DEF MergeGap
  <2>2. acc = [done |-> done, now |-> now] /\ done \in Seq(Text) /\ now \in Seq(LinePiece)
    BY <2>1
  <2>3. now \in Seq(Text)
    BY <2>2, LinesAreText
  <2> HIDE DEF done, now
  <2> QED BY <2>2, <2>3 DEF MergeState
<1>1. GapBefore(t, KeptWords(done), u)
  BY DEF MergeGap
<1>2. piece \in LinePiece /\ piece \in Small /\ piece \in Text /\ Len(piece) <= MaxTokens
      /\ ps \in Seq(Text)
  <2>1. ShortLine \subseteq Text
    BY DEF ShortLine, Small
  <2>2. ps \in Seq(Text)
    BY <2>1, SeqMonotonic
  <2> QED BY <2>2 DEF ShortLine, Small
<1>3. t \in Text /\ u \in Text /\ FlattenSeq(Append(ps, piece)) = t \o piece
      /\ FlattenSeq(Append(now, piece)) = u \o piece
  BY <1>0, <1>2, FlattenText
<1>4. \/ /\ Len(u) + Len(piece) <= MaxTokens
         /\ after = [done |-> done, now |-> Append(now, piece)]
      \/ /\ Len(u) + Len(piece) > MaxTokens
         /\ \E a, o \in Seq(Text) : Closes(acc, piece, after, a, o)
  BY <1>0, <1>2, MergeSplitIs
<1>5. CASE after = [done |-> done, now |-> Append(now, piece)]
  <2> DEFINE n == Append(now, piece)
  <2>1. n \in Seq(LinePiece)
    BY <1>0, <1>2
  <2>2. after = [done |-> done, now |-> n] /\ FlattenSeq(n) = u \o piece
    BY <1>3, <1>5
  <2> HIDE DEF n, done, now, t, u, after
  <2>3. GapBefore(t \o piece, KeptWords(done), u \o piece)
    BY <1>1, <1>2, <1>3, GapPut
  <2>4. after.done = done /\ after.now = n /\ after \in [done : Seq(Text), now : Seq(LinePiece)]
    BY <1>0, <2>1, <2>2
  <2> QED BY <1>3, <2>2, <2>3, <2>4 DEF MergeGap, after
<1>6. ASSUME NEW a \in Seq(Text), NEW o \in Seq(Text), Len(u) + Len(piece) > MaxTokens,
             Closes(acc, piece, after, a, o)
      PROVE  MergeGap(Append(ps, piece), after)
  <2> DEFINE x == FlattenSeq(a)
             y == FlattenSeq(o)
             n == Append(o, piece)
             d == Append(done, strip(u))
  <2>1. a # <<>> /\ now = a \o o /\ after = [done |-> d, now |-> n]
    BY <1>6 DEF Closes
  <2>2. a \in Seq(LinePiece) /\ o \in Seq(LinePiece)
    BY <1>0, <2>1, SeqParts
  <2>3. u = x \o y
    BY <2>1, FlattenConcat
  <2>4. x \in Text /\ y \in Text /\ Framed(x) /\ n \in Seq(LinePiece)
        /\ FlattenSeq(n) = y \o piece
    <3>1. x \in Text /\ Framed(x)
      BY <2>1, <2>2, FlatFramed
    <3>2. y \in Text /\ FlattenSeq(n) = y \o piece
      BY <1>2, FlattenText
    <3>3. n \in Seq(LinePiece)
      BY <1>2, <2>2
    <3> QED BY <3>1, <3>2, <3>3
  <2>5. Framed(u)
    <3>1. now # <<>>
      <4> SUFFICES ASSUME now = <<>> PROVE FALSE
        OBVIOUS
      <4>1. Len(now) = 0 /\ Len(a \o o) = Len(a) + Len(o) /\ Len(a) \in Nat /\ Len(o) \in Nat
        BY ConcatProperties
      <4>2. Len(a) = 0
        BY <2>1, <4>1
      <4> QED BY <2>1, <4>2
    <3> QED BY <1>0, <3>1, FlatFramed
  <2>6. d \in Seq(Text)
    BY <1>0, <1>3, StripKeeps
  <2> HIDE DEF done, now, t, x, y, n, after
  <2>7. /\ Framed(x \o y) /\ Len(x \o y) + Len(piece) > MaxTokens
        /\ GapBefore(t, KeptWords(done), x \o y)
    BY <1>1, <1>6, <2>3, <2>5
  <2>8. GapBefore(t \o piece, KeptWords(Append(done, strip(x \o y))), y \o piece)
    BY <1>0, <1>2, <1>3, <2>4, <2>7, GapClose
  <2>9. GapBefore(t \o piece, KeptWords(d), y \o piece)
    BY <2>3, <2>8
  <2> HIDE DEF d
  <2>10. after.done = d /\ after.now = n /\ after \in [done : Seq(Text), now : Seq(LinePiece)]
    BY <2>1, <2>4, <2>6
  <2> QED BY <1>3, <2>4, <2>9, <2>10 DEF MergeGap
<1> HIDE DEF MergeGap, after
<1>7. MergeGap(Append(ps, piece), after)
  <2>1. CASE after = [done |-> done, now |-> Append(now, piece)]
    BY <1>5, <2>1 DEF after
  <2>2. CASE Len(u) + Len(piece) > MaxTokens /\ \E a, o \in Seq(Text) : Closes(acc, piece, after, a, o)
    <3>1. PICK a \in Seq(Text), o \in Seq(Text) : Closes(acc, piece, after, a, o)
      BY <2>2
    <3> QED BY <1>6, <2>2, <3>1
  <2> QED BY <1>4, <2>1, <2>2
<1> QED
  BY <1>7 DEF after

LEMMA ShortLines ==
  /\ ShortLine \subseteq Small /\ ShortLine \subseteq Text
  /\ \A ps \in Seq(ShortLine) : ps \in Seq(Small) /\ ps \in Seq(Text) /\ ps \in Seq(LinePiece)
<1>1. ShortLine \subseteq Small /\ ShortLine \subseteq Text /\ ShortLine \subseteq LinePiece
  BY DEF ShortLine, Small
<1> QED
  BY <1>1, SeqMonotonic

LEMMA MergeGapHolds ==
  ASSUME NEW ps \in Seq(ShortLine)
  PROVE  MergeGap(ps, MergeEnd(ps))
<1> DEFINE S == {s \in Seq(ShortLine) : MergeGap(s, MergeEnd(s))}
<1>1. <<>> \in S
  <2>1. <<>> \in Seq(Text) /\ <<>> \in Seq(ShortLine)
    BY EmptySeq
  <2>2. MergeEnd(<<>>) = MergeBase
    BY <2>1, PiecesFolds, FoldBase
  <2> QED BY <2>1, <2>2, MergeGapStarts
<1>2. ASSUME NEW s \in Seq(ShortLine), NEW p \in ShortLine, s \in S PROVE Append(s, p) \in S
  <2>1. Append(s, p) \in Seq(ShortLine) /\ s \in Seq(Text) /\ Append(s, p) \in Seq(Text) /\ p \in Text
    BY ShortLines
  <2> DEFINE a == MergeEnd(s)
             e == MergeEnd(Append(s, p))
  <2>2. /\ Folded(MergeState, PiecesStep, MergeBase, s, a)
        /\ Folded(MergeState, PiecesStep, MergeBase, Append(s, p), e)
    BY <2>1, PiecesFolds
  <2>3. MergeGap(s, a)
    BY <1>2
  <2> HIDE DEF a, e, S
  <2>4. a \in MergeState /\ e = PiecesStep[<<a, p>>]
    BY <2>1, <2>2, PiecesIsStep, FoldGrows
  <2>5. <<a, p>> \in MergeState \X Text
    BY <2>1, <2>4
  <2>6. e = MergeSplit(a, p)
    BY <2>4, <2>5 DEF PiecesStep
  <2>7. MergeGap(Append(s, p), e)
    BY <2>3, <2>6, MergeGapGoesOn
  <2> QED BY <2>1, <2>7 DEF S, e
<1>3. \A s \in Seq(ShortLine) : s \in S
  <2> HIDE DEF S
  <2> QED BY <1>1, <1>2, InductiveSeq
<1> QED
  BY <1>3

\* What is left of the chunks made has their words.
LEMMA MergeSplitsKeep ==
  ASSUME NEW ps \in Seq(Text)
  PROVE  LET end == MergeEnd(ps)
             all == Append(end.done, strip(FlattenSeq(end.now)))
         IN  /\ end.done \in Seq(Text) /\ end.now \in Seq(Text) /\ all \in Seq(Text)
             /\ MergeSplits(ps) \in Seq(Text)
             /\ KeptWords(all) \subseteq KeptWords(MergeSplits(ps))
<1> DEFINE end == MergeEnd(ps)
           u == FlattenSeq(end.now)
           all == Append(end.done, strip(u))
<1>1. end \in MergeState
  BY PiecesFolds, FoldType
<1>2. MergeSplits(ps) = Without(all, {<<>>})
  BY DEF MergeSplits, MergeEnd, MergeBase
<1> HIDE DEF end
<1>3. end.done \in Seq(Text) /\ end.now \in Seq(Text)
  BY <1>1 DEF MergeState
<1>4. u \in Text
  BY <1>3, FlattenText
<1> HIDE DEF u
<1>5. all \in Seq(Text)
  BY <1>3, <1>4, StripKeeps
<1>6. \A c \in {<<>>} : Len(c) < MinTokens
  <2>1. Len(<<>>) = 0 /\ MinTokens \in Nat \ {0}
    BY ChunkingAssumption
  <2> QED BY <2>1
<1> HIDE DEF all
<1>7. KeptWords(all) \subseteq KeptWords(Without(all, {<<>>})) /\ Without(all, {<<>>}) \in Seq(Text)
  BY <1>5, <1>6, KeptWithout, WithoutType
<1> QED
  BY <1>2, <1>3, <1>5, <1>7 DEF end, u, all

\* Of short lines that are put together only crumbs are lost.
LEMMA MergeSplitsCrumbs ==
  ASSUME NEW ps \in Seq(ShortLine)
  PROVE  Crumbs(FlattenSeq(ps), KeptWords(MergeSplits(ps)))
<1> DEFINE end == MergeEnd(ps)
           t == FlattenSeq(ps)
           u == FlattenSeq(end.now)
           all == Append(end.done, strip(u))
<1>0. ps \in Seq(Text)
  BY ShortLines
<1>1. MergeGap(ps, end)
  BY MergeGapHolds
<1>2. /\ end.done \in Seq(Text) /\ end.now \in Seq(Text)
      /\ KeptWords(all) \subseteq KeptWords(MergeSplits(ps))
  BY <1>0, MergeSplitsKeep
<1> HIDE DEF end
<1>3. end.now \in Seq(LinePiece) /\ GapBefore(t, KeptWords(end.done), u)
  BY <1>1 DEF MergeGap
<1>4. t \in Text /\ u \in Text /\ (u = <<>> \/ Framed(u))
  BY <1>0, <1>3, FlatFramed, FlattenText
<1> HIDE DEF t, u
<1>5. Crumbs(t, KeptWords(all))
  BY <1>2, <1>3, <1>4, GapEnds
<1> HIDE DEF all
<1>6. Crumbs(t, KeptWords(MergeSplits(ps)))
  BY <1>2, <1>5, CrumbsMore
<1> QED
  BY <1>6 DEF t

\* A piece whatever it is, when none is cut: the chunk that has all of it is
\* kept, or the piece is too small.
MergeWhole(ps, acc) ==
  /\ acc \in MergeState
  /\ \A p \in ToSet(ps) : Crumbs(p, KeptWords(acc.done)) \/ p \in ToSet(acc.now)

LEMMA MergeWholeGoesOn ==
  ASSUME NEW ps \in Seq(Small), NEW acc, MergeWhole(ps, acc), NEW piece \in Small
  PROVE  MergeWhole(Append(ps, piece), MergeSplit(acc, piece))
<1> DEFINE done == acc.done
           now == acc.now
           u == FlattenSeq(now)
           after == MergeSplit(acc, piece)
<1>0. acc \in MergeState /\ done \in Seq(Text) /\ now \in Seq(Text)
  <2>1. acc \in MergeState
    BY DEF MergeWhole
  <2> QED BY <2>1 DEF MergeState
<1>1. \A p \in ToSet(ps) : Crumbs(p, KeptWords(done)) \/ p \in ToSet(now)
  BY DEF MergeWhole
<1>2. piece \in Text /\ ps \in Seq(Text) /\ u \in Text
  BY <1>0, SmallText, FlattenText
<1>3. ToSet(Append(ps, piece)) = ToSet(ps) \union {piece} /\ ToSet(ps) \subseteq Text
  BY <1>2, ToSetAppend, ToSetType
<1>4. \/ after = [done |-> done, now |-> Append(now, piece)]
      \/ \E a, o \in Seq(Text) : Closes(acc, piece, after, a, o)
  BY <1>0, MergeSplitIs
<1>5. ASSUME NEW d \in Seq(Text), NEW n \in Seq(Text), after = [done |-> d, now |-> n],
             \A p \in ToSet(Append(ps, piece)) : Crumbs(p, KeptWords(d)) \/ p \in ToSet(n)
      PROVE  MergeWhole(Append(ps, piece), after)
  <2> HIDE DEF after
  <2>1. after \in MergeState /\ after.done = d /\ after.now = n
    BY <1>5 DEF MergeState
  <2> QED BY <1>5, <2>1 DEF MergeWhole
<1> HIDE DEF done, now, u, after
<1>6. CASE after = [done |-> done, now |-> Append(now, piece)]
  <2> DEFINE n == Append(now, piece)
  <2>1. n \in Seq(Text) /\ ToSet(n) = ToSet(now) \union {piece}
    BY <1>0, <1>2, ToSetAppend
  <2>2. after = [done |-> done, now |-> n]
    BY <1>6
  <2> HIDE DEF n
  <2>3. MergeWhole(Append(ps, piece), after)
    BY <1>0, <1>1, <1>3, <1>5, <2>1, <2>2
  <2> QED BY <2>3 DEF after
<1>7. CASE \E a, o \in Seq(Text) : Closes(acc, piece, after, a, o)
  <2>1. PICK a \in Seq(Text), o \in Seq(Text) : Closes(acc, piece, after, a, o)
    BY <1>7
  <2> DEFINE n == Append(o, piece)
             d == Append(done, strip(u))
  <2>2. after = [done |-> d, now |-> n]
    BY <2>1 DEF Closes, done, now, u
  <2>3. d \in Seq(Text) /\ n \in Seq(Text) /\ ToSet(n) = ToSet(o) \union {piece}
    BY <1>0, <1>2, ToSetAppend, StripKeeps
  <2>4. KeptWords(done) \subseteq KeptWords(d) /\ Crumbs(u, KeptWords(d))
    BY <1>0, <1>2, ClosingKeeps
  <2> HIDE DEF n, d
  <2>5. ASSUME NEW p \in ToSet(Append(ps, piece))
        PROVE  Crumbs(p, KeptWords(d)) \/ p \in ToSet(n)
    <3>1. CASE p = piece
      BY <2>3, <3>1
    <3>2. CASE p \in ToSet(now)
      <4>1. Occurs(p, u) /\ p \in Text
        BY <1>0, <3>2, FlattenOccurs, ToSetType DEF u
      <4> QED BY <1>2, <2>4, <4>1, CrumbsPart
    <3>3. CASE Crumbs(p, KeptWords(done))
      BY <2>4, <3>3, CrumbsMore
    <3> QED BY <1>1, <1>3, <3>1, <3>2, <3>3
  <2>6. MergeWhole(Append(ps, piece), after)
    BY <1>5, <2>2, <2>3, <2>5
  <2> QED BY <2>6 DEF after
<1> QED
  BY <1>4, <1>6, <1>7

LEMMA MergeWholeHolds ==
  ASSUME NEW ps \in Seq(Small)
  PROVE  MergeWhole(ps, MergeEnd(ps))
<1> DEFINE S == {s \in Seq(Small) : MergeWhole(s, MergeEnd(s))}
<1>1. <<>> \in S
  <2>1. <<>> \in Seq(Text) /\ <<>> \in Seq(Small)
    BY EmptySeq
  <2>2. MergeEnd(<<>>) = MergeBase /\ MergeBase \in MergeState
    BY <2>1, PiecesFolds, FoldBase DEF MergeBase, MergeState
  <2>3. ToSet(<<>>) = {}
    BY <2>1, ToSetType
  <2> QED BY <2>1, <2>2, <2>3 DEF MergeWhole
<1>2. ASSUME NEW s \in Seq(Small), NEW p \in Small, s \in S PROVE Append(s, p) \in S
  <2>1. Append(s, p) \in Seq(Small) /\ s \in Seq(Text) /\ Append(s, p) \in Seq(Text) /\ p \in Text
    BY SmallText
  <2> DEFINE a == MergeEnd(s)
             e == MergeEnd(Append(s, p))
  <2>2. /\ Folded(MergeState, PiecesStep, MergeBase, s, a)
        /\ Folded(MergeState, PiecesStep, MergeBase, Append(s, p), e)
    BY <2>1, PiecesFolds
  <2>3. MergeWhole(s, a)
    BY <1>2
  <2> HIDE DEF a, e, S
  <2>4. a \in MergeState /\ e = PiecesStep[<<a, p>>]
    BY <2>1, <2>2, PiecesIsStep, FoldGrows
  <2>5. <<a, p>> \in MergeState \X Text
    BY <2>1, <2>4
  <2>6. e = MergeSplit(a, p)
    BY <2>4, <2>5 DEF PiecesStep
  <2>7. MergeWhole(Append(s, p), e)
    BY <2>3, <2>6, MergeWholeGoesOn
  <2> QED BY <2>1, <2>7 DEF S, e
<1>3. \A s \in Seq(Small) : s \in S
  <2> HIDE DEF S
  <2> QED BY <1>1, <1>2, InductiveSeq
<1> QED
  BY <1>3

LEMMA MergeSplitsWhole ==
  ASSUME NEW ps \in Seq(Small), NEW p \in ToSet(ps)
  PROVE  Crumbs(p, KeptWords(MergeSplits(ps)))
<1> DEFINE end == MergeEnd(ps)
           u == FlattenSeq(end.now)
           all == Append(end.done, strip(u))
<1>0. ps \in Seq(Text) /\ p \in Text
  <2>1. ps \in Seq(Text)
    BY SmallText
  <2> QED BY <2>1, ToSetType
<1>1. MergeWhole(ps, end)
  BY MergeWholeHolds
<1>2. /\ end.done \in Seq(Text) /\ end.now \in Seq(Text)
      /\ KeptWords(all) \subseteq KeptWords(MergeSplits(ps))
  BY <1>0, MergeSplitsKeep
<1> HIDE DEF end
<1>3. Crumbs(p, KeptWords(end.done)) \/ p \in ToSet(end.now)
  BY <1>1 DEF MergeWhole
<1>4. u \in Text /\ (p \in ToSet(end.now) => Occurs(p, u))
  BY <1>2, FlattenText, FlattenOccurs
<1> HIDE DEF u
<1>5. KeptWords(end.done) \subseteq KeptWords(all) /\ Crumbs(u, KeptWords(all))
  BY <1>2, <1>4, ClosingKeeps
<1> HIDE DEF all
<1>6. Crumbs(p, KeptWords(all))
  <2>1. CASE Crumbs(p, KeptWords(end.done))
    BY <1>5, <2>1, CrumbsMore
  <2>2. CASE p \in ToSet(end.now)
    BY <1>0, <1>4, <1>5, <2>2, CrumbsPart
  <2> QED BY <1>3, <2>1, <2>2
<1> QED
  BY <1>2, <1>6, CrumbsMore

-----------------------------------------------------------------------------
(***************************************************************************)
(* A line that is too long, word by word: every chunk but the last is of   *)
(* the greatest size, and the last begins with an overlap.                 *)
(***************************************************************************)
LEMMA SinglesAre ==
  ASSUME NEW t \in Text
  PROVE  /\ Singles(t) \in Seq(Text) /\ Singles(t) \in Seq(Small)
         /\ Len(Singles(t)) = Len(t) /\ Len(t) \in Nat
         /\ \A i \in 1..Len(t) : Singles(t)[i] = <<t[i]>>
         /\ FlattenSeq(Singles(t)) = t
<1>1. DOMAIN t = 1..Len(t) /\ Len(t) \in Nat
  BY TextSeq
<1>2. Singles(t) = [i \in 1..Len(t) |-> <<t[i]>>]
  BY <1>1 DEF Singles
<1>3. Singles(t) \in Seq(Small) /\ FlattenSeq(Singles(t)) = t
  BY SinglesKeep
<1>4. Singles(t) \in Seq(Text)
  BY <1>3, SmallText
<1>5. Len(Singles(t)) = Len(t)
  BY <1>1, <1>2
<1>6. \A i \in 1..Len(t) : Singles(t)[i] = <<t[i]>>
  BY <1>2
<1> QED
  BY <1>1, <1>3, <1>4, <1>5, <1>6

\* A sequence that is the singles of a text, word by word.
LEMMA SinglesEqual ==
  ASSUME NEW t \in Text, NEW f \in Seq(Text), Len(f) = Len(t),
         \A i \in 1..Len(t) : f[i] = <<t[i]>>
  PROVE  f = Singles(t)
<1>1. /\ Singles(t) \in Seq(Text) /\ Len(Singles(t)) = Len(t)
      /\ \A i \in 1..Len(t) : Singles(t)[i] = <<t[i]>>
  BY SinglesAre
<1>2. \A i \in 1..Len(f) : f[i] = Singles(t)[i]
  BY <1>1
<1> QED
  BY <1>1, <1>2, SeqEqual

LEMMA SinglesAppend ==
  ASSUME NEW t \in Text, NEW w \in Symbols
  PROVE  Singles(Append(t, w)) = Append(Singles(t), <<w>>)
<1> DEFINE e == Append(t, w)
           v == <<w>>
           g == Singles(t)
           f == Append(g, v)
<1>1. /\ e \in Text /\ Len(e) = Len(t) + 1 /\ e[Len(t) + 1] = w
      /\ \A i \in 1..Len(t) : e[i] = t[i]
  BY TextSeq
<1>2. v \in Text
  BY TextSeq
<1>3. g \in Seq(Text) /\ Len(g) = Len(t) /\ Len(t) \in Nat /\ \A i \in 1..Len(t) : g[i] = <<t[i]>>
  BY SinglesAre
<1>v. v = <<w>>
  OBVIOUS
<1> HIDE DEF e, v, g
<1>4. /\ f \in Seq(Text) /\ Len(f) = Len(t) + 1 /\ f[Len(t) + 1] = v
      /\ \A i \in 1..Len(t) : f[i] = g[i]
  BY <1>2, <1>3
<1> HIDE DEF f
<1>5. ASSUME NEW i \in 1..Len(e) PROVE f[i] = <<e[i]>>
  <2>1. i \in 1..Len(t) \/ i = Len(t) + 1
    BY <1>1, <1>3
  <2>2. CASE i \in 1..Len(t)
    <3>1. f[i] = g[i] /\ g[i] = <<t[i]>> /\ e[i] = t[i]
      BY <1>1, <1>3, <1>4, <2>2
    <3> QED BY <3>1
  <2>3. CASE i = Len(t) + 1
    BY <1>1, <1>4, <1>v, <2>3
  <2> QED BY <2>1, <2>2, <2>3
<1>6. f = Singles(e)
  BY <1>1, <1>4, <1>5, SinglesEqual
<1> QED
  BY <1>6 DEF f, e, g, v

\* The last singles of a text are those of its end.
LEMMA SinglesRest ==
  ASSUME NEW t \in Text, NEW k \in 1..(Len(t) + 1)
  PROVE  \E x, y \in Text : /\ t = x \o y /\ Len(x) = k - 1 /\ Len(y) = Len(t) - k + 1
                            /\ SubSeq(Singles(t), k, Len(Singles(t))) = Singles(y)
<1> DEFINE g == Singles(t)
           n == Len(t)
           f == SubSeq(g, k, n)
<1>1. g \in Seq(Text) /\ Len(g) = n /\ n \in Nat /\ \A i \in 1..n : g[i] = <<t[i]>>
  BY SinglesAre
<1>2. k - 1 \in 0..n
  BY <1>1
<1>3. PICK x \in Text, y \in Text : t = x \o y /\ Len(x) = k - 1
  BY <1>2, CutAt
<1>4. /\ Len(y) \in Nat /\ Len(x \o y) = Len(x) + Len(y)
      /\ \A i \in 1..Len(y) : (x \o y)[Len(x) + i] = y[i]
  BY ConcatWords
<1>5. Len(y) = n - k + 1 /\ \A i \in 1..Len(y) : t[k + i - 1] = y[i]
  <2>1. \A i \in 1..Len(y) : Len(x) + i = k + i - 1
    BY <1>3
  <2> QED BY <1>1, <1>3, <1>4, <2>1
<1> HIDE DEF g, n
<1>6. f \in Seq(Text) /\ Len(f) = n - k + 1
  BY <1>1, <1>2, SubSeqProperties
<1>7. ASSUME NEW i \in 1..Len(y) PROVE f[i] = <<y[i]>>
  <2>1. k + i - 1 \in 1..n
    BY <1>1, <1>2, <1>5
  <2>2. f[i] = g[k + i - 1]
    BY <1>1, <1>2, <1>5, <1>7, SubSeqProperties
  <2> QED BY <1>1, <1>5, <2>1, <2>2
<1> HIDE DEF f
<1>8. f = Singles(y)
  BY <1>5, <1>6, <1>7, SinglesEqual
<1> QED
  BY <1>1, <1>3, <1>5, <1>8 DEF f, g, n

\* Behind a chunk of the greatest size the overlap is as long as it may be.
LEMMA OverlapOfWords ==
  ASSUME NEW r \in Text, NEW w \in Symbols, Len(r) >= MaxTokens
  PROVE  \E x, y \in Text : /\ r = x \o y /\ x # <<>> /\ Len(y) >= MinTokens
                            /\ OverlapFor(<<w>>, Singles(r)) = Singles(y)
<1> DEFINE ps == Singles(r)
           piece == <<w>>
           rest(k) == SubSeq(ps, k, Len(ps))
           fits == {k \in 1..(Len(ps) + 1) :
               /\ LengthOf(rest(k)) <= OverlapTokens
               /\ \/ LengthOf(rest(k)) = 0
                  \/ LengthOf(rest(k)) + Len(piece) <= MaxTokens}
           k == Least(fits)
           n == Len(r)
           j == n - OverlapTokens + 1
<1>0. /\ MinTokens \in Nat \ {0} /\ OverlapTokens \in Nat /\ MaxTokens \in Nat
      /\ MinTokens <= OverlapTokens /\ OverlapTokens < MaxTokens
  BY ChunkingAssumption
<1>1. Len(ps) = n /\ n \in Nat /\ n >= MaxTokens /\ Len(piece) = 1
  BY SinglesAre
<1> HIDE DEF ps, n, piece
<1>2. ASSUME NEW i \in 1..(n + 1) PROVE LengthOf(rest(i)) = n - i + 1
  <2>1. PICK x \in Text, y \in Text : Len(y) = n - i + 1 /\ rest(i) = Singles(y)
    BY <1>2, SinglesRest DEF ps, n
  <2>2. LengthOf(Singles(y)) = Len(y)
    BY SinglesAre DEF LengthOf
  <2> QED BY <2>1, <2>2
<1>3. j \in 2..n /\ n - j + 1 = OverlapTokens
  BY <1>0, <1>1
<1> HIDE DEF j
<1>4. j \in fits
  <2>1. j \in 1..(Len(ps) + 1) /\ LengthOf(rest(j)) = OverlapTokens
    BY <1>1, <1>2, <1>3
  <2>2. OverlapTokens <= OverlapTokens /\ OverlapTokens + Len(piece) <= MaxTokens
    BY <1>0, <1>1
  <2> QED BY <2>1, <2>2
<1>5. fits \in SUBSET Nat
  BY <1>1
<1> HIDE DEF fits
<1>6. k \in fits /\ k <= j
  BY <1>4, <1>5, LeastOf
<1>7. OverlapFor(piece, ps) = rest(k)
  BY DEF OverlapFor, fits
<1> HIDE DEF k
<1>8. k \in 1..(n + 1) /\ LengthOf(rest(k)) <= OverlapTokens
  BY <1>1, <1>6 DEF fits
<1>9. n - k + 1 <= OverlapTokens
  BY <1>2, <1>8
<1>10. k = j
  BY <1>0, <1>1, <1>3, <1>6, <1>8, <1>9
<1>11. PICK x \in Text, y \in Text : /\ r = x \o y /\ Len(x) = k - 1 /\ Len(y) = n - k + 1
                                     /\ rest(k) = Singles(y)
  BY <1>8, SinglesRest DEF ps, n
<1>12. Len(y) >= MinTokens /\ x # <<>>
  <2>1. Len(y) = OverlapTokens /\ Len(x) # 0
    BY <1>3, <1>10, <1>11
  <2>2. Len(<<>>) = 0
    OBVIOUS
  <2> QED BY <1>0, <2>1, <2>2
<1> QED
  BY <1>7, <1>11, <1>12 DEF piece, ps

\* A text with no break in it but at its first word.
Plain(t) == \A k \in 2..Len(t) : t[k] \notin Blank

LEMMA TailFramed ==
  ASSUME NEW d \in Text, NEW r \in Text, Plain(d \o r), Len(r) >= 2
  PROVE  Framed(r)
<1>1. /\ Len(d) \in Nat /\ Len(r) \in Nat /\ Len(d \o r) = Len(d) + Len(r)
      /\ \A i \in 1..Len(r) : (d \o r)[Len(d) + i] = r[i]
  BY ConcatWords
<1>2. ASSUME NEW i \in 2..Len(r) PROVE r[i] \notin Blank
  <2>1. Len(d) + i \in 2..Len(d \o r) /\ i \in 1..Len(r)
    BY <1>1
  <2> QED BY <1>1, <2>1 DEF Plain
<1>3. Len(r) \in 2..Len(r) /\ 2 \in 2..Len(r) /\ 2 \in 1..2 /\ 2 <= Len(r)
  BY <1>1
<1>4. r # <<>>
  <2>1. Len(<<>>) = 0
    OBVIOUS
  <2> QED BY <1>3, <2>1
<1> QED
  BY <1>2, <1>3, <1>4 DEF Framed

\* A long line, its words so far: what is cut off is in the chunks made.
WordsMerged(s, acc) ==
  /\ acc \in MergeState
  /\ \E d, r \in Text :
       /\ s = d \o r /\ acc.now = Singles(r)
       /\ WordsOf(d) \subseteq KeptWords(acc.done)
       /\ d = <<>> \/ Len(r) > MinTokens

\* The words of a chunk of all but one of the least size are kept.
LEMMA TailKept ==
  ASSUME NEW d \in Text, NEW r \in Text, Plain(d \o r), Len(r) > MinTokens,
         NEW done \in Seq(Text)
  PROVE  /\ KeptWords(done) \subseteq KeptWords(Append(done, strip(r)))
         /\ WordsOf(r) \subseteq KeptWords(Append(done, strip(r)))
<1>1. MinTokens \in Nat \ {0} /\ Len(r) \in Nat
  BY ChunkingAssumption, TextSeq
<1>2. Framed(r)
  BY <1>1, TailFramed
<1>3. /\ strip(r) \in Text /\ Len(strip(r)) \in Nat /\ WordsOf(strip(r)) = WordsOf(r)
      /\ Len(r) <= Len(strip(r)) + 1
  BY <1>2, StripKeeps, FramedStrip
<1>4. Len(strip(r)) >= MinTokens
  BY <1>1, <1>3
<1> QED
  BY <1>3, <1>4, KeptAppend

LEMMA WordsMergedGoesOn ==
  ASSUME NEW s \in Text, NEW w \in Symbols, Plain(Append(s, w)), NEW acc, WordsMerged(s, acc)
  PROVE  WordsMerged(Append(s, w), MergeSplit(acc, <<w>>))
<1> DEFINE done == acc.done
           now == acc.now
           piece == <<w>>
           after == MergeSplit(acc, piece)
<1>0. acc \in MergeState /\ done \in Seq(Text) /\ now \in Seq(Text)
  <2>1. acc \in MergeState
    BY DEF WordsMerged
  <2> QED BY <2>1 DEF MergeState
<1>1. PICK d \in Text, r \in Text : /\ s = d \o r /\ now = Singles(r)
                                    /\ WordsOf(d) \subseteq KeptWords(done)
                                    /\ d = <<>> \/ Len(r) > MinTokens
  BY DEF WordsMerged
<1>2. /\ MinTokens \in Nat \ {0} /\ MaxTokens \in Nat /\ 2 * MinTokens < MaxTokens
      /\ Len(r) \in Nat /\ Len(s) \in Nat
  BY ChunkingAssumption, TextSeq
<1>3. /\ piece \in Text /\ Len(piece) = 1 /\ Append(s, w) \in Text
      /\ Append(s, w) = d \o Append(r, w) /\ Append(r, w) \in Text
      /\ Len(Append(r, w)) = Len(r) + 1
      /\ Singles(Append(r, w)) = Append(now, piece)
  <2>1. Append(d \o r, w) = d \o Append(r, w)
    BY TextAppend
  <2>2. Singles(Append(r, w)) = Append(Singles(r), <<w>>)
    BY SinglesAppend
  <2>3. Append(s, w) \in Text /\ Append(r, w) \in Text /\ Len(Append(r, w)) = Len(r) + 1 /\ <<w>> \in Text
    BY TextSeq
  <2> QED BY <1>1, <2>1, <2>2, <2>3
<1>4. Plain(d \o r)
  <2>1. Len(Append(s, w)) = Len(s) + 1 /\ \A i \in 1..Len(s) : Append(s, w)[i] = s[i]
    BY TextSeq
  <2>2. \A k \in 2..Len(s) : k \in 2..Len(Append(s, w)) /\ k \in 1..Len(s)
    BY <1>2, <2>1
  <2>3. Plain(s)
    BY <2>1, <2>2 DEF Plain
  <2> QED BY <1>1, <2>3
<1>5. LengthOf(now) = Len(r) /\ FlattenSeq(now) = r
  BY <1>1, SinglesAre DEF LengthOf
<1>6. now # <<>> \/ Len(r) = 0
  <2>1. Len(now) = Len(r)
    BY <1>1, SinglesAre
  <2> QED BY <2>1
<1>7. ASSUME NEW e \in Text, NEW q \in Text, NEW dd \in Seq(Text), NEW n \in Seq(Text),
             after = [done |-> dd, now |-> n], Append(s, w) = e \o q, n = Singles(q),
             WordsOf(e) \subseteq KeptWords(dd), e = <<>> \/ Len(q) > MinTokens
      PROVE  WordsMerged(Append(s, w), after)
  <2> HIDE DEF after
  <2>1. after \in MergeState /\ after.done = dd /\ after.now = n
    BY <1>7 DEF MergeState
  <2> QED BY <1>7, <2>1 DEF WordsMerged
<1>8. after = IF now # <<>> /\ LengthOf(now) + Len(piece) > MaxTokens
              THEN [done |-> Append(done, strip(FlattenSeq(now))),
                    now |-> Append(OverlapFor(piece, now), piece)]
              ELSE [acc EXCEPT !.now = Append(@, piece)]
  BY DEF MergeSplit
<1>9. [acc EXCEPT !.now = Append(@, piece)] = [done |-> done, now |-> Append(now, piece)]
  <2> DEFINE v == Append(now, piece)
  <2>1. acc = [done |-> done, now |-> now]
    BY <1>0 DEF MergeState
  <2> HIDE DEF v
  <2>2. [acc EXCEPT !.now = v] = [done |-> done, now |-> v]
    BY <2>1
  <2> QED BY <2>2 DEF v
<1>10. /\ Len(r) < MaxTokens => after = [done |-> done, now |-> Append(now, piece)]
       /\ Len(r) >= MaxTokens => after = [done |-> Append(done, strip(r)),
                                          now |-> Append(OverlapFor(piece, now), piece)]
  <2> HIDE DEF after, done, now, piece
  <2>1. Len(r) < MaxTokens => ~(LengthOf(now) + Len(piece) > MaxTokens)
    BY <1>2, <1>3, <1>5
  <2>2. Len(r) >= MaxTokens => now # <<>> /\ LengthOf(now) + Len(piece) > MaxTokens
    BY <1>2, <1>3, <1>5, <1>6
  <2> QED BY <1>5, <1>8, <1>9, <2>1, <2>2
<1> HIDE DEF done, now, after
<1>11. CASE Len(r) < MaxTokens
  <2> DEFINE q == Append(r, w)
             n == Append(now, piece)
  <2>1. after = [done |-> done, now |-> n] /\ n = Singles(q) /\ n \in Seq(Text) /\ q \in Text
    BY <1>0, <1>3, <1>10, <1>11
  <2>2. d = <<>> \/ Len(q) > MinTokens
    BY <1>1, <1>2, <1>3
  <2>3. Append(s, w) = d \o q
    BY <1>3
  <2> HIDE DEF q, n, piece
  <2>4. WordsMerged(Append(s, w), after)
    BY <1>0, <1>1, <1>7, <2>1, <2>2, <2>3
  <2> QED BY <2>4 DEF after, piece
<1>12. CASE Len(r) >= MaxTokens
  <2>1. PICK x \in Text, y \in Text : /\ r = x \o y /\ x # <<>> /\ Len(y) >= MinTokens
                                      /\ OverlapFor(piece, now) = Singles(y)
    BY <1>1, <1>12, OverlapOfWords
  <2> DEFINE e == d \o x
             q == Append(y, w)
             dd == Append(done, strip(r))
             n == Singles(q)
  <2>2. after = [done |-> dd, now |-> n]
    <3>1. Singles(q) = Append(Singles(y), piece)
      BY SinglesAppend
    <3> QED BY <1>10, <1>12, <2>1, <3>1
  <2>3. e \in Text /\ q \in Text /\ Len(q) = Len(y) + 1 /\ Len(y) \in Nat
    BY TextSeq
  <2>4. n \in Seq(Text)
    <3> HIDE DEF q
    <3> QED BY <2>3, SinglesAre
  <2>5. Append(s, w) = e \o q
    <3>1. Append(x \o y, w) = x \o q
      BY TextAppend
    <3>2. d \o (x \o q) = e \o q
      <4>0. q \in Text
        BY <2>3
      <4> HIDE DEF q, e
      <4>1. (d \o x) \o q = d \o (x \o q)
        BY <4>0, TextAssociative, ZenonT(60)
      <4> USE DEF e
      <4> QED BY <4>1
    <3> QED BY <1>3, <2>1, <3>1, <3>2
  <2>6. Len(r) > MinTokens
    BY <1>2, <1>12
  <2>7. /\ KeptWords(done) \subseteq KeptWords(dd) /\ WordsOf(r) \subseteq KeptWords(dd)
        /\ dd \in Seq(Text)
    <3>1. strip(r) \in Text
      BY StripKeeps
    <3> QED BY <1>0, <1>4, <2>6, <3>1, TailKept
  <2>8. WordsOf(e) \subseteq KeptWords(dd)
    <3>1. WordsOf(d \o x) = WordsOf(d) \union WordsOf(x)
      BY WordsConcat
    <3>2. WordsOf(x \o y) = WordsOf(x) \union WordsOf(y)
      BY WordsConcat
    <3> QED BY <1>1, <2>1, <2>7, <3>1, <3>2
  <2>9. Len(q) > MinTokens
    BY <1>2, <2>1, <2>3
  <2> HIDE DEF e, q, dd, n, piece
  <2>10. WordsMerged(Append(s, w), after)
    BY <1>7, <2>2, <2>3, <2>4, <2>5, <2>7, <2>8, <2>9 DEF n
  <2> QED BY <2>10 DEF after, piece
<1>13. Len(r) < MaxTokens \/ Len(r) >= MaxTokens
  BY <1>2
<1> QED
  BY <1>11, <1>12, <1>13

LEMMA WordsMergedHolds ==
  ASSUME NEW t \in Text
  PROVE  Plain(t) => WordsMerged(t, MergeEnd(Singles(t)))
<1> DEFINE S == {s \in Text : Plain(s) => WordsMerged(s, MergeEnd(Singles(s)))}
<1>1. <<>> \in S
  <2>1. <<>> \in Seq(Text) /\ <<>> \in Text
    BY EmptySeq, TextSeq
  <2>2. MergeEnd(<<>>) = MergeBase /\ MergeBase \in MergeState /\ MergeBase.now = <<>>
    BY <2>1, PiecesFolds, FoldBase DEF MergeBase, MergeState
  <2>3. Singles(<<>>) = <<>> /\ <<>> = <<>> \o <<>>
    BY <2>1, SinglesAre
  <2>4. WordsOf(<<>>) = {}
    BY CrumbsNone DEF WordsOf
  <2>5. WordsMerged(<<>>, MergeBase)
    BY <2>1, <2>2, <2>3, <2>4 DEF WordsMerged
  <2> QED BY <2>1, <2>2, <2>3, <2>5
<1>2. ASSUME NEW s \in Seq(Symbols), NEW w \in Symbols, s \in S PROVE Append(s, w) \in S
  <2> DEFINE v == Append(s, w)
             p == <<w>>
             a == MergeEnd(Singles(s))
             e == MergeEnd(Singles(v))
  <2>1. s \in Text /\ v \in Text /\ p \in Text /\ Len(s) \in Nat
        /\ Len(v) = Len(s) + 1 /\ \A i \in 1..Len(s) : v[i] = s[i]
    BY TextSeq
  <2>2. Singles(v) = Append(Singles(s), p) /\ Singles(s) \in Seq(Text) /\ Append(Singles(s), p) \in Seq(Text)
    BY <2>1, SinglesAppend, SinglesAre
  <2>3. /\ Folded(MergeState, PiecesStep, MergeBase, Singles(s), a)
        /\ Folded(MergeState, PiecesStep, MergeBase, Append(Singles(s), p), e)
    BY <2>2, PiecesFolds
  <2>4. Plain(v) => Plain(s)
    <3>1. \A k \in 2..Len(s) : k \in 2..Len(v) /\ k \in 1..Len(s)
      BY <2>1
    <3> QED BY <2>1, <3>1 DEF Plain
  <2>5. Plain(s) => WordsMerged(s, a)
    BY <1>2
  <2>v. v = Append(s, w) /\ p = <<w>>
    OBVIOUS
  <2> HIDE DEF a, e, S, v, p
  <2>6. a \in MergeState /\ e = PiecesStep[<<a, p>>]
    BY <2>1, <2>2, <2>3, PiecesIsStep, FoldGrows
  <2>7. <<a, p>> \in MergeState \X Text
    BY <2>1, <2>6
  <2>8. e = MergeSplit(a, p)
    BY <2>6, <2>7 DEF PiecesStep
  <2>9. Plain(v) => WordsMerged(v, e)
    BY <2>1, <2>4, <2>5, <2>8, <2>v, WordsMergedGoesOn
  <2> QED BY <2>1, <2>9 DEF S, e, v
<1>3. \A s \in Seq(Symbols) : s \in S
  <2> HIDE DEF S
  <2> QED BY <1>1, <1>2, InductiveSeq
<1> QED
  BY <1>3, TextSeq

\* Of a line that is too long nothing is lost.
LEMMA SplitWordsKeep ==
  ASSUME NEW t \in LinePiece, Len(t) >= MaxTokens
  PROVE  SplitWords(t) \in Seq(Text) /\ WordsOf(t) \subseteq KeptWords(SplitWords(t))
<1> DEFINE ps == Singles(t)
           end == MergeEnd(ps)
           all == Append(end.done, strip(FlattenSeq(end.now)))
<1>1. t \in Text /\ Plain(t)
  BY DEF LinePiece, Plain
<1>2. ps \in Seq(Text)
  BY <1>1, SinglesAre
<1>3. /\ end.done \in Seq(Text) /\ MergeSplits(ps) \in Seq(Text)
      /\ KeptWords(all) \subseteq KeptWords(MergeSplits(ps))
  <2> HIDE DEF ps
  <2> QED BY <1>2, MergeSplitsKeep
<1>4. SplitWords(t) = MergeSplits(ps)
  BY DEF SplitWords, Singles
<1>5. WordsMerged(t, end)
  BY <1>1, WordsMergedHolds
<1>6. PICK d \in Text, r \in Text : /\ t = d \o r /\ end.now = Singles(r)
                                    /\ WordsOf(d) \subseteq KeptWords(end.done)
                                    /\ d = <<>> \/ Len(r) > MinTokens
  BY <1>5 DEF WordsMerged
<1> HIDE DEF end
<1>7. FlattenSeq(end.now) = r
  BY <1>6, SinglesAre
<1>8. Len(r) > MinTokens
  <2>1. d = <<>> => t = r
    BY <1>6, TextConcat, TextSeq
  <2>2. MinTokens \in Nat /\ MaxTokens \in Nat /\ 2 * MinTokens < MaxTokens /\ Len(t) \in Nat
    BY <1>1, ChunkingAssumption, TextSeq
  <2> QED BY <1>6, <2>1, <2>2
<1>9. KeptWords(end.done) \subseteq KeptWords(all) /\ WordsOf(r) \subseteq KeptWords(all)
  <2>1. Plain(d \o r)
    BY <1>1, <1>6
  <2> QED BY <1>3, <1>7, <1>8, <2>1, TailKept
<1>10. WordsOf(t) = WordsOf(d) \union WordsOf(r)
  <2>1. WordsOf(d \o r) = WordsOf(d) \union WordsOf(r)
    BY WordsConcat
  <2> QED BY <1>6, <2>1
<1> HIDE DEF all
<1> QED
  BY <1>3, <1>4, <1>6, <1>9, <1>10

\* The lines of a paragraph so far: of what is cut off only crumbs are lost,
\* and it ends with a word that is kept.
LinesGap(ps, acc) ==
  /\ acc \in [done : Seq(Text), good : Seq(ShortLine)]
  /\ \E d \in Text :
       /\ FlattenSeq(ps) = d \o FlattenSeq(acc.good)
       /\ Crumbs(d, KeptWords(acc.done)) /\ EndsKept(d, KeptWords(acc.done))

LEMMA LinesGapStarts == LinesGap(<<>>, Unsplit)
<1>1. /\ <<>> \in Seq(Text) /\ <<>> \in Seq(ShortLine) /\ FlattenSeq(<<>>) = <<>> /\ <<>> \in Text
      /\ <<>> = <<>> \o <<>>
  BY EmptySeq, TextSeq, FlattenText
<1>2. Unsplit \in [done : Seq(Text), good : Seq(ShortLine)] /\ Unsplit.done = <<>> /\ Unsplit.good = <<>>
  BY <1>1 DEF Unsplit
<1>3. Crumbs(<<>>, KeptWords(<<>>)) /\ EndsKept(<<>>, KeptWords(<<>>))
  BY CrumbsNone
<1> QED
  BY <1>1, <1>2, <1>3 DEF LinesGap

\* What the short lines make follows what is done.
LEMMA LinesGapJoins ==
  ASSUME NEW ps \in Seq(Text), NEW acc, LinesGap(ps, acc)
  PROVE  /\ AllOf(acc) \in Seq(Text)
         /\ Crumbs(FlattenSeq(ps), KeptWords(AllOf(acc)))
<1> DEFINE done == acc.done
           good == acc.good
           more == MergeSplits(good)
           u == FlattenSeq(good)
           K == KeptWords(done)
           L == KeptWords(done \o more)
<1>1. done \in Seq(Text) /\ good \in Seq(ShortLine) /\ good \in Seq(Text)
  BY ShortLines DEF LinesGap
<1>2. PICK d \in Text : FlattenSeq(ps) = d \o u /\ Crumbs(d, K) /\ EndsKept(d, K)
  BY DEF LinesGap
<1>3. AllOf(acc) = done \o more
  BY DEF AllOf
<1> HIDE DEF done, good
<1>4. more \in Seq(Text) /\ u \in Text /\ Crumbs(u, KeptWords(more))
  BY <1>1, MergeSplitsKeep, FlattenText, MergeSplitsCrumbs
<1> HIDE DEF more, u
<1>5. done \o more \in Seq(Text) /\ K \subseteq L /\ KeptWords(more) \subseteq L
  BY <1>1, <1>4, KeptConcat
<1> HIDE DEF K, L
<1>6. Crumbs(d, L) /\ EndsKept(d, L) /\ Crumbs(u, L)
  BY <1>2, <1>4, <1>5, CrumbsMore
<1>7. Crumbs(d \o u, L)
  BY <1>4, <1>6, CrumbsAfter
<1> QED
  BY <1>2, <1>3, <1>5, <1>7 DEF L

LEMMA LinesGapGoesOn ==
  ASSUME NEW ps \in Seq(LinePiece), NEW acc, LinesGap(ps, acc), NEW piece \in LinePiece
  PROVE  LinesGap(Append(ps, piece), Split(acc, piece, SplitWords(piece)))
<1> DEFINE done == acc.done
           good == acc.good
           u == FlattenSeq(good)
           t == FlattenSeq(ps)
           K == KeptWords(done)
           after == Split(acc, piece, SplitWords(piece))
<1>0. acc \in [done : Seq(Text), good : Seq(ShortLine)]
  BY DEF LinesGap
<1>1. done \in Seq(Text) /\ good \in Seq(ShortLine) /\ good \in Seq(Text)
  BY <1>0, ShortLines
<1>2. PICK d \in Text : t = d \o u /\ Crumbs(d, K) /\ EndsKept(d, K)
  BY DEF LinesGap
<1>3. ps \in Seq(Text) /\ piece \in Text /\ Len(piece) \in Nat \ {0} /\ Framed(piece) /\ piece # <<>>
  BY LinesAreText, LineIsFramed
<1>4. FlattenSeq(Append(ps, piece)) = t \o piece /\ t \in Text /\ u \in Text
  BY <1>1, <1>3, FlattenText
<1>5. MaxTokens \in Nat
  BY ChunkingAssumption
<1>6. after = IF Len(piece) < MaxTokens
              THEN [acc EXCEPT !.good = Append(@, piece)]
              ELSE [done |-> AllOf(acc) \o SplitWords(piece), good |-> <<>>]
  BY SplitIs
<1>7. ASSUME NEW e \in Text, NEW dd \in Seq(Text), NEW g \in Seq(ShortLine),
             after = [done |-> dd, good |-> g], t \o piece = e \o FlattenSeq(g),
             Crumbs(e, KeptWords(dd)), EndsKept(e, KeptWords(dd))
      PROVE  LinesGap(Append(ps, piece), after)
  <2> HIDE DEF after, t
  <2>1. after \in [done : Seq(Text), good : Seq(ShortLine)] /\ after.done = dd /\ after.good = g
    BY <1>7
  <2> QED BY <1>4, <1>7, <2>1 DEF LinesGap
<1>8. CASE Len(piece) < MaxTokens
  <2> DEFINE g == Append(good, piece)
  <2>1. after = [done |-> done, good |-> g]
    <3>1. acc = [done |-> done, good |-> good]
      BY <1>0
    <3> HIDE DEF g
    <3>2. [acc EXCEPT !.good = g] = [done |-> done, good |-> g]
      BY <3>1
    <3> QED BY <1>6, <1>8, <3>2 DEF g
  <2>2. piece \in ShortLine
    BY <1>3, <1>5, <1>8 DEF ShortLine, Small
  <2>3. g \in Seq(ShortLine) /\ FlattenSeq(g) = u \o piece
    <3>1. g \in Seq(ShortLine)
      BY <1>1, <2>2
    <3>2. FlattenSeq(g) = u \o piece
      <4> HIDE DEF good
      <4> QED BY <1>1, <1>3, FlattenText
    <3> QED BY <3>1, <3>2
  <2>4. t \o piece = d \o FlattenSeq(g)
    <3>1. (d \o u) \o piece = d \o (u \o piece)
      <4> HIDE DEF u
      <4> QED BY <1>3, <1>4, TextAssociative
    <3> QED BY <1>2, <2>3, <3>1
  <2> HIDE DEF g, after, done, K, t
  <2>5. LinesGap(Append(ps, piece), after)
    BY <1>1, <1>2, <1>7, <2>1, <2>3, <2>4 DEF K
  <2> QED BY <2>5 DEF after
<1>9. CASE ~(Len(piece) < MaxTokens)
  <2> DEFINE all == AllOf(acc)
             deeper == SplitWords(piece)
             dd == all \o deeper
             e == t \o piece
             L == KeptWords(dd)
  <2>1. after = [done |-> dd, good |-> <<>>]
    BY <1>6, <1>9
  <2>2. all \in Seq(Text) /\ Crumbs(t, KeptWords(all))
    BY <1>3, LinesGapJoins
  <2>3. deeper \in Seq(Text) /\ WordsOf(piece) \subseteq KeptWords(deeper)
    BY <1>3, <1>5, <1>9, SplitWordsKeep
  <2> HIDE DEF all, deeper, t
  <2>4. dd \in Seq(Text) /\ KeptWords(all) \subseteq L /\ KeptWords(deeper) \subseteq L
    BY <2>2, <2>3, KeptConcat
  <2> HIDE DEF dd, L
  <2>5. Crumbs(t, L) /\ WordsOf(piece) \subseteq L
    BY <2>2, <2>3, <2>4, CrumbsMore
  <2>6. e \in Text /\ Crumbs(e, L) /\ EndsKept(piece, L)
    BY <1>3, <1>4, <2>5, CrumbsThen, FramedEnds, TextConcat
  <2>7. EndsKept(e, L)
    BY <1>3, <1>4, <2>6, EndsConcat
  <2>8. <<>> \in Seq(ShortLine) /\ FlattenSeq(<<>>) = <<>>
    BY EmptySeq, FlattenText
  <2> HIDE DEF e
  <2>9. e = e \o FlattenSeq(<<>>)
    BY <2>6, <2>8, TextConcat
  <2>10. t \o piece = e \o FlattenSeq(<<>>)
    BY <2>9 DEF e
  <2> HIDE DEF after
  <2>11. LinesGap(Append(ps, piece), after)
    BY <1>7, <2>1, <2>4, <2>6, <2>7, <2>8, <2>10 DEF L
  <2> QED BY <2>11 DEF after
<1> QED
  BY <1>8, <1>9

LEMMA LinesGapHolds ==
  ASSUME NEW ps \in Seq(LinePiece)
  PROVE  LinesGap(ps, LinesEnd(ps))
<1> DEFINE S == {s \in Seq(LinePiece) : LinesGap(s, LinesEnd(s))}
<1>1. <<>> \in S
  <2>1. <<>> \in Seq(Text) /\ <<>> \in Seq(LinePiece)
    BY EmptySeq
  <2>2. LinesEnd(<<>>) = Unsplit
    BY <2>1, LinesFolds, FoldBase
  <2> QED BY <2>1, <2>2, LinesGapStarts
<1>2. ASSUME NEW s \in Seq(LinePiece), NEW p \in LinePiece, s \in S PROVE Append(s, p) \in S
  <2>1. Append(s, p) \in Seq(LinePiece) /\ Append(s, p) \in Seq(Text) /\ s \in Seq(Text) /\ p \in Text
    BY LinesAreText, LineIsFramed
  <2> DEFINE a == LinesEnd(s)
             e == LinesEnd(Append(s, p))
  <2>2. /\ Folded(SplitState, LinesStep, Unsplit, s, a)
        /\ Folded(SplitState, LinesStep, Unsplit, Append(s, p), e)
    BY <2>1, LinesFolds
  <2>3. LinesGap(s, a)
    BY <1>2
  <2> HIDE DEF a, e, S
  <2>4. a \in SplitState /\ e = LinesStep[<<a, p>>]
    BY <2>1, <2>2, LinesIsStep, FoldGrows
  <2>5. <<a, p>> \in SplitState \X Text
    BY <2>1, <2>4
  <2>6. e = Split(a, p, SplitWords(p))
    BY <2>4, <2>5 DEF LinesStep
  <2>7. LinesGap(Append(s, p), e)
    BY <2>3, <2>6, LinesGapGoesOn
  <2> QED BY <2>1, <2>7 DEF S, e
<1>3. \A s \in Seq(LinePiece) : s \in S
  <2> HIDE DEF S
  <2> QED BY <1>1, <1>2, InductiveSeq
<1> QED
  BY <1>3

-----------------------------------------------------------------------------
(***************************************************************************)
(* A paragraph, line by line, and a text, paragraph by paragraph.          *)
(***************************************************************************)
\* The lines of a paragraph are words, behind a line break or a blank line.
Lined(p) == Cuts(p, Line) \in Seq(LinePiece)

LEMMA SplitLinesCrumbs ==
  ASSUME NEW t \in Text
  PROVE  /\ SplitLines(t) \in Seq(Text)
         /\ Lined(t) => Crumbs(t, KeptWords(SplitLines(t)))
<1> DEFINE ps == Cuts(t, Line)
<1>1. SplitLines(t) = AllOf(LinesEnd(ps))
  BY DEF SplitLines, LinesEnd
<1>2. ps \in Seq(Text) /\ FlattenSeq(ps) = t
  BY CutsKeep
<1>3. SplitLines(t) \in Seq(Text)
  BY SplitLinesParts, SmallText DEF Parts
<1>4. Lined(t) => ps \in Seq(LinePiece)
  BY DEF Lined
<1> HIDE DEF ps
<1>5. ASSUME Lined(t) PROVE Crumbs(t, KeptWords(SplitLines(t)))
  <2>1. LinesGap(ps, LinesEnd(ps))
    BY <1>4, <1>5, LinesGapHolds
  <2>2. Crumbs(FlattenSeq(ps), KeptWords(AllOf(LinesEnd(ps))))
    BY <1>2, <2>1, LinesGapJoins
  <2> QED BY <1>1, <1>2, <2>2
<1> QED
  BY <1>3, <1>5

\* The paragraphs of a text so far.
ParasGap(ps, acc) ==
  /\ acc \in [done : Seq(Text), good : Seq(Small)]
  /\ \A p \in ToSet(ps) :
       Lined(p) => Crumbs(p, KeptWords(acc.done)) \/ p \in ToSet(acc.good)

\* What the short paragraphs make follows what is done.
LEMMA ParasGapJoins ==
  ASSUME NEW ps \in Seq(Text), NEW acc, ParasGap(ps, acc)
  PROVE  /\ AllOf(acc) \in Seq(Text)
         /\ \A p \in ToSet(ps) : Lined(p) => Crumbs(p, KeptWords(AllOf(acc)))
<1> DEFINE done == acc.done
           good == acc.good
           more == MergeSplits(good)
<1>1. done \in Seq(Text) /\ good \in Seq(Small) /\ good \in Seq(Text)
  BY SmallText DEF ParasGap
<1>2. \A p \in ToSet(ps) : Lined(p) => Crumbs(p, KeptWords(done)) \/ p \in ToSet(good)
  BY DEF ParasGap
<1>3. AllOf(acc) = done \o more
  BY DEF AllOf
<1> HIDE DEF done, good
<1>4. more \in Seq(Text) /\ \A p \in ToSet(good) : Crumbs(p, KeptWords(more))
  BY <1>1, MergeSplitsKeep, MergeSplitsWhole
<1> HIDE DEF more
<1>5. /\ done \o more \in Seq(Text)
      /\ KeptWords(done) \subseteq KeptWords(done \o more)
      /\ KeptWords(more) \subseteq KeptWords(done \o more)
  BY <1>1, <1>4, KeptConcat
<1>6. ASSUME NEW p \in ToSet(ps), Lined(p)
      PROVE  Crumbs(p, KeptWords(done \o more))
  <2>1. CASE Crumbs(p, KeptWords(done))
    BY <1>5, <2>1, CrumbsMore
  <2>2. CASE p \in ToSet(good)
    BY <1>4, <1>5, <2>2, CrumbsMore
  <2> QED BY <1>2, <1>6, <2>1, <2>2
<1> QED
  BY <1>3, <1>5, <1>6

LEMMA ParasGapGoesOn ==
  ASSUME NEW ps \in Seq(Text), NEW acc, ParasGap(ps, acc), NEW piece \in Text
  PROVE  ParasGap(Append(ps, piece), Split(acc, piece, SplitLines(piece)))
<1> DEFINE done == acc.done
           good == acc.good
           after == Split(acc, piece, SplitLines(piece))
<1>0. acc \in [done : Seq(Text), good : Seq(Small)]
  BY DEF ParasGap
<1>1. done \in Seq(Text) /\ good \in Seq(Small)
  BY <1>0
<1>2. \A p \in ToSet(ps) : Lined(p) => Crumbs(p, KeptWords(done)) \/ p \in ToSet(good)
  BY DEF ParasGap
<1>3. ToSet(Append(ps, piece)) = ToSet(ps) \union {piece} /\ Len(piece) \in Nat
  BY ToSetAppend, TextSeq
<1>4. MaxTokens \in Nat
  BY ChunkingAssumption
<1>5. after = IF Len(piece) < MaxTokens
              THEN [acc EXCEPT !.good = Append(@, piece)]
              ELSE [done |-> AllOf(acc) \o SplitLines(piece), good |-> <<>>]
  BY SplitIs
<1>6. ASSUME NEW dd \in Seq(Text), NEW g \in Seq(Small), after = [done |-> dd, good |-> g],
             \A p \in ToSet(ps) \union {piece} :
               Lined(p) => Crumbs(p, KeptWords(dd)) \/ p \in ToSet(g)
      PROVE  ParasGap(Append(ps, piece), after)
  <2> HIDE DEF after
  <2>1. after \in [done : Seq(Text), good : Seq(Small)] /\ after.done = dd /\ after.good = g
    BY <1>6
  <2> QED BY <1>3, <1>6, <2>1 DEF ParasGap
<1>7. CASE Len(piece) < MaxTokens
  <2> DEFINE g == Append(good, piece)
  <2>1. after = [done |-> done, good |-> g]
    <3>1. acc = [done |-> done, good |-> good]
      BY <1>0
    <3> HIDE DEF g
    <3>2. [acc EXCEPT !.good = g] = [done |-> done, good |-> g]
      BY <3>1
    <3> QED BY <1>5, <1>7, <3>2 DEF g
  <2>2. piece \in Small
    BY <1>3, <1>4, <1>7 DEF Small
  <2>3. g \in Seq(Small) /\ ToSet(g) = ToSet(good) \union {piece}
    BY <1>1, <2>2, ToSetAppend
  <2> HIDE DEF g, after, done, good
  <2>4. ParasGap(Append(ps, piece), after)
    BY <1>1, <1>2, <1>6, <2>1, <2>3
  <2> QED BY <2>4 DEF after
<1>8. CASE ~(Len(piece) < MaxTokens)
  <2> DEFINE all == AllOf(acc)
             deeper == SplitLines(piece)
             dd == all \o deeper
  <2>1. after = [done |-> dd, good |-> <<>>]
    BY <1>5, <1>8
  <2>2. /\ all \in Seq(Text)
        /\ \A p \in ToSet(ps) : Lined(p) => Crumbs(p, KeptWords(all))
    BY ParasGapJoins
  <2>3. deeper \in Seq(Text) /\ (Lined(piece) => Crumbs(piece, KeptWords(deeper)))
    BY SplitLinesCrumbs
  <2> HIDE DEF all, deeper
  <2>4. dd \in Seq(Text) /\ KeptWords(all) \subseteq KeptWords(dd)
        /\ KeptWords(deeper) \subseteq KeptWords(dd)
    BY <2>2, <2>3, KeptConcat
  <2> HIDE DEF dd
  <2>5. \A p \in ToSet(ps) \union {piece} : Lined(p) => Crumbs(p, KeptWords(dd))
    BY <2>2, <2>3, <2>4, CrumbsMore
  <2>6. <<>> \in Seq(Small)
    BY EmptySeq
  <2> HIDE DEF after
  <2>7. ParasGap(Append(ps, piece), after)
    BY <1>6, <2>1, <2>4, <2>5, <2>6
  <2> QED BY <2>7 DEF after
<1> QED
  BY <1>7, <1>8

LEMMA ParasGapHolds ==
  ASSUME NEW ps \in Seq(Text)
  PROVE  ParasGap(ps, ParasEnd(ps))
<1> DEFINE S == {s \in Seq(Text) : ParasGap(s, ParasEnd(s))}
<1>1. <<>> \in S
  <2>1. <<>> \in Seq(Text) /\ <<>> \in Seq(Small)
    BY EmptySeq
  <2>2. ParasEnd(<<>>) = Unsplit /\ ToSet(<<>>) = {}
    BY <2>1, ParasFolds, FoldBase, ToSetType
  <2>3. Unsplit \in [done : Seq(Text), good : Seq(Small)]
    BY <2>1 DEF Unsplit
  <2> QED BY <2>1, <2>2, <2>3 DEF ParasGap
<1>2. ASSUME NEW s \in Seq(Text), NEW p \in Text, s \in S PROVE Append(s, p) \in S
  <2>1. Append(s, p) \in Seq(Text)
    OBVIOUS
  <2> DEFINE a == ParasEnd(s)
             e == ParasEnd(Append(s, p))
  <2>2. /\ Folded(SplitState, ParasStep, Unsplit, s, a)
        /\ Folded(SplitState, ParasStep, Unsplit, Append(s, p), e)
    BY <2>1, ParasFolds
  <2>3. ParasGap(s, a)
    BY <1>2
  <2> HIDE DEF a, e, S
  <2>4. a \in SplitState /\ e = ParasStep[<<a, p>>]
    BY <2>1, <2>2, ParasIsStep, FoldGrows
  <2>5. <<a, p>> \in SplitState \X Text
    BY <2>1, <2>4
  <2>6. e = Split(a, p, SplitLines(p))
    BY <2>4, <2>5 DEF ParasStep
  <2>7. ParasGap(Append(s, p), e)
    BY <2>3, <2>6, ParasGapGoesOn
  <2> QED BY <2>1, <2>7 DEF S, e
<1>3. \A s \in Seq(Text) : s \in S
  <2> HIDE DEF S
  <2> QED BY <1>1, <1>2, InductiveSeq
<1> QED
  BY <1>3

\* Of every paragraph of a text only crumbs are lost.
LEMMA split_textCrumbs ==
  ASSUME NEW t \in Text
  PROVE  /\ split_text(t) \in Seq(Small)
         /\ \A p \in ToSet(Cuts(t, Para)) :
              Lined(p) => Crumbs(p, KeptWords(split_text(t)))
<1> DEFINE ps == Cuts(t, Para)
<1>1. split_text(t) = AllOf(ParasEnd(ps))
  BY DEF split_text, ParasEnd
<1>2. ps \in Seq(Text)
  BY CutsKeep
<1>3. split_text(t) \in Seq(Small)
  BY split_textParts DEF Parts
<1> HIDE DEF ps
<1>4. ParasGap(ps, ParasEnd(ps))
  BY <1>2, ParasGapHolds
<1>5. \A p \in ToSet(ps) : Lined(p) => Crumbs(p, KeptWords(AllOf(ParasEnd(ps))))
  BY <1>2, <1>4, ParasGapJoins
<1> QED
  BY <1>1, <1>3, <1>5 DEF ps

-----------------------------------------------------------------------------
(***************************************************************************)
(* The text of a page is made of such lines, and is a paragraph of the     *)
(* text of its window.                                                     *)
(***************************************************************************)
LEMMA CutsGrows ==
  ASSUME NEW sep
  PROVE  /\ Cuts(<<>>, sep) = <<>>
         /\ \A t \in Text, w \in Symbols :
              Cuts(Append(t, w), sep) = CutsInto(Cuts(t, sep), w, sep)
<1>1. Cuts(<<>>, sep) = <<>>
  <2>1. <<>> \in Seq(Symbols)
    BY EmptySeq
  <2> QED BY <2>1, CutsFolds, FoldBase
<1>2. ASSUME NEW t \in Text, NEW w \in Symbols
      PROVE  Cuts(Append(t, w), sep) = CutsInto(Cuts(t, sep), w, sep)
  <2> DEFINE a == Cuts(t, sep)
             e == Cuts(Append(t, w), sep)
  <2>1. t \in Seq(Symbols) /\ Append(t, w) \in Seq(Symbols)
    BY TextSeq
  <2>2. /\ Folded(Seq(Text), CutsStep(sep), <<>>, t, a)
        /\ Folded(Seq(Text), CutsStep(sep), <<>>, Append(t, w), e)
    BY <2>1, CutsFolds
  <2> HIDE DEF a, e
  <2>3. a \in Seq(Text) /\ e = CutsStep(sep)[<<a, w>>]
    BY <2>1, <2>2, CutsIsStep, FoldGrows
  <2>4. <<a, w>> \in Seq(Text) \X Symbols
    BY <2>3
  <2>5. e = CutsInto(a, w, sep)
    BY <2>3, <2>4 DEF CutsStep
  <2> QED BY <2>5 DEF a, e
<1> QED
  BY <1>1, <1>2

\* A separator begins a piece that goes on up to the next.
LEMMA CutsJoin ==
  ASSUME NEW sep \in Symbols, NEW x \in Text, NEW b \in Text
  PROVE  (\A i \in 1..Len(b) : b[i] # sep)
           => Cuts(x \o (<<sep>> \o b), sep) = Append(Cuts(x, sep), <<sep>> \o b)
<1> DEFINE p == <<sep>>
           C == Cuts(x, sep)
           Free(s) == \A i \in 1..Len(s) : s[i] # sep
           S == {s \in Text : Free(s) => Cuts(x \o (p \o s), sep) = Append(C, p \o s)}
<1>0. p \in Text /\ C \in Seq(Text)
  BY TextSeq, CutsKeep
<1>1. <<>> \in S
  <2>1. <<>> \in Text /\ p \o <<>> = p
    BY <1>0, TextSeq, TextConcat
  <2>2. x \o p = Append(x, sep)
    BY TextSeq, AppendIsConcat
  <2>3. Cuts(Append(x, sep), sep) = CutsInto(C, sep, sep)
    BY CutsGrows
  <2>4. CutsInto(C, sep, sep) = Append(C, p)
    BY DEF CutsInto
  <2> HIDE DEF p, C
  <2> QED BY <2>1, <2>2, <2>3, <2>4
<1>2. ASSUME NEW s \in Seq(Symbols), NEW w \in Symbols, s \in S PROVE Append(s, w) \in S
  <2> DEFINE v == Append(s, w)
             q == p \o s
  <2>1. s \in Text /\ v \in Text /\ Len(v) = Len(s) + 1 /\ Len(s) \in Nat /\ v[Len(s) + 1] = w
        /\ \A i \in 1..Len(s) : v[i] = s[i]
    BY TextSeq
  <2> SUFFICES ASSUME Free(v) PROVE Cuts(x \o (p \o v), sep) = Append(C, p \o v)
    BY <2>1
  <2>2. w # sep /\ Free(s)
    BY <2>1
  <2>3. Cuts(x \o q, sep) = Append(C, q)
    BY <1>2, <2>2
  <2>4. q \in Text /\ x \o q \in Text
    <3> HIDE DEF p
    <3>1. q \in Text
      BY <1>0, <2>1, TextConcat
    <3> HIDE DEF q
    <3> QED BY <3>1, TextConcat
  <2>5. p \o v = Append(q, w) /\ x \o Append(q, w) = Append(x \o q, w)
    <3> HIDE DEF p
    <3>1. p \o v = Append(q, w)
      BY <1>0, <2>1, TextAppend
    <3> HIDE DEF q
    <3>2. x \o Append(q, w) = Append(x \o q, w)
      BY <2>4, TextAppend
    <3> QED BY <3>1, <3>2
  <2>6. Cuts(Append(x \o q, w), sep) = CutsInto(Cuts(x \o q, sep), w, sep)
    <3> DEFINE t == x \o q
    <3>1. t \in Text
      BY <2>4
    <3> HIDE DEF t
    <3>2. Cuts(Append(t, w), sep) = CutsInto(Cuts(t, sep), w, sep)
      BY <3>1, CutsGrows
    <3> QED BY <3>2 DEF t
  <2> HIDE DEF C, q, p, v, S, Free
  <2>7. CutsInto(Append(C, q), w, sep) = Append(C, Append(q, w))
    <3>1. Append(C, q) # <<>> /\ Front(Append(C, q)) = C /\ Last(Append(C, q)) = q
      <4> DEFINE e == Append(C, q)
      <4>1. e \in Seq(Text) /\ Len(e) = Len(C) + 1 /\ Len(C) \in Nat /\ e[Len(C) + 1] = q
            /\ \A i \in 1..Len(C) : e[i] = C[i]
        BY <1>0, <2>4
      <4> HIDE DEF e
      <4>2. e # <<>>
        <5>1. Len(<<>>) = 0
          OBVIOUS
        <5> QED BY <4>1, <5>1
      <4>3. /\ Front(e) \in Seq(Text) /\ Last(e) \in Text /\ e = Append(Front(e), Last(e))
        BY <4>1, <4>2, FrontLast
      <4> DEFINE f == Front(e)
                 l == Last(e)
      <4> HIDE DEF f, l
      <4>4. f \in Seq(Text) /\ l \in Text /\ e = Append(f, l)
        BY <4>3 DEF f, l
      <4>5. /\ Len(e) = Len(f) + 1 /\ Len(f) \in Nat /\ e[Len(f) + 1] = l
            /\ \A i \in 1..Len(f) : e[i] = f[i]
        BY <4>4
      <4>6. Len(f) = Len(C)
        BY <4>1, <4>5
      <4>7. l = q /\ \A i \in 1..Len(C) : f[i] = C[i]
        BY <4>1, <4>5, <4>6
      <4>8. f = C
        BY <1>0, <4>4, <4>6, <4>7, SeqEqual
      <4> QED BY <4>2, <4>7, <4>8 DEF f, l, e
    <3> QED BY <2>2, <3>1 DEF CutsInto
  <2> QED BY <2>3, <2>5, <2>6, <2>7
<1>3. \A s \in Seq(Symbols) : s \in S
  <2> HIDE DEF S
  <2> QED BY <1>1, <1>2, InductiveSeq
<1> QED
  BY <1>3, TextSeq

\* A text with no separator but at its first word is one piece.
LEMMA CutsOne ==
  ASSUME NEW sep, NEW b \in Text
  PROVE  b # <<>> /\ (\A i \in 2..Len(b) : b[i] # sep) => Cuts(b, sep) = <<b>>
<1> DEFINE Free(s) == \A i \in 2..Len(s) : s[i] # sep
           S == {s \in Text : s # <<>> /\ Free(s) => Cuts(s, sep) = <<s>>}
<1>1. <<>> \in S
  BY TextSeq
<1>2. ASSUME NEW s \in Seq(Symbols), NEW w \in Symbols, s \in S PROVE Append(s, w) \in S
  <2> DEFINE v == Append(s, w)
  <2>1. s \in Text /\ v \in Text /\ Len(v) = Len(s) + 1 /\ Len(s) \in Nat /\ v[Len(s) + 1] = w
        /\ \A i \in 1..Len(s) : v[i] = s[i]
    BY TextSeq
  <2> SUFFICES ASSUME Free(v) PROVE Cuts(v, sep) = <<v>>
    BY <2>1
  <2>2. Cuts(v, sep) = CutsInto(Cuts(s, sep), w, sep)
    BY <2>1, CutsGrows
  <2>3. CASE s = <<>>
    <3>1. Cuts(s, sep) = <<>>
      BY <2>3, CutsGrows
    <3>2. CutsInto(<<>>, w, sep) = Append(<<>>, <<w>>)
      BY DEF CutsInto
    <3>3. Append(<<>>, <<w>>) = << <<w>> >> /\ v = <<w>>
      BY <2>3
    <3> QED BY <2>2, <3>1, <3>2, <3>3
  <2>4. CASE s # <<>>
    <3>1. Len(s) # 0
      BY <2>1, <2>4, EmptySeq
    <3>2. w # sep /\ Free(s)
      <4>1. Len(s) + 1 \in 2..Len(v) /\ \A i \in 2..Len(s) : i \in 2..Len(v) /\ i \in 1..Len(s)
        BY <2>1, <3>1
      <4> QED BY <2>1, <4>1
    <3>3. Cuts(s, sep) = <<s>>
      BY <1>2, <2>4, <3>2
    <3>4. /\ <<s>> # <<>> /\ Front(<<s>>) = <<>> /\ Last(<<s>>) = s
      BY DEF Front, Last
    <3>5. CutsInto(<<s>>, w, sep) = Append(<<>>, Append(s, w))
      BY <3>2, <3>4 DEF CutsInto
    <3>6. Append(<<>>, v) = <<v>>
      OBVIOUS
    <3> QED BY <2>2, <3>3, <3>5, <3>6
  <2> QED BY <2>3, <2>4
<1>3. \A s \in Seq(Symbols) : s \in S
  <2> HIDE DEF S
  <2> QED BY <1>1, <1>2, InductiveSeq
<1> QED
  BY <1>3, TextSeq

\* A block with anything left of it.
Sentence == Seq(Words) \ {<<>>}

LEMMA SentenceType ==
  ASSUME NEW t \in Sentence
  PROVE  /\ t \in Text /\ Len(t) \in Nat \ {0}
         /\ \A i \in 1..Len(t) : t[i] \in Words /\ t[i] \notin Blank
<1>1. Words \subseteq Symbols /\ Words \intersect Blank = {}
  BY DocumentsAssumption DEF Symbols, Blank
<1>2. t \in Seq(Words) /\ t # <<>>
  BY DEF Sentence
<1>3. t \in Text
  BY <1>1, <1>2, SeqMonotonic, TextSeq
<1>4. Len(t) \in Nat \ {0} /\ \A i \in 1..Len(t) : t[i] \in Words
  BY <1>2, EmptySeq
<1> QED
  BY <1>1, <1>3, <1>4

LEMMA HeadPiece ==
  ASSUME NEW a \in Text, Len(a) <= 1, NEW t \in Sentence
  PROVE  /\ a \o t \in LinePiece
         /\ a \o t \in Text /\ a \o t # <<>>
         /\ \A i \in 2..Len(a \o t) : (a \o t)[i] \notin Blank
<1> DEFINE z == a \o t
<1>1. /\ t \in Text /\ Len(t) \in Nat \ {0}
      /\ \A i \in 1..Len(t) : t[i] \notin Blank
  BY SentenceType
<1>2. /\ Len(a) \in Nat /\ z \in Text /\ Len(z) = Len(a) + Len(t)
      /\ \A i \in 1..Len(t) : z[Len(a) + i] = t[i]
  BY <1>1, ConcatWords
<1> HIDE DEF z
<1>3. ASSUME NEW i \in (Len(a) + 1)..Len(z) PROVE z[i] \notin Blank
  <2>1. i - Len(a) \in 1..Len(t) /\ Len(a) + (i - Len(a)) = i
    BY <1>1, <1>2
  <2> QED BY <1>1, <1>2, <2>1
<1>4. Len(z) \in (Len(a) + 1)..Len(z) /\ \A i \in 2..Len(z) : i \in (Len(a) + 1)..Len(z)
  BY <1>1, <1>2
<1>5. z # <<>>
  <2>1. Len(<<>>) = 0
    OBVIOUS
  <2> QED BY <1>1, <1>2, <2>1
<1>6. z \in LinePiece
  BY <1>2, <1>3, <1>4, <1>5 DEF LinePiece
<1> QED
  BY <1>2, <1>3, <1>4, <1>5, <1>6 DEF z

\* What stands before a page in its window: nothing, or a blank line.
Before == {<<>>, <<Para>>}
\* The text of a page.
PageText(y) ==
  /\ y \in Text /\ \A i \in 1..Len(y) : y[i] # Para
  /\ y # <<>> => \A pre \in Before : Lined(pre \o y)

LEMMA BeforeType ==
  /\ Before \subseteq Text /\ \A pre \in Before : Len(pre) <= 1
<1>1. <<>> \in Text /\ <<Para>> \in Text /\ Len(<<>>) = 0 /\ Len(<<Para>>) = 1
  BY TextSeq, ParaSymbol
<1> QED
  BY <1>1 DEF Before

LEMMA BlocksJoined ==
  ASSUME NEW ts \in Seq(Sentence)
  PROVE  PageText(Joined(ts, Line))
<1> DEFINE J(s) == Joined(s, Line)
           S == {s \in Seq(Sentence) : PageText(J(s))}
<1>0. Line \in Symbols /\ Line # Para /\ Line \in Blank
  BY LineSymbol, DocumentsAssumption DEF Blank
<1>1. <<>> \in S
  <2>1. <<>> \in Seq(Sentence)
    BY EmptySeq
  <2>2. J(<<>>) = <<>>
    BY <1>0, JoinedGrows
  <2>3. PageText(<<>>)
    BY TextSeq DEF PageText
  <2> QED BY <2>1, <2>2, <2>3
<1>2. ASSUME NEW s \in Seq(Sentence), NEW t \in Sentence, s \in S PROVE Append(s, t) \in S
  <2> DEFINE y == J(s)
             z == J(Append(s, t))
             line == <<Line>>
  <2>1. /\ t \in Text /\ Len(t) \in Nat \ {0}
        /\ \A i \in 1..Len(t) : t[i] \in Words /\ t[i] \notin Blank
    BY SentenceType
  <2>2. s \in Seq(Text) /\ Append(s, t) \in Seq(Sentence)
    <3>1. Sentence \subseteq Text
      BY SentenceType
    <3> QED BY <3>1, SeqMonotonic
  <2>3. z = IF y = <<>> THEN t ELSE y \o line \o t
    BY <1>0, <2>1, <2>2, JoinedGrows
  <2>4. PageText(y)
    BY <1>2
  <2>5. line \in Text /\ Len(line) = 1 /\ line[1] = Line
    BY <1>0, TextSeq
  <2>line. line = <<Line>>
    OBVIOUS
  <2> HIDE DEF y, z, line, S
  <2>6. y \in Text /\ \A i \in 1..Len(y) : y[i] # Para
    BY <2>4 DEF PageText
  <2>7. CASE y = <<>>
    <3>1. z = t
      BY <2>3, <2>7
    <3>2. \A i \in 1..Len(t) : t[i] # Para
      BY <2>1 DEF Blank
    <3>3. ASSUME NEW pre \in Before PROVE Lined(pre \o t)
      <4> DEFINE v == pre \o t
      <4>1. pre \in Text /\ Len(pre) <= 1
        BY BeforeType
      <4>2. v \in LinePiece /\ v \in Text /\ v # <<>> /\ \A i \in 2..Len(v) : v[i] \notin Blank
        BY <4>1, HeadPiece
      <4> HIDE DEF v
      <4>3. Cuts(v, Line) = <<v>>
        BY <1>0, <4>2, CutsOne
      <4>4. <<v>> \in Seq(LinePiece)
        BY <4>2
      <4>5. Lined(v)
        BY <4>3, <4>4 DEF Lined
      <4> QED BY <4>5 DEF v
    <3>4. PageText(z)
      BY <2>1, <3>1, <3>2, <3>3 DEF PageText
    <3> QED BY <2>2, <3>4 DEF S, z
  <2>8. CASE y # <<>>
    <3> DEFINE q == line \o t
    <3>1. q \in LinePiece /\ q \in Text
      <4>1. line \in Text /\ Len(line) <= 1
        BY <2>5
      <4>2. line \o t \in LinePiece /\ line \o t \in Text
        BY <4>1, HeadPiece
      <4> QED BY <4>2
    <3>2. z = y \o q
      <4>1. (y \o line) \o t = y \o (line \o t)
        BY <2>1, <2>5, <2>6, TextAssociative
      <4> QED BY <2>3, <2>8, <4>1
    <3>3. \A i \in 1..Len(q) : q[i] # Para
      <4>1. /\ Len(q) = Len(line) + Len(t) /\ \A i \in 1..Len(line) : q[i] = line[i]
            /\ \A i \in 1..Len(t) : q[Len(line) + i] = t[i]
        BY <2>1, <2>5, ConcatWords
      <4>2. \A i \in 1..Len(t) : t[i] # Para
        BY <2>1 DEF Blank
      <4> HIDE DEF q
      <4>3. ASSUME NEW i \in 1..Len(q) PROVE q[i] # Para
        <5>1. i \in 1..Len(line) \/ (i - 1 \in 1..Len(t) /\ Len(line) + (i - 1) = i)
          BY <2>1, <2>5, <4>1
        <5>2. CASE i \in 1..Len(line)
          BY <1>0, <2>5, <4>1, <5>2
        <5>3. CASE i - 1 \in 1..Len(t) /\ Len(line) + (i - 1) = i
          BY <4>1, <4>2, <5>3
        <5> QED BY <5>1, <5>2, <5>3
      <4> QED BY <4>3
    <3> HIDE DEF q
    <3>4. /\ z \in Text /\ Len(z) = Len(y) + Len(q) /\ Len(y) \in Nat /\ Len(q) \in Nat
          /\ \A i \in 1..Len(y) : z[i] = y[i]
          /\ \A i \in 1..Len(q) : z[Len(y) + i] = q[i]
      BY <2>6, <3>1, <3>2, ConcatWords
    <3>5. ASSUME NEW i \in 1..Len(z) PROVE z[i] # Para
      <4>1. i \in 1..Len(y) \/ (i - Len(y) \in 1..Len(q) /\ Len(y) + (i - Len(y)) = i)
        BY <3>4
      <4>2. CASE i \in 1..Len(y)
        BY <2>6, <3>4, <4>2
      <4>3. CASE i - Len(y) \in 1..Len(q) /\ Len(y) + (i - Len(y)) = i
        BY <3>3, <3>4, <4>3
      <4> QED BY <4>1, <4>2, <4>3
    <3>6. ASSUME NEW pre \in Before PROVE Lined(pre \o z)
      <4> DEFINE v == pre \o y
      <4>1. pre \in Text
        BY BeforeType
      <4>2. v \in Text /\ pre \o z = v \o q
        <5>1. v \in Text
          BY <2>6, <4>1, TextConcat
        <5>2. (pre \o y) \o q = pre \o (y \o q)
          BY <2>6, <3>1, <4>1, TextAssociative
        <5> QED BY <3>2, <5>1, <5>2
      <4>3. Lined(v)
        BY <2>4, <2>8 DEF PageText
      <4> HIDE DEF v
      <4>4. Cuts(v \o (<<Line>> \o t), Line) = Append(Cuts(v, Line), <<Line>> \o t)
        <5>1. \A i \in 1..Len(t) : t[i] # Line
          BY <2>1 DEF Blank
        <5> QED BY <1>0, <2>1, <4>2, <5>1, CutsJoin
      <4>5. Cuts(v \o q, Line) = Append(Cuts(v, Line), q)
        BY <4>4, <2>line DEF q
      <4>6. Append(Cuts(v, Line), q) \in Seq(LinePiece)
        BY <3>1, <4>3 DEF Lined
      <4>7. Lined(v \o q)
        BY <4>5, <4>6 DEF Lined
      <4> QED BY <4>2, <4>7
    <3>7. PageText(z)
      BY <3>4, <3>5, <3>6 DEF PageText
    <3> QED BY <2>2, <3>7 DEF S, z
  <2> QED BY <2>7, <2>8
<1>3. \A s \in Seq(Sentence) : s \in S
  <2> HIDE DEF S
  <2> QED BY <1>1, <1>2, InductiveSeq
<1> QED
  BY <1>3

LEMMA CleanIsText ==
  ASSUME NEW blocks \in Seq(Seq(Words))
  PROVE  PageText(clean_and_format_text(blocks))
<1> DEFINE cleaned == [i \in DOMAIN blocks |-> Without(blocks[i], {Markup})]
           ts == Without(cleaned, {<<>>})
<1>1. cleaned \in Seq(Seq(Words))
  <2>1. DOMAIN blocks = 1..Len(blocks) /\ Len(blocks) \in Nat
    OBVIOUS
  <2>2. ASSUME NEW i \in DOMAIN blocks PROVE Without(blocks[i], {Markup}) \in Seq(Words)
    <3>1. blocks[i] \in Seq(Words)
      OBVIOUS
    <3> QED BY <3>1, WithoutType
  <2>3. cleaned = [i \in 1..Len(blocks) |-> cleaned[i]]
        /\ \A i \in 1..Len(blocks) : cleaned[i] \in Seq(Words)
    BY <2>1, <2>2
  <2> HIDE DEF cleaned
  <2>4. cleaned \in [1..Len(blocks) -> Seq(Words)]
    BY <2>3
  <2>5. PICK n \in Nat : n = Len(blocks)
    BY <2>1
  <2>6. cleaned \in [1..n -> Seq(Words)]
    BY <2>4, <2>5
  <2> QED BY <2>6, SeqDef
<1>2. clean_and_format_text(blocks) = Joined(ts, Line)
  BY DEF clean_and_format_text
<1> HIDE DEF cleaned
<1>3. ts \in Seq(Seq(Words)) /\ ToSet(ts) = ToSet(cleaned) \ {<<>>}
  BY <1>1, WithoutType, WithoutSet
<1> HIDE DEF ts
<1>4. ts \in Seq(Sentence)
  <2>1. Len(ts) \in Nat /\ ts \in [1..Len(ts) -> Seq(Words)] /\ DOMAIN ts = 1..Len(ts)
    BY <1>3
  <2>2. \A i \in 1..Len(ts) : ts[i] \in ToSet(ts)
    BY <2>1 DEF ToSet
  <2>3. \A i \in 1..Len(ts) : ts[i] \in Sentence
    BY <1>3, <2>1, <2>2 DEF Sentence
  <2>4. PICK n \in Nat : n = Len(ts)
    BY <2>1
  <2>5. ts \in [1..n -> Sentence]
    BY <2>1, <2>3, <2>4
  <2> QED BY <2>5, SeqDef
<1> QED
  BY <1>2, <1>4, BlocksJoined

CleanPage(p) == clean_and_format_text(doc[p])

\* A page of the window stands in its text, as a paragraph of it.
StandsAt(built, o) ==
  LET y == CleanPage(o.page)
  IN  /\ o.page \in Pages /\ y # <<>> /\ o.first \in Nat \ {0}
      /\ At(y, built.text, o.first - 1) /\ o.last = o.first - 1 + Len(y)
      /\ \E pre \in Before : pre \o y \in ToSet(Cuts(built.text, Para))

PagesStand(built, s) ==
  /\ built \in BuildState
  /\ \A o \in ToSet(built.offsets) : StandsAt(built, o)
  /\ \A p \in ToSet(s) :
       CleanPage(p) # <<>> => \E o \in ToSet(built.offsets) : o.page = p

LEMMA CleanPageIs ==
  ASSUME doc \in Documents, NEW p \in Pages
  PROVE  PageText(CleanPage(p))
<1>1. doc \in Seq(Seq(Seq(Words)))
  BY DocumentsAssumption
<1>2. doc[p] \in Seq(Seq(Words))
  BY <1>1 DEF Pages
<1> QED
  BY <1>2, CleanIsText DEF CleanPage

\* The text of the next page, behind the others.
LEMMA ParaJoins ==
  ASSUME NEW x \in Text, NEW y \in Text, \A i \in 1..Len(y) : y[i] # Para
  PROVE  LET t == (x \o <<Para>>) \o y
         IN  /\ t = x \o (<<Para>> \o y) /\ t \in Text
             /\ At(y, t, Len(t) - Len(y)) /\ At(x, t, 0) /\ Len(t) - Len(y) \in Nat
             /\ ToSet(Cuts(t, Para)) = ToSet(Cuts(x, Para)) \union {<<Para>> \o y}
<1> DEFINE p == <<Para>>
           q == p \o y
           xp == x \o p
           t == xp \o y
<1>1. p \in Text /\ Para \in Symbols
  BY ParaSymbol
<1>2. Cuts(x \o (<<Para>> \o y), Para) = Append(Cuts(x, Para), <<Para>> \o y)
  BY <1>1, CutsJoin
<1>3. Cuts(x \o q, Para) = Append(Cuts(x, Para), q)
  BY <1>2
<1> HIDE DEF p
<1>4. q \in Text /\ xp \in Text /\ t = x \o q
  <2>1. p \o y \in Text
    BY <1>1, TextConcat
  <2>2. x \o p \in Text
    BY <1>1, TextConcat
  <2>3. (x \o p) \o y = x \o (p \o y)
    BY <1>1, TextAssociative
  <2> QED BY <2>1, <2>2, <2>3
<1> HIDE DEF q, xp
<1>5. t \in Text /\ Len(t) = Len(xp) + Len(y) /\ Len(xp) \in Nat /\ Len(y) \in Nat
  BY <1>4, TextConcat
<1>6. At(y, xp \o y, Len(xp)) /\ At(x, x \o q, 0)
  BY <1>4, AtSides
<1>7. Len(t) - Len(y) = Len(xp)
  BY <1>5
<1>8. Cuts(x, Para) \in Seq(Text)
  BY CutsKeep
<1>9. ToSet(Append(Cuts(x, Para), q)) = ToSet(Cuts(x, Para)) \union {q}
  BY <1>4, <1>8, ToSetAppend
<1> HIDE DEF t
<1>10. /\ t = x \o q /\ t \in Text /\ At(y, t, Len(t) - Len(y)) /\ At(x, t, 0)
       /\ Len(t) - Len(y) \in Nat
       /\ ToSet(Cuts(t, Para)) = ToSet(Cuts(x, Para)) \union {q}
  BY <1>3, <1>4, <1>5, <1>6, <1>7, <1>9 DEF t
<1> QED
  BY <1>10 DEF t, xp, q, p

LEMMA PagesStandGoOn ==
  ASSUME doc \in Documents, NEW s \in Seq(Pages), NEW acc, PagesStand(acc, s),
         NEW page \in Pages
  PROVE  PagesStand(BuildPage(acc, page), Append(s, page))
<1> DEFINE x == acc.text
           y == CleanPage(page)
           t == Joined(<<x, y>>, Para)
           o == [page |-> page, first |-> Len(t) - Len(y) + 1, last |-> Len(t)]
           os == Append(acc.offsets, o)
           after == BuildPage(acc, page)
<1>1. acc \in BuildState /\ x \in Text /\ acc.offsets \in Seq(Offset)
  BY DEF PagesStand, BuildState
<1>2. y \in Text /\ \A i \in 1..Len(y) : y[i] # Para
  BY CleanPageIs DEF PageText
<1>3. after = IF y = <<>> THEN acc ELSE [text |-> t, offsets |-> os]
  BY DEF BuildPage, CleanPage
<1>4. /\ t \in Text
      /\ x = <<>> => t = y
      /\ x # <<>> => t = (x \o <<Para>>) \o y
  BY <1>1, <1>2, JoinedTwo
<1>5. ToSet(Append(s, page)) = ToSet(s) \union {page}
  BY ToSetAppend
<1>6. after \in BuildState
  BY <1>1, BuildAdds
<1>o. /\ o.page = page /\ o.first = Len(t) - Len(y) + 1 /\ o.last = Len(t)
      /\ y = CleanPage(page)
  OBVIOUS
<1> HIDE DEF x, y, t, o, after
<1>7. CASE y = <<>>
  <2>1. after = acc
    BY <1>3, <1>7
  <2>2. ASSUME NEW p \in ToSet(Append(s, page)), CleanPage(p) # <<>>
        PROVE  \E q \in ToSet(acc.offsets) : q.page = p
    <3>1. p \in ToSet(s)
      BY <1>5, <1>7, <2>2, <1>o
    <3> QED BY <2>2, <3>1 DEF PagesStand
  <2>3. PagesStand(acc, Append(s, page))
    BY <2>2 DEF PagesStand
  <2> QED BY <2>1, <2>3 DEF after
<1>8. CASE y # <<>>
  <2>1. after = [text |-> t, offsets |-> os]
    BY <1>3, <1>8
  <2>2. after.text = t /\ after.offsets = os
    BY <2>1
  <2>3. o \in Offset
    <3>1. os \in Seq(Offset)
      BY <1>6, <2>2 DEF BuildState
    <3>2. os[Len(os)] = o /\ Len(os) \in 1..Len(os)
      BY <1>1
    <3> HIDE DEF os
    <3> QED BY <3>1, <3>2
  <2>4. ToSet(os) = ToSet(acc.offsets) \union {o}
    BY <1>1, <2>3, ToSetAppend
  <2> HIDE DEF os
  <2>5. Len(y) \in Nat \ {0} /\ Len(x) \in Nat /\ Len(t) \in Nat
    BY <1>1, <1>2, <1>4, <1>8, TextSeq
  <2>6. /\ At(y, t, Len(t) - Len(y)) /\ Len(t) - Len(y) \in Nat
        /\ \E pre \in Before : pre \o y \in ToSet(Cuts(t, Para))
        /\ x # <<>> => At(x, t, 0) /\ ToSet(Cuts(x, Para)) \subseteq ToSet(Cuts(t, Para))
    <3>1. CASE x = <<>>
      <4>1. t = y
        BY <1>4, <3>1
      <4>2. Len(t) - Len(y) = 0 /\ At(y, y, 0)
        BY <1>2, <2>5, <4>1, AtSelf
      <4>3. Cuts(y, Para) = <<y>>
        <5>1. \A i \in 2..Len(y) : i \in 1..Len(y)
          BY <2>5
        <5> QED BY <1>2, <1>8, <5>1, CutsOne
      <4>4. y \in ToSet(<<y>>) /\ <<>> \o y = y /\ <<>> \in Before
        BY <1>2, TextSeq, TextConcat DEF ToSet, Before
      <4>5. <<>> \o y \in ToSet(Cuts(t, Para))
        BY <4>1, <4>3, <4>4
      <4>6. \E pre \in Before : pre \o y \in ToSet(Cuts(t, Para))
        BY <4>4, <4>5
      <4>7. At(y, t, Len(t) - Len(y)) /\ Len(t) - Len(y) \in Nat
        BY <4>1, <4>2
      <4> QED BY <3>1, <4>6, <4>7
    <3>2. CASE x # <<>>
      <4>1. t = (x \o <<Para>>) \o y
        BY <1>4, <3>2
      <4>2. /\ At(y, t, Len(t) - Len(y)) /\ At(x, t, 0) /\ Len(t) - Len(y) \in Nat
            /\ ToSet(Cuts(t, Para)) = ToSet(Cuts(x, Para)) \union {<<Para>> \o y}
        BY <1>1, <1>2, <4>1, ParaJoins
      <4>3. <<Para>> \in Before
        BY DEF Before
      <4> QED BY <4>2, <4>3
    <3> QED BY <3>1, <3>2
  <2>7. StandsAt(after, o)
    <3>1. o.first - 1 = Len(t) - Len(y) /\ o.first \in Nat \ {0} /\ o.last = o.first - 1 + Len(y)
      BY <1>o, <2>5, <2>6
    <3> QED BY <1>8, <1>o, <2>2, <2>6, <3>1 DEF StandsAt
  <2>8. ASSUME NEW q \in ToSet(acc.offsets) PROVE StandsAt(after, q)
    <3> DEFINE z == CleanPage(q.page)
    <3>1. /\ q.page \in Pages /\ z # <<>> /\ q.first \in Nat \ {0}
          /\ At(z, x, q.first - 1) /\ q.last = q.first - 1 + Len(z)
          /\ \E pre \in Before : pre \o z \in ToSet(Cuts(x, Para))
      BY <2>8 DEF PagesStand, StandsAt, x
    <3>2. z \in Text
      BY <3>1, CleanPageIs DEF PageText
    <3> HIDE DEF z
    <3>3. x # <<>>
      <4>1. q.first - 1 + Len(z) <= Len(x) /\ Len(z) \in Nat /\ q.first - 1 \in Nat
        BY <1>1, <3>1, <3>2, AtType
      <4>2. Len(z) # 0
        BY <3>1, <3>2, EmptySeq, TextSeq
      <4>3. x = <<>> => Len(x) = 0
        OBVIOUS
      <4> QED BY <4>1, <4>2, <4>3
    <3>4. At(z, t, 0 + (q.first - 1))
      BY <1>1, <1>4, <2>6, <3>1, <3>2, <3>3, AtWithin
    <3>5. 0 + (q.first - 1) = q.first - 1
      BY <3>1
    <3>6. At(z, t, q.first - 1)
      BY <3>4, <3>5
    <3>7. \E pre \in Before : pre \o z \in ToSet(Cuts(t, Para))
      BY <2>6, <3>1, <3>3
    <3> QED BY <2>2, <3>1, <3>6, <3>7 DEF StandsAt, z
  <2>9. \A q \in ToSet(after.offsets) : StandsAt(after, q)
    BY <2>2, <2>4, <2>7, <2>8
  <2>10. ASSUME NEW p \in ToSet(Append(s, page)), CleanPage(p) # <<>>
         PROVE  \E q \in ToSet(after.offsets) : q.page = p
    <3>1. CASE p = page
      BY <1>o, <2>2, <2>4, <3>1
    <3>2. CASE p \in ToSet(s)
      BY <2>2, <2>4, <2>10, <3>2 DEF PagesStand
    <3> QED BY <1>5, <3>1, <3>2
  <2>11. PagesStand(after, Append(s, page))
    BY <1>6, <2>9, <2>10 DEF PagesStand
  <2> QED BY <2>11 DEF after
<1> QED
  BY <1>7, <1>8

LEMMA WindowStands ==
  ASSUME doc \in Documents, NEW s \in Seq(Pages)
  PROVE  PagesStand(_build_window_text(s), s)
<1> DEFINE S == {w \in Seq(Pages) : PagesStand(_build_window_text(w), w)}
<1>1. <<>> \in S
  <2>1. <<>> \in Seq(Pages)
    BY EmptySeq
  <2>2. _build_window_text(<<>>) = BuildBase
    BY <2>1, BuildFolds, FoldBase
  <2>3. BuildBase \in BuildState /\ BuildBase.offsets = <<>>
    BY EmptySeq, TextSeq DEF BuildBase, BuildState
  <2>4. ToSet(<<>>) = {}
    BY <2>1, ToSetType
  <2>5. PagesStand(BuildBase, <<>>)
    BY <2>3, <2>4 DEF PagesStand
  <2> QED BY <2>1, <2>2, <2>5
<1>2. ASSUME NEW w \in Seq(Pages), NEW p \in Pages, w \in S PROVE Append(w, p) \in S
  <2>1. Append(w, p) \in Seq(Pages)
    OBVIOUS
  <2> DEFINE a == _build_window_text(w)
             e == _build_window_text(Append(w, p))
  <2>2. PagesStand(a, w)
    BY <1>2
  <2>3. /\ Folded(BuildState, BuildStep, BuildBase, w, a)
        /\ Folded(BuildState, BuildStep, BuildBase, Append(w, p), e)
    BY <2>1, BuildFolds
  <2> HIDE DEF a, e, S
  <2>4. a \in BuildState /\ e = BuildStep[<<a, p>>]
    BY <2>3, BuildIsStep, FoldGrows
  <2>5. <<a, p>> \in BuildState \X Pages
    BY <2>4
  <2>6. e = BuildPage(a, p)
    BY <2>4, <2>5 DEF BuildStep
  <2>7. PagesStand(e, Append(w, p))
    BY <2>2, <2>6, PagesStandGoOn
  <2> QED BY <2>1, <2>7 DEF S, e
<1>3. \A w \in Seq(Pages) : w \in S
  <2> HIDE DEF S
  <2> QED BY <1>1, <1>2, InductiveSeq
<1> QED
  BY <1>3

\* What is let go with the texts that are too small is not kept anyway.
LEMMA ChunkTextsKeep ==
  ASSUME NEW t \in Text
  PROVE  KeptWords(split_text(t)) \subseteq KeptWords(chunk_text_with_tokens(t))
<1> DEFINE raw == split_text(t)
           ts == Without(raw, Tiny)
<1>1. raw \in Seq(Small) /\ chunk_text_with_tokens(t) = ts
  BY ChunkTextsAre
<1> HIDE DEF raw
<1>2. raw \in Seq(Text) /\ \A c \in Tiny : Len(c) < MinTokens
  BY <1>1, SmallText DEF Tiny
<1>3. KeptWords(raw) \subseteq KeptWords(ts)
  BY <1>2, KeptWithout
<1> QED
  BY <1>1, <1>3 DEF raw

\* A chunk is found where its text is.
LEMMA PlaceFinds ==
  ASSUME NEW built \in BuildState, NEW acc \in PlaceState, acc.from # 0,
         NEW raw \in Text, Occurs(raw, built.text)
  PROVE  \E found \in Nat \ {0} :
           /\ At(raw, built.text, found - 1)
           /\ Place(built, acc, raw) =
                [from |-> found, placed |-> Append(acc.placed, Spot(built, raw, found))]
<1> DEFINE t == built.text
           next == find(t, raw, acc.from)
           first == find(t, raw, 1)
           found == IF next = 0 THEN first ELSE next
<1>1. t \in Text /\ acc.from \in Nat \ {0}
  BY DEF BuildState, PlaceState
<1>2. Place(built, acc, raw) =
        [from |-> found, placed |-> Append(acc.placed, Spot(built, raw, found))]
  BY DEF Place, Spot, search_from
<1>3. next \in Nat /\ (next # 0 => At(raw, t, next - 1))
  BY <1>1, FindFirst
<1>4. first # 0
  BY <1>1, FindOccurs
<1>5. first \in Nat /\ At(raw, t, first - 1)
  BY <1>1, <1>4, FindFirst
<1> HIDE DEF next, first
<1>6. found \in Nat \ {0} /\ At(raw, t, found - 1)
  BY <1>3, <1>4, <1>5
<1> HIDE DEF found
<1> QED
  BY <1>2, <1>6

Found(built, s, acc) ==
  /\ acc.from # 0
  /\ \A raw \in ToSet(s) : \E found \in Nat \ {0} :
       /\ At(raw, built.text, found - 1)
       /\ Spot(built, raw, found) \in ToSet(acc.placed)

LEMMA FoundHolds ==
  ASSUME NEW built \in BuildState, NEW ts \in Seq(Text)
  PROVE  (\A raw \in ToSet(ts) : Occurs(raw, built.text))
           => Found(built, ts, PlaceEnd(built, ts))
<1> DEFINE Stands(s) == \A raw \in ToSet(s) : Occurs(raw, built.text)
           S == {s \in Seq(Text) : Stands(s) => Found(built, s, PlaceEnd(built, s))}
<1>1. <<>> \in S
  <2>1. <<>> \in Seq(Text)
    BY EmptySeq
  <2>2. PlaceEnd(built, <<>>) = PlaceBase /\ PlaceBase.from = 1
    BY <2>1, PlaceFolds, FoldBase DEF PlaceBase
  <2>3. ToSet(<<>>) = {}
    BY <2>1, ToSetType
  <2> QED BY <2>1, <2>2, <2>3 DEF Found
<1>2. ASSUME NEW s \in Seq(Text), NEW raw \in Text, s \in S PROVE Append(s, raw) \in S
  <2>1. Append(s, raw) \in Seq(Text) /\ ToSet(Append(s, raw)) = ToSet(s) \union {raw}
    BY ToSetAppend
  <2> DEFINE a == PlaceEnd(built, s)
             e == PlaceEnd(built, Append(s, raw))
  <2>2. ASSUME Stands(Append(s, raw)) PROVE Found(built, Append(s, raw), e)
    <3>1. Stands(s) /\ Occurs(raw, built.text)
      BY <2>1, <2>2
    <3>2. Found(built, s, a)
      BY <1>2, <3>1
    <3>3. /\ Folded(PlaceState, PlaceStep(built), PlaceBase, s, a)
          /\ Folded(PlaceState, PlaceStep(built), PlaceBase, Append(s, raw), e)
      BY <2>1, PlaceFolds
    <3> HIDE DEF a, e, S
    <3>4. a \in PlaceState /\ e = PlaceStep(built)[<<a, raw>>]
      BY <3>3, PlaceIsStep, FoldGrows
    <3>5. <<a, raw>> \in PlaceState \X Text
      BY <3>4
    <3>6. e = Place(built, a, raw)
      BY <3>4, <3>5 DEF PlaceStep
    <3>7. a.from # 0
      BY <3>2 DEF Found
    <3>8. PICK found \in Nat \ {0} :
            /\ At(raw, built.text, found - 1)
            /\ Place(built, a, raw) =
                 [from |-> found, placed |-> Append(a.placed, Spot(built, raw, found))]
      BY <3>1, <3>4, <3>7, PlaceFinds
    <3> DEFINE c == Spot(built, raw, found)
               cs == Append(a.placed, c)
    <3>9. c \in LooseChunk /\ a.placed \in Seq(LooseChunk)
      BY <3>4, SpotType DEF PlaceState
    <3>10. ToSet(cs) = ToSet(a.placed) \union {c}
      <4> HIDE DEF c
      <4> QED BY <3>9, ToSetAppend
    <3>11. e = [from |-> found, placed |-> cs]
      BY <3>6, <3>8
    <3> HIDE DEF cs
    <3>12. e.from = found /\ e.placed = cs
      BY <3>11
    <3>13. \A x \in ToSet(s) : \E f \in Nat \ {0} :
             At(x, built.text, f - 1) /\ Spot(built, x, f) \in ToSet(cs)
      BY <3>2, <3>10 DEF Found
    <3>14. At(raw, built.text, found - 1) /\ Spot(built, raw, found) \in ToSet(cs)
      BY <3>8, <3>10
    <3> HIDE DEF c
    <3> QED BY <2>1, <3>12, <3>13, <3>14 DEF Found
  <2> HIDE DEF Stands
  <2> QED BY <2>1, <2>2
<1>3. \A s \in Seq(Text) : s \in S
  <2> HIDE DEF S
  <2> QED BY <1>1, <1>2, InductiveSeq
<1> QED
  BY <1>3

LEMMA ChunkTextsStand ==
  ASSUME NEW t \in Text
  PROVE  /\ chunk_text_with_tokens(t) \in Seq(Text)
         /\ \A c \in ToSet(chunk_text_with_tokens(t)) : Occurs(c, t)
<1> DEFINE ts == chunk_text_with_tokens(t)
<1>1. ts \in Seq(Text) /\ Spread(t, ts, Len(t)) /\ \A k \in 1..Len(ts) : ts[k] # <<>>
  BY ChunkTexts
<1> HIDE DEF ts
<1>2. DOMAIN ts = 1..Len(ts)
  BY <1>1
<1>3. ASSUME NEW c \in ToSet(ts) PROVE Occurs(c, t)
  <2>1. PICK k \in 1..Len(ts) : ts[k] = c
    BY <1>2 DEF ToSet
  <2>2. PICK n : Window(t, c, n)
    BY <1>1, <2>1 DEF Spread
  <2>3. c # <<>>
    BY <1>1, <2>1
  <2>4. c \in Text /\ \E i : IsFirst(t, n, i) /\ At(c, t, i - 1)
    BY <2>2, <2>3, WindowFirst
  <2>5. PICK i : At(c, t, i - 1)
    BY <2>4
  <2>6. i - 1 \in Nat
    BY <2>4, <2>5, AtType
  <2> QED BY <2>4, <2>5, <2>6, AtOccurs
<1> QED
  BY <1>1, <1>3 DEF ts

-----------------------------------------------------------------------------
(***************************************************************************)
(* A document that repeats no word: a word that is kept is found where it  *)
(* stands, whatever chunk it is in.                                        *)
(***************************************************************************)
Once(p, q) ==
  LET x == CleanPage(p)
      y == CleanPage(q)
  IN  \A i \in DOMAIN x, j \in DOMAIN y :
        x[i] = y[j] /\ x[i] # Line => p = q /\ i = j
Repeatless == \A p, q \in DOMAIN doc : Once(p, q)
\* None of the chunks cs has any of the words from i to j of the page p.
Missed(cs, p, i, j) ==
  \A c \in ToSet(cs) : \A s \in c.spans :
    s.page = p => s.first..s.last \intersect i..j = {}
Complete(cs, p) ==
  LET y == CleanPage(p)
  IN  \A i, j \in DOMAIN y :
        Missed(cs, p, i, j) => count_tokens(normalize_text(SubSeq(y, i, j))) < MinTokens

LEMMA CompleteMore ==
  ASSUME NEW a \in Seq(Chunk), NEW b \in Seq(Chunk), NEW p
  PROVE  Complete(a, p) \/ Complete(b, p) => Complete(a \o b, p)
<1>1. ToSet(a \o b) = ToSet(a) \union ToSet(b)
  BY ToSetConcat
<1>2. \A i, j : Missed(a \o b, p, i, j) => Missed(a, p, i, j) /\ Missed(b, p, i, j)
  BY <1>1 DEF Missed
<1> QED
  BY <1>2 DEF Complete

\* The words from i to j.
LEMMA PartAt ==
  ASSUME NEW y \in Text, NEW i \in 1..Len(y), NEW j \in 1..Len(y), i <= j
  PROVE  LET s == SubSeq(y, i, j)
         IN  /\ s \in Text /\ Occurs(s, y)
             /\ \A w \in WordsOf(s) : \E k \in i..j : y[k] = w
<1> DEFINE s == SubSeq(y, i, j)
<1>1. /\ y \in Seq(Symbols) /\ Len(y) \in Nat
  BY TextSeq
<1>2. /\ s \in Seq(Symbols) /\ Len(s) = j - i + 1
      /\ \A k \in 1..Len(s) : s[k] = y[i + k - 1]
  BY <1>1, SubSeqProperties
<1>3. s \in Text /\ Len(s) \in Nat /\ i + Len(s) - 1 = j /\ i \in 1..(Len(y) - Len(s) + 1)
  BY <1>1, <1>2, TextSeq
<1>4. i \in Nat \ {0} /\ i - 1 \in Nat
  BY <1>1
<1>5. SubSeq(y, i, i + Len(s) - 1) = s
  BY <1>3
<1> HIDE DEF s
<1>6. At(s, y, i - 1)
  BY <1>3, <1>4, <1>5, AtWhere
<1>7. Occurs(s, y)
  BY <1>3, <1>4, <1>6, AtOccurs
<1>8. ASSUME NEW w \in WordsOf(s) PROVE \E k \in i..j : y[k] = w
  <2>1. PICK m \in 1..Len(s) : s[m] = w
    BY <1>2 DEF WordsOf
  <2>2. i + m - 1 \in i..j
    BY <1>2, <1>4, <1>1
  <2> QED BY <1>2, <2>1, <2>2
<1> QED
  BY <1>3, <1>7, <1>8 DEF s

LEMMA GreatestOfTwo ==
  ASSUME NEW m \in Nat, NEW n \in Nat
  PROVE  Greatest({m, n}) \in {m, n}
<1>1. \E x \in {m, n} : \A y \in {m, n} : y <= x
  OBVIOUS
<1> QED
  BY <1>1 DEF Greatest

\* A chunk has the words of a page it was found on.
LEMMA SpotCovers ==
  ASSUME NEW built, built.offsets \in Seq(Offset), NEW o \in ToSet(built.offsets), NEW raw \in Text,
         NEW found \in Nat \ {0}, NEW k \in Nat,
         k >= found, k <= found + Len(raw) - 1, k >= o.first, k <= o.last
  PROVE  \E s \in Spot(built, raw, found).spans :
           s.page = o.page /\ k - o.first + 1 \in s.first..s.last
<1> DEFINE end == found + Len(raw) - 1
           a == Greatest({found, o.first})
           b == Least({end, o.last})
           s == [page |-> o.page, first |-> a - o.first + 1, last |-> b - o.first + 1]
           spans == _spans_for_range(built.offsets, found, end)
<1>1. o.first \in Nat /\ o.last \in Nat /\ Len(raw) \in Nat
  <2>1. o \in Offset
    BY ToSetType
  <2> QED BY <2>1, TextSeq DEF Offset
<1>2. end \in Nat /\ k <= end
  BY <1>1
<1> HIDE DEF end
<1>3. a \in {found, o.first} /\ b \in {end, o.last}
  BY <1>1, <1>2, GreatestOfTwo, LeastOfTwo
<1> HIDE DEF a, b
<1>4. a \in Nat /\ b \in Nat /\ a <= k /\ k <= b
  BY <1>1, <1>2, <1>3
<1>5. s.page = o.page /\ k - o.first + 1 \in s.first..s.last
  BY <1>1, <1>4, SMTT(40)
<1>6. o.first <= end /\ o.last >= found
  BY <1>1, <1>2
<1>7. s \in spans
  BY <1>6 DEF _spans_for_range, a, b
<1>8. Spot(built, raw, found).spans = spans
  BY DEF Spot, end
<1> QED
  BY <1>5, <1>7, <1>8

\* A word of a chunk, where it stands in its page.
LEMMA WordFound ==
  ASSUME Repeatless, NEW b, NEW m, NEW built, BuiltOk(built, b, m), NEW window \in Seq(Pages),
         PagesStand(built, window), NEW p \in Pages, NEW k \in 1..Len(CleanPage(p)),
         CleanPage(p)[k] \notin Blank, doc \in Documents,
         NEW raw \in Text, CleanPage(p)[k] \in WordsOf(raw),
         NEW found \in Nat \ {0}, At(raw, built.text, found - 1)
  PROVE  \E s \in Spot(built, raw, found).spans : s.page = p /\ k \in s.first..s.last
<1> DEFINE y == CleanPage(p)
           w == y[k]
           t == built.text
<1>0. t \in Text /\ built.offsets \in Seq(Offset) /\ Len(t) \in Nat
  BY TextSeq DEF BuiltOk, BuildState
<1>1. PICK i \in 1..Len(raw) : raw[i] = w
  BY TextSeq DEF WordsOf
<1> DEFINE q == found - 1 + i
<1>2. t[q] = w
  BY <1>0, <1>1, AtWord
<1>3. q \in 1..Len(t) /\ q >= found /\ q <= found + Len(raw) - 1 /\ q \in Nat
  <2>1. found - 1 + Len(raw) <= Len(t) /\ Len(raw) \in Nat
    BY <1>0, AtType
  <2> QED BY <1>0, <2>1
<1> HIDE DEF q
<1>4. t[q] # Para
  BY <1>2 DEF Blank
<1>5. PICK o \in ToSet(built.offsets) : q \in o.first..o.last
  BY <1>3, <1>4 DEF BuiltOk
<1> DEFINE z == CleanPage(o.page)
           n == q - o.first + 1
<1>6. /\ o.page \in Pages /\ o.first \in Nat \ {0} /\ At(z, t, o.first - 1)
      /\ o.last = o.first - 1 + Len(z)
  BY DEF PagesStand, StandsAt
<1>7. z \in Text /\ Len(z) \in Nat
  BY <1>6, CleanPageIs, TextSeq DEF PageText
<1> HIDE DEF z
<1>8. n \in 1..Len(z) /\ o.first - 1 + n = q
  <2> DEFINE f == o.first
             l == o.last
             e == Len(z)
  <2>1. q \in f..l /\ f \in Nat /\ l = f - 1 + e /\ e \in Nat /\ q \in Nat
    BY <1>3, <1>5, <1>6, <1>7
  <2> HIDE DEF f, l, e
  <2>2. q - f + 1 \in 1..e /\ f - 1 + (q - f + 1) = q
    BY <2>1
  <2> QED BY <2>2 DEF f, e
<1> HIDE DEF n
<1>9. z[n] = w
  <2>1. t[o.first - 1 + n] = z[n]
    <3> HIDE DEF t, w
    <3>1. At(z, t, o.first - 1)
      BY <1>6
    <3> QED BY <1>0, <1>7, <1>8, <3>1, AtWord
  <2> QED BY <1>2, <1>8, <2>1
<1>10. o.page = p /\ n = k
  <2>1. Once(o.page, p)
    <3>1. DOMAIN doc = Pages
      <4>1. doc \in Seq(Seq(Seq(Words)))
        BY DocumentsAssumption
      <4> QED BY <4>1 DEF Pages
    <3> QED BY <1>6, <3>1 DEF Repeatless
  <2>2. DOMAIN z = 1..Len(z) /\ DOMAIN y = 1..Len(y)
    <3>1. y \in Text
      BY CleanPageIs DEF PageText
    <3> HIDE DEF y
    <3> QED BY <1>7, <3>1, TextSeq
  <2>3. z[n] # Line /\ z[n] = y[k]
    BY <1>9 DEF Blank
  <2> QED BY <1>8, <2>1, <2>2, <2>3 DEF Once, z
<1>11. \E s \in Spot(built, raw, found).spans :
         s.page = o.page /\ q - o.first + 1 \in s.first..s.last
  <2>1. q >= o.first /\ q <= o.last
    BY <1>3, <1>5, <1>6, <1>7
  <2> QED BY <1>0, <1>3, <2>1, SpotCovers
<1> QED
  BY <1>10, <1>11 DEF n

LEMMA WindowComplete ==
  ASSUME doc \in Documents, Repeatless, NEW b \in Nat, NEW window \in Seq(Pages),
         Consecutive(window, b), NEW p \in ToSet(window)
  PROVE  Complete(WindowChunks(window), p)
<1> DEFINE built == _build_window_text(window)
           t == built.text
           m == b + Len(window)
           ts == chunk_text_with_tokens(t)
           end == PlaceEnd(built, ts)
           cs == WindowChunks(window)
           y == CleanPage(p)
<1>1. BuiltOk(built, b, m) /\ PagesStand(built, window)
  BY WindowBuilt, WindowStands
<1>2. cs = IF t = <<>> THEN <<>> ELSE end.placed
  BY DEF WindowChunks, PlaceEnd, PlaceBase
<1>p. p \in Pages
  BY ToSetType
<1>3. PageText(y) /\ y \in Text /\ Len(y) \in Nat /\ DOMAIN y = 1..Len(y)
  <2>1. PageText(y)
    BY <1>p, CleanPageIs
  <2>2. y \in Text
    BY <2>1 DEF PageText
  <2> HIDE DEF y
  <2> QED BY <2>1, <2>2, TextSeq
<1>y. y = CleanPage(p)
  OBVIOUS
<1> HIDE DEF built, m, ts, end, y, cs
<1>4. built \in BuildState /\ t \in Text
  BY <1>1 DEF BuiltOk, BuildState
<1>5. ASSUME NEW i \in 1..Len(y), NEW j \in 1..Len(y), Missed(cs, p, i, j)
      PROVE  count_tokens(normalize_text(SubSeq(y, i, j))) < MinTokens
  <2> DEFINE s == SubSeq(y, i, j)
  <2>0. MinTokens \in Nat \ {0}
    BY ChunkingAssumption
  <2>1. CASE i > j
    <3>1. s = <<>>
      BY <1>3, <2>1, TextSeq
    <3>2. normalize_text(<<>>) = <<>> /\ Len(<<>>) = 0
      BY NormalGrows
    <3> QED BY <2>0, <3>1, <3>2 DEF count_tokens
  <2>2. CASE i <= j
    <3>1. s \in Text /\ Occurs(s, y) /\ \A w \in WordsOf(s) : \E k \in i..j : y[k] = w
      BY <1>3, <2>2, PartAt
    <3> HIDE DEF s
    <3> DEFINE K0 == KeptWords(split_text(t))
               K1 == KeptWords(ts)
    <3>2. y # <<>>
      <4>1. Len(<<>>) = 0
        OBVIOUS
      <4> QED BY <1>3, <4>1
    <3>3. PICK o \in ToSet(built.offsets) : o.page = p
      BY <1>1, <1>y, <3>2 DEF PagesStand
    <3>4. StandsAt(built, o)
      BY <1>1 DEF PagesStand
    <3>5. At(y, t, o.first - 1) /\ o.first - 1 \in Nat
      BY <1>y, <3>3, <3>4 DEF StandsAt
    <3>6. PICK pre \in Before : pre \o y \in ToSet(Cuts(t, Para))
      BY <1>y, <3>3, <3>4 DEF StandsAt
    <3>7. t # <<>>
      <4>1. o.first - 1 + Len(y) <= Len(t) /\ Len(y) # 0
        BY <1>3, <1>4, <3>2, <3>5, AtType, EmptySeq
      <4>2. t = <<>> => Len(t) = 0
        OBVIOUS
      <4> HIDE DEF t
      <4> QED BY <1>3, <3>5, <4>1, <4>2
    <3>8. cs = end.placed
      BY <1>2, <3>7
    <3>9. Lined(pre \o y)
      BY <1>3, <3>2 DEF PageText
    <3>10. Crumbs(pre \o y, K0)
      BY <1>4, <3>6, <3>9, split_textCrumbs
    <3>11. Occurs(y, pre \o y) /\ pre \o y \in Text
      <4>1. pre \in Text
        BY BeforeType
      <4>2. At(y, pre \o y, Len(pre)) /\ Len(pre) \in Nat /\ pre \o y \in Text
        BY <1>3, <4>1, AtSides, TextConcat
      <4> HIDE DEF y
      <4> QED BY <1>3, <4>2, AtOccurs
    <3>12. K0 \subseteq K1
      BY <1>4, ChunkTextsKeep DEF ts
    <3> HIDE DEF K0
    <3>13. Crumbs(y, K1)
      <4>1. Crumbs(y, K0)
        BY <1>3, <3>10, <3>11, CrumbsPart
      <4> QED BY <3>12, <4>1, CrumbsMore
    <3>14. ASSUME NEW w \in WordsOf(s), w \in K1 PROVE FALSE
      <4>1. PICK k \in i..j : y[k] = w
        BY <3>1
      <4>2. k \in 1..Len(y) /\ k \in Nat
        BY <1>3
      <4>3. PICK c \in ToSet(ts) : w \in WordsOf(c)
        BY <3>14 DEF KeptWords
      <4>4. ts \in Seq(Text) /\ \A x \in ToSet(ts) : Occurs(x, t)
        BY <1>4, ChunkTextsStand DEF ts
      <4>5. Found(built, ts, end)
        BY <1>4, <4>4, FoundHolds DEF end
      <4>6. PICK found \in Nat \ {0} : /\ At(c, t, found - 1)
                                       /\ Spot(built, c, found) \in ToSet(end.placed)
        BY <4>5 DEF Found
      <4>7. c \in Text /\ w \notin Blank
        BY <4>4, ToSetType DEF WordsOf
      <4>8. PICK x \in Spot(built, c, found).spans : x.page = p /\ k \in x.first..x.last
        <5>1. k \in 1..Len(CleanPage(p)) /\ CleanPage(p)[k] \notin Blank
              /\ CleanPage(p)[k] \in WordsOf(c)
          BY <1>y, <4>1, <4>2, <4>3, <4>7
        <5> HIDE DEF t
        <5>2. At(c, built.text, found - 1)
          BY <4>6 DEF t
        <5> QED BY <1>1, <1>p, <4>7, <5>1, <5>2, WordFound, SMTT(40)
      <4>9. x.first..x.last \intersect i..j = {}
        BY <1>5, <3>8, <4>6, <4>8 DEF Missed
      <4> QED BY <4>8, <4>9
    <3>15. Count(s) < MinTokens
      BY <3>1, <3>13, <3>14 DEF Crumbs
    <3> QED BY <3>15 DEF Count, count_tokens, s
  <2> QED BY <1>3, <2>1, <2>2
<1>6. \A i, j \in DOMAIN y :
        Missed(cs, p, i, j) => count_tokens(normalize_text(SubSeq(y, i, j))) < MinTokens
  BY <1>3, <1>5
<1> QED
  BY <1>6 DEF Complete, cs, y

\* The pages up to the n-th of a document that repeats no word are complete.
AllComplete(n, cs) == Repeatless => \A p \in 1..n : Complete(cs, p)

CompleteInv ==
  /\ RecursiveInv
  /\ provider = Recursive /\ status # "raised" => AllComplete(taken, chunks)
  /\ Ended(Recursive) => taken = Len(doc)

LEMMA AllCompleteNext ==
  ASSUME doc' = doc
  PROVE  AllComplete(taken, chunks)' <=> AllComplete(taken', chunks')
<1>1. Repeatless' <=> Repeatless
  BY DEF Repeatless, Once, CleanPage
<1>2. ASSUME NEW p PROVE Complete(chunks, p)' <=> Complete(chunks', p)
  BY DEF Complete, Missed, CleanPage
<1> QED
  BY <1>1, <1>2 DEF AllComplete

LEMMA AllCompleteNone ==
  ASSUME NEW cs
  PROVE  AllComplete(0, cs)
BY DEF AllComplete

LEMMA TakeWindowComplete ==
  ASSUME CompleteInv, TakeWindow
  PROVE  AllComplete(taken', chunks')
<1>1. PICK window \in Seq(Pages) :
        /\ Consecutive(window, taken) /\ taken \in Nat
        /\ chunks' = chunks \o WindowChunks(window)
        /\ \A p \in 1..taken' : p \in 1..taken \/ p \in ToSet(window)
  BY TakenWindow DEF CompleteInv
<1>2. chunks \in Seq(Chunk) /\ doc \in Documents /\ AllComplete(taken, chunks)
  BY DEF TakeWindow, CompleteInv, RecursiveInv, DeterministicInv
<1> DEFINE cs == WindowChunks(window)
<1>3. cs \in Seq(Chunk)
  BY <1>1, <1>2, WindowInOrder
<1>4. ASSUME Repeatless, NEW p \in 1..taken' PROVE Complete(chunks', p)
  <2>1. CASE p \in 1..taken
    <3>1. Complete(chunks, p)
      BY <1>2, <1>4, <2>1 DEF AllComplete
    <3> HIDE DEF cs
    <3>2. Complete(chunks \o cs, p)
      BY <1>2, <1>3, <3>1, CompleteMore
    <3> QED BY <1>1, <3>2 DEF cs
  <2>2. CASE p \in ToSet(window)
    <3>1. Complete(cs, p)
      BY <1>1, <1>2, <1>4, <2>2, WindowComplete
    <3> HIDE DEF cs
    <3>2. Complete(chunks \o cs, p)
      BY <1>2, <1>3, <3>1, CompleteMore
    <3> QED BY <1>1, <3>2 DEF cs
  <2> QED BY <1>1, <2>1, <2>2
<1> QED
  BY <1>4 DEF AllComplete

LEMMA InitComplete == Init => CompleteInv
<1> SUFFICES ASSUME Init PROVE CompleteInv
  OBVIOUS
<1>1. taken = 0 /\ status = "running"
  BY DEF Init
<1>2. AllComplete(taken, chunks)
  BY <1>1, AllCompleteNone
<1> QED
  BY <1>1, <1>2, InitRecursive DEF CompleteInv, Ended

LEMMA NextComplete == CompleteInv /\ [Next]_vars => CompleteInv'
<1> SUFFICES ASSUME CompleteInv, [Next]_vars PROVE CompleteInv'
  OBVIOUS
<1>1. RecursiveInv'
  BY NextRecursive DEF CompleteInv
<1>0. /\ Recursive # Deterministic
      /\ provider = Recursive /\ status # "raised" => AllComplete(taken, chunks)
      /\ status = "done" /\ provider = Recursive => taken = Len(doc)
  BY DEF Recursive, Deterministic, CompleteInv, Ended
<1>2. doc' = doc
  BY DEF Next, vars, TakeWindow, EndRecursive, TakeUnit, EndDeterministic, Raise
<1>3. /\ provider' = Recursive /\ status' # "raised" => AllComplete(taken', chunks')
      /\ status' = "done" /\ provider' = Recursive => taken' = Len(doc')
  <2>1. CASE TakeWindow
    <3>1. status' = status /\ status = "running"
      BY <2>1 DEF TakeWindow
    <3> QED BY <2>1, <3>1, TakeWindowComplete
  <2>2. CASE EndRecursive
    <3>1. /\ provider' = provider /\ status' = "done" /\ status = "running"
          /\ taken' = taken /\ chunks' = chunks /\ taken = Len(doc)
      BY <2>2 DEF EndRecursive
    <3> QED BY <1>0, <1>2, <3>1
  <2>3. CASE TakeUnit
    <3>1. provider = Deterministic /\ provider' = provider
      BY <2>3 DEF TakeUnit
    <3> QED BY <1>0, <3>1
  <2>4. CASE EndDeterministic
    <3>1. provider = Deterministic /\ provider' = provider
      BY <2>4 DEF EndDeterministic
    <3> QED BY <1>0, <3>1
  <2>5. CASE Raise
    <3>1. status' \in {"running", "raised"} /\ taken' = 0
      BY <2>5 DEF Raise
    <3> QED BY <3>1, AllCompleteNone
  <2>6. CASE UNCHANGED vars
    <3>1. /\ provider' = provider /\ status' = status
          /\ taken' = taken /\ chunks' = chunks
      BY <2>6 DEF vars
    <3> QED BY <1>0, <1>2, <3>1
  <2> QED BY <2>1, <2>2, <2>3, <2>4, <2>5, <2>6 DEF Next
<1>4. AllComplete(taken, chunks)' <=> AllComplete(taken', chunks')
  BY <1>2, AllCompleteNext
<1> QED
  BY <1>1, <1>3, <1>4 DEF CompleteInv, Ended

\* Of a document that repeats no word the recursive splitter drops only crumbs:
\* among any MinTokens words in a row of a page one is in a chunk.
THEOREM OnlyCrumbsAreLost == Spec => []OnlyCrumbsLost
<1>1. CompleteInv => OnlyCrumbsLost
  <2> SUFFICES ASSUME CompleteInv, Ended(Recursive), \A p, q \in DOMAIN doc : Once(p, q),
                      NEW p \in DOMAIN doc
               PROVE  Complete(chunks, p)
    <3> DEFINE spans == UNION {c.spans : c \in ToSet(chunks)}
               lost(p, i, j) == \A s \in spans : s.page = p => s.first..s.last \intersect i..j = {}
    <3>1. ASSUME NEW p, NEW i, NEW j PROVE lost(p, i, j) <=> Missed(chunks, p, i, j)
      BY DEF Missed
    <3> QED BY <3>1 DEF OnlyCrumbsLost, Once, Complete, CleanPage
  <2>1. taken = Len(doc) /\ AllComplete(taken, chunks) /\ doc \in Documents
    BY DEF CompleteInv, Ended, RecursiveInv, DeterministicInv
  <2>2. DOMAIN doc = 1..Len(doc)
    <3>1. doc \in Seq(Seq(Seq(Words)))
      BY <2>1, DocumentsAssumption
    <3> QED BY <3>1
  <2>3. Repeatless
    BY DEF Repeatless
  <2> QED BY <2>1, <2>2, <2>3 DEF AllComplete
<1> QED
  BY <1>1, InitComplete, NextComplete, PTL DEF Spec
=============================================================================
