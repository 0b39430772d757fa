---------------------------- MODULE StartUpProofs ----------------------------
(***************************************************************************)
(* The search finds the earliest place of a pattern.  The start-up cache   *)
(* is only a hint: for every game, every set of patterns and whatever a    *)
(* cache holds, sider hooks real code, decides as it would without a       *)
(* cache, and does not search again for what a saved cache knows.          *)
(***************************************************************************)
EXTENDS StartUp, WellFoundedInduction, TLAPS

-----------------------------------------------------------------------------
(* The search of kmp.cpp, for every pattern and every text.  Induction is  *)
(* over a set of naturals: what is not in it would have a least element.   *)

LEMMA LeastElement ==
  ASSUME NEW T \in SUBSET Nat, T # {}
  PROVE  \E m \in T : \A k \in T : m <= k
<1>1. \E m \in T : \A k \in T : ~(<<k, m>> \in OpToRel(<, Nat))
  BY NatLessThanWellFounded, WFMin, Zenon
<1>2. PICK m \in T : \A k \in T : ~(k < m)
  BY <1>1 DEF OpToRel
<1> QED BY <1>2

LEMMA EachFromTheSmaller ==
  ASSUME NEW T \in SUBSET Nat,
         \A n \in Nat : (\A m \in 0..(n - 1) : m \in T) => n \in T
  PROVE  \A n \in Nat : n \in T
<1> SUFFICES ASSUME Nat \ T # {} PROVE FALSE
  OBVIOUS
<1>1. PICK n \in Nat \ T : \A k \in Nat \ T : n <= k
  BY LeastElement
<1>2. \A m \in 0..(n - 1) : m \in T
  BY <1>1
<1> QED BY <1>1, <1>2

(* The first k of the pattern p are the last k of the first n of s.        *)
Ends(p, s, n, k) ==
  k \in 0..n /\ k <= Len(p) /\ \A i \in 1..k : p[i] = s[n - k + i]

(* The longest such k up to a limit.                                       *)
Longest(p, s, n, top, k) ==
  /\ Ends(p, s, n, k) /\ k <= top
  /\ \A m \in 0..top : Ends(p, s, n, m) => m <= k

(* The table is right up to j.                                             *)
RightTable(p, lsp, j) == \A i \in 1..j : Longest(p, p, i, i - 1, lsp[i])

LEMMA LongestExists ==
  ASSUME NEW p, NEW s, NEW n \in Nat, NEW top \in Nat, Len(p) \in Nat
  PROVE  \E k \in 0..n : Longest(p, s, n, top, k)
<1> DEFINE T == {d \in Nat : top - d \in 0..top /\ Ends(p, s, n, top - d)}
<1>1. top \in T
  BY DEF Ends
<1>2. PICK d \in T : \A e \in T : d <= e
  BY <1>1, LeastElement
<1>3. d \in Nat /\ top - d \in 0..top /\ Ends(p, s, n, top - d)
  BY <1>2
<1>4. ASSUME NEW m \in 0..top, Ends(p, s, n, m) PROVE m <= top - d
  <2>1. top - m \in Nat /\ top - (top - m) = m
    OBVIOUS
  <2>2. top - m \in T
    BY <1>4, <2>1
  <2> HIDE DEF T
  <2>3. d <= top - m
    BY <1>2, <2>2
  <2> QED BY <1>3, <2>1, <2>3
<1>5. Longest(p, s, n, top, top - d) /\ top - d \in 0..n
  <2> HIDE DEF T
  <2>1. top - d \in 0..n /\ top - d <= top
    BY <1>3 DEF Ends
  <2> QED BY <1>3, <1>4, <2>1 DEF Longest
<1> QED BY <1>5

LEMMA LongestIsOne ==
  ASSUME NEW p, NEW s, NEW n \in Nat, NEW top \in Nat, NEW k, NEW l,
         Longest(p, s, n, top, k), Longest(p, s, n, top, l)
  PROVE  k = l
<1>1. k \in 0..top /\ l \in 0..top
  BY DEF Longest, Ends
<1>2. k <= l /\ l <= k
  BY <1>1 DEF Longest
<1> QED BY <1>1, <1>2

(* An end of an end is an end, and of two ends the shorter is one of the   *)
(* longer.                                                                 *)
LEMMA EndOfEnd ==
  ASSUME NEW p, NEW s, NEW n \in Nat, NEW j, NEW k, Len(p) \in Nat,
         Ends(p, s, n, j)
  PROVE  /\ Ends(p, p, j, k) => Ends(p, s, n, k)
         /\ Ends(p, s, n, k) /\ k <= j => Ends(p, p, j, k)
<1>1. j \in Nat /\ j <= n /\ \A i \in 1..j : p[i] = s[n - j + i]
  BY DEF Ends
<1>2. ASSUME Ends(p, p, j, k) PROVE Ends(p, s, n, k)
  <2>1. k \in Nat /\ k <= j /\ k <= Len(p) /\ \A i \in 1..k : p[i] = p[j - k + i]
    BY <1>1, <1>2 DEF Ends
  <2>2. ASSUME NEW i \in 1..k PROVE p[i] = s[n - k + i]
    <3>1. j - k + i \in 1..j /\ n - j + (j - k + i) = n - k + i
      BY <1>1, <2>1
    <3> QED BY <1>1, <2>1, <3>1
  <2> QED BY <1>1, <2>1, <2>2 DEF Ends
<1>3. ASSUME Ends(p, s, n, k), k <= j PROVE Ends(p, p, j, k)
  <2>1. k \in Nat /\ k <= Len(p) /\ \A i \in 1..k : p[i] = s[n - k + i]
    BY <1>3 DEF Ends
  <2>2. ASSUME NEW i \in 1..k PROVE p[i] = p[j - k + i]
    <3>1. j - k + i \in 1..j /\ n - j + (j - k + i) = n - k + i
      BY <1>1, <1>3, <2>1
    <3> QED BY <1>1, <2>1, <3>1
  <2> QED BY <1>1, <1>3, <2>1, <2>2 DEF Ends
<1> QED BY <1>2, <1>3

(* An end that is longer by one is one that the next element extends.      *)
GoesOn(p, s, n, k) == k < Len(p) /\ p[k + 1] = s[n + 1]

LEMMA EndGrows ==
  ASSUME NEW p, NEW s, NEW n \in Nat, NEW k \in Nat, Len(p) \in Nat
  PROVE  Ends(p, s, n + 1, k + 1) <=> Ends(p, s, n, k) /\ GoesOn(p, s, n, k)
<1>1. \A i \in 1..(k + 1) : (n + 1) - (k + 1) + i = n - k + i
  OBVIOUS
<1>2. ASSUME Ends(p, s, n + 1, k + 1)
      PROVE  Ends(p, s, n, k) /\ GoesOn(p, s, n, k)
  <2>1. /\ k + 1 \in 0..(n + 1) /\ k + 1 <= Len(p)
        /\ \A i \in 1..(k + 1) : p[i] = s[(n + 1) - (k + 1) + i]
    BY <1>2 DEF Ends
  <2>2. k \in 0..n /\ \A i \in 1..(k + 1) : p[i] = s[n - k + i]
    BY <1>1, <2>1
  <2>3. p[k + 1] = s[n - k + (k + 1)] /\ n - k + (k + 1) = n + 1
    BY <2>2
  <2> QED BY <2>1, <2>2, <2>3 DEF Ends, GoesOn
<1>3. ASSUME Ends(p, s, n, k), GoesOn(p, s, n, k)
      PROVE  Ends(p, s, n + 1, k + 1)
  <2>1. ASSUME NEW i \in 1..(k + 1) PROVE p[i] = s[n - k + i]
    <3>1. CASE i = k + 1
      <4>1. n - k + i = n + 1
        BY <3>1
      <4> QED BY <1>3, <3>1, <4>1 DEF GoesOn
    <3>2. CASE i # k + 1
      BY <1>3, <3>2 DEF Ends
    <3> QED BY <3>1, <3>2
  <2> QED BY <1>1, <1>3, <2>1 DEF Ends, GoesOn
<1> QED BY <1>2, <1>3

-----------------------------------------------------------------------------
(* Falling back: the longest end of the i matched that c extends, or none. *)
Falls(p, c, i, k) ==
  /\ Ends(p, p, i, k) /\ (k = 0 \/ c = p[k + 1])
  /\ \A m \in 0..i : Ends(p, p, i, m) /\ c = p[m + 1] => m <= k

LEMMA FallsAtOnce ==
  ASSUME NEW p, NEW c, NEW i \in Nat, Len(p) \in Nat, i <= Len(p),
         i = 0 \/ c = p[i + 1]
  PROVE  Falls(p, c, i, i)
BY DEF Falls, Ends

LEMMA FallsFurther ==
  ASSUME NEW p, NEW c, NEW i \in Nat \ {0}, Len(p) \in Nat, i <= Len(p),
         c # p[i + 1], NEW l, Longest(p, p, i, i - 1, l),
         NEW k, Falls(p, c, l, k)
  PROVE  Falls(p, c, i, k)
<1>1. l \in 0..(i - 1) /\ Ends(p, p, i, l)
  BY DEF Longest, Ends
<1>2. Ends(p, p, i, k)
  BY <1>1, EndOfEnd DEF Falls
<1>3. ASSUME NEW m \in 0..i, Ends(p, p, i, m), c = p[m + 1] PROVE m <= k
  <2>1. m \in 0..(i - 1)
    BY <1>3
  <2>2. m <= l /\ m \in 0..l
    BY <1>1, <1>3, <2>1 DEF Longest
  <2>3. Ends(p, p, l, m)
    BY <1>1, <1>3, <2>2, EndOfEnd
  <2> QED BY <1>3, <2>2, <2>3 DEF Falls
<1> QED BY <1>2, <1>3 DEF Falls

LEMMA FallsOnce ==
  ASSUME NEW p, NEW c, NEW i \in Nat, NEW k, NEW l, Falls(p, c, i, k), Falls(p, c, i, l)
  PROVE  k = l
BY DEF Falls, Ends

(* The loop does that, with a table that is right.                         *)
LEMMA FallBackIsRight ==
  ASSUME NEW p, NEW lsp, NEW c, NEW j \in Nat, Len(p) \in Nat, j <= Len(p),
         RightTable(p, lsp, j)
  PROVE  Falls(p, c, j, FallBack(p, lsp, c, j))
<1> DEFINE Step(f, i) == IF i > 0 /\ c # p[i + 1] THEN f[lsp[i]] ELSE i
           Is(f) == f = [i \in 0..j |-> Step(f, i)]
           Right(f, i) == Falls(p, c, i, f[i])
<1>1. ASSUME NEW i \in 1..j PROVE lsp[i] \in 0..(i - 1) /\ Longest(p, p, i, i - 1, lsp[i])
  BY DEF RightTable, Longest, Ends
<1>2. ASSUME NEW f, NEW i \in 0..j, \A m \in 0..(i - 1) : Right(f, m)
      PROVE  Falls(p, c, i, Step(f, i))
  <2>1. CASE i > 0 /\ c # p[i + 1]
    <3>1. Longest(p, p, i, i - 1, lsp[i]) /\ Falls(p, c, lsp[i], f[lsp[i]])
      BY <1>1, <1>2, <2>1
    <3> QED BY <2>1, <3>1, FallsFurther
  <2>2. CASE ~(i > 0 /\ c # p[i + 1])
    BY <2>2, FallsAtOnce
  <2> QED BY <2>1, <2>2
<1>3. ASSUME NEW i \in 0..j PROVE \E k : Falls(p, c, i, k)
  <2> DEFINE T == {n \in Nat : n \in 0..j => \E k : Falls(p, c, n, k)}
  <2>1. ASSUME NEW n \in Nat, \A m \in 0..(n - 1) : m \in T, n \in 0..j
        PROVE  \E k : Falls(p, c, n, k)
    <3> DEFINE g == [m \in 0..(n - 1) |-> CHOOSE k : Falls(p, c, m, k)]
    <3>1. \A m \in 0..(n - 1) : \E k : Falls(p, c, m, k)
      BY <2>1
    <3>2. \A m \in 0..(n - 1) : Falls(p, c, m, g[m])
      BY <3>1
    <3> HIDE DEF g
    <3> QED BY <1>2, <2>1, <3>2
  <2>2. \A n \in Nat : n \in T
    <3>1. \A n \in Nat : (\A m \in 0..(n - 1) : m \in T) => n \in T
      BY <2>1
    <3>2. T \in SUBSET Nat
      OBVIOUS
    <3> HIDE DEF T
    <3> QED BY <3>1, <3>2, EachFromTheSmaller
  <2> QED BY <2>2
<1> DEFINE W == [i \in 0..j |-> CHOOSE k : Falls(p, c, i, k)]
<1>4. \A i \in 0..j : Right(W, i)
  BY <1>3
<1>5. \A i \in 0..j : W[i] = Step(W, i)
  <2> SUFFICES ASSUME NEW i \in 0..j PROVE W[i] = Step(W, i)
    OBVIOUS
  <2>1. Falls(p, c, i, W[i]) /\ \A m \in 0..(i - 1) : Right(W, m)
    BY <1>4
  <2> HIDE DEF W
  <2>2. Falls(p, c, i, Step(W, i))
    BY <1>2, <2>1
  <2> HIDE DEF Step
  <2> QED BY <2>1, <2>2, FallsOnce
<1>6. Is(W)
  <2>1. W = [i \in 0..j |-> W[i]]
    OBVIOUS
  <2> HIDE DEF W
  <2> QED BY <1>5, <2>1
<1> DEFINE f == CHOOSE g : Is(g)
<1>7. FallBack(p, lsp, c, j) = f[j]
  BY DEF FallBack
<1> HIDE DEF W, Is
<1>8. Is(f)
  BY <1>6
<1> HIDE DEF f
<1>9. \A i \in 0..j : f[i] = Step(f, i)
  BY <1>8 DEF Is
<1>10. \A n \in Nat : n \in 0..j => Right(f, n)
  <2> DEFINE T == {n \in Nat : n \in 0..j => Right(f, n)}
  <2>1. ASSUME NEW n \in Nat, \A m \in 0..(n - 1) : m \in T, n \in 0..j
        PROVE  Right(f, n)
    <3>1. \A m \in 0..(n - 1) : Right(f, m)
      BY <2>1
    <3> HIDE DEF Step
    <3> QED BY <1>2, <1>9, <2>1, <3>1
  <2>2. \A n \in Nat : (\A m \in 0..(n - 1) : m \in T) => n \in T
    BY <2>1
  <2>3. \A n \in Nat : n \in T
    <3>1. T \in SUBSET Nat
      OBVIOUS
    <3> HIDE DEF T
    <3> QED BY <2>2, <3>1, EachFromTheSmaller
  <2> QED BY <2>3
<1> QED BY <1>7, <1>10

(* One more element is read: what is matched then is the longest again.    *)
LEMMA ExtendedIsRight ==
  ASSUME NEW p, NEW lsp, NEW s, NEW n \in Nat, NEW top \in Nat, NEW j,
         Len(p) \in Nat, j < Len(p), Longest(p, s, n, top, j), RightTable(p, lsp, j)
  PROVE  Longest(p, s, n + 1, top + 1, Extended(p, lsp, s[n + 1], j))
<1> DEFINE c == s[n + 1]
           k == FallBack(p, lsp, c, j)
           e == Extended(p, lsp, c, j)
<1>1. j \in 0..n /\ j <= top /\ Ends(p, s, n, j)
  BY DEF Longest, Ends
<1>2. Falls(p, c, j, k)
  BY <1>1, FallBackIsRight
<1>3. e = IF c = p[k + 1] THEN k + 1 ELSE k
  BY DEF Extended
<1> HIDE DEF k, e
<1>4. k \in 0..j /\ Ends(p, s, n, k)
  <2>1. Ends(p, p, j, k)
    BY <1>2 DEF Falls
  <2> QED BY <1>1, <2>1, EndOfEnd DEF Ends
<1>5. \A m \in Nat : Ends(p, s, n + 1, m + 1) /\ m <= top => m <= k /\ c = p[m + 1]
  <2> SUFFICES ASSUME NEW m \in Nat, Ends(p, s, n + 1, m + 1), m <= top
               PROVE  m <= k /\ c = p[m + 1]
    OBVIOUS
  <2>1. Ends(p, s, n, m) /\ c = p[m + 1]
    <3>1. Ends(p, s, n, m) /\ GoesOn(p, s, n, m)
      BY EndGrows
    <3> QED BY <3>1 DEF GoesOn
  <2>2. m <= j /\ m \in 0..j
    BY <1>1, <2>1 DEF Longest
  <2>3. Ends(p, p, j, m)
    BY <1>1, <2>1, <2>2, EndOfEnd
  <2> QED BY <1>2, <2>1, <2>2, <2>3 DEF Falls
<1>6. Ends(p, s, n + 1, e) /\ e <= top + 1
  <2>1. CASE c = p[k + 1]
    <3>1. k < Len(p) /\ k \in Nat /\ e = k + 1 /\ k <= top
      BY <1>1, <1>3, <1>4, <2>1
    <3>2. Ends(p, s, n + 1, k + 1)
      BY <1>4, <2>1, <3>1, EndGrows DEF GoesOn
    <3> QED BY <3>1, <3>2
  <2>2. CASE c # p[k + 1]
    <3>1. k = 0 /\ e = 0
      BY <1>2, <1>3, <2>2 DEF Falls
    <3> QED BY <3>1 DEF Ends
  <2> QED BY <2>1, <2>2
<1>7. ASSUME NEW m \in 0..(top + 1), Ends(p, s, n + 1, m) PROVE m <= e
  <2>1. CASE m = 0
    BY <1>6, <2>1 DEF Ends
  <2>2. CASE m # 0
    <3> DEFINE q == m - 1
    <3>1. q \in Nat /\ q <= top /\ q + 1 = m
      BY <2>2
    <3> HIDE DEF q
    <3>2. q <= k /\ c = p[q + 1]
      BY <1>5, <1>7, <3>1
    <3>3. c = p[k + 1]
      <4>1. CASE k = 0
        <5>1. q = k
          BY <3>1, <3>2, <4>1
        <5> QED BY <3>2, <5>1
      <4>2. CASE k # 0
        BY <1>2, <4>2 DEF Falls
      <4> QED BY <4>1, <4>2
    <3> QED BY <1>3, <1>4, <3>1, <3>2, <3>3
  <2> QED BY <2>1, <2>2
<1> QED BY <1>6, <1>7 DEF Longest, e

(* The table: for each prefix, the longest end of it that is shorter.      *)
LEMMA LspIsRight ==
  ASSUME NEW p, Len(p) \in Nat
  PROVE  RightTable(p, Lsp(p), Len(p))
<1> DEFINE Step(f, i) == IF i = 1 THEN 0 ELSE Extended(p, f, p[i], f[i - 1])
           Is(f) == f = [i \in 1..Len(p) |-> Step(f, i)]
           Right(f, i) == Longest(p, p, i, i - 1, f[i])
<1>1. ASSUME NEW f, NEW i \in 1..Len(p), \A m \in 1..(i - 1) : Right(f, m)
      PROVE  Longest(p, p, i, i - 1, Step(f, i))
  <2>1. CASE i = 1
    BY <2>1 DEF Longest, Ends
  <2>2. CASE i # 1
    <3> DEFINE n == i - 1
               j == f[n]
    <3>1. n \in Nat /\ n \in 1..(i - 1) /\ n - 1 \in Nat /\ n + 1 = i /\ (n - 1) + 1 = i - 1
      BY <2>2
    <3>2. Longest(p, p, n, n - 1, j)
      BY <1>1, <3>1
    <3>3. j \in 0..(n - 1)
      BY <3>2 DEF Longest, Ends
    <3>4. RightTable(p, f, j)
      BY <1>1, <3>1, <3>3 DEF RightTable
    <3>5. j < Len(p)
      BY <3>1, <3>3
    <3> HIDE DEF n, j
    <3>6. Longest(p, p, n + 1, (n - 1) + 1, Extended(p, f, p[n + 1], j))
      BY <3>1, <3>2, <3>4, <3>5, ExtendedIsRight
    <3>7. Step(f, i) = Extended(p, f, p[n + 1], j)
      BY <2>2, <3>1 DEF n, j
    <3> HIDE DEF Step
    <3> QED BY <3>1, <3>6, <3>7
  <2> QED BY <2>1, <2>2
<1> DEFINE B == [i \in 1..Len(p) |-> CHOOSE k \in 0..i : Longest(p, p, i, i - 1, k)]
<1>2. \A i \in 1..Len(p) : Right(B, i)
  <2> SUFFICES ASSUME NEW i \in 1..Len(p) PROVE Right(B, i)
    OBVIOUS
  <2>1. \E k \in 0..i : Longest(p, p, i, i - 1, k)
    <3>1. i \in Nat /\ i - 1 \in Nat
      OBVIOUS
    <3> QED BY <3>1, LongestExists
  <2> QED BY <2>1
<1>3. \A i \in 1..Len(p) : B[i] = Step(B, i)
  <2> SUFFICES ASSUME NEW i \in 1..Len(p) PROVE B[i] = Step(B, i)
    OBVIOUS
  <2> HIDE DEF B
  <2>1. Longest(p, p, i, i - 1, B[i]) /\ \A m \in 1..(i - 1) : Right(B, m)
    BY <1>2
  <2>2. Longest(p, p, i, i - 1, Step(B, i))
    BY <1>1, <2>1
  <2>3. i \in Nat /\ i - 1 \in Nat
    OBVIOUS
  <2> HIDE DEF Step
  <2> QED BY <2>1, <2>2, <2>3, LongestIsOne
<1>4. Is(B)
  <2>1. B = [i \in 1..Len(p) |-> B[i]]
    OBVIOUS
  <2> HIDE DEF B
  <2> QED BY <1>3, <2>1
<1>5. Lsp(p) = CHOOSE f : Is(f)
  BY DEF Lsp
<1> HIDE DEF B, Is
<1>6. Is(Lsp(p))
  BY <1>4, <1>5
<1> DEFINE L == Lsp(p)
<1> HIDE DEF L
<1>7. \A i \in 1..Len(p) : L[i] = Step(L, i)
  BY <1>6 DEF Is, L
<1>8. \A n \in Nat : n \in 1..Len(p) => Right(L, n)
  <2> DEFINE T == {n \in Nat : n \in 1..Len(p) => Right(L, n)}
  <2>1. ASSUME NEW n \in Nat, \A m \in 0..(n - 1) : m \in T, n \in 1..Len(p)
        PROVE  Right(L, n)
    <3>1. \A m \in 1..(n - 1) : Right(L, m)
      BY <2>1
    <3> HIDE DEF Step
    <3> QED BY <1>1, <1>7, <2>1, <3>1
  <2>2. \A n \in Nat : (\A m \in 0..(n - 1) : m \in T) => n \in T
    BY <2>1
  <2>3. \A n \in Nat : n \in T
    <3>1. T \in SUBSET Nat
      OBVIOUS
    <3> HIDE DEF T
    <3> QED BY <2>2, <3>1, EachFromTheSmaller
  <2> QED BY <2>3
<1> QED BY <1>8 DEF RightTable, L

-----------------------------------------------------------------------------
(* The walk over the text stays at the length of the pattern once it is    *)
(* there; until then it is at the longest end.                             *)
Reached(p, s, t) == \E u \in 0..t : Ends(p, s, u, Len(p))

RightMatch(p, s, t, k) ==
  IF Reached(p, s, t) THEN k = Len(p) ELSE Longest(p, s, t, Len(p), k)

LEMMA MatchedAtTheEnd ==
  ASSUME NEW p, NEW s, NEW t \in Nat, NEW k, Len(p) \in Nat, RightMatch(p, s, t, k)
  PROVE  k = Len(p) <=> Reached(p, s, t)
BY DEF RightMatch, Reached, Longest

LEMMA MatchesOn ==
  ASSUME NEW p, NEW s, NEW t \in Nat, NEW k, Len(p) \in Nat, RightMatch(p, s, t, k)
  PROVE  RightMatch(p, s, t + 1,
           IF k = Len(p) THEN Len(p) ELSE Extended(p, Lsp(p), s[t + 1], k))
<1>1. CASE Reached(p, s, t)
  <2>1. Reached(p, s, t + 1)
    BY <1>1 DEF Reached
  <2> QED BY <1>1, <2>1 DEF RightMatch
<1>2. CASE ~Reached(p, s, t)
  <2> DEFINE e == Extended(p, Lsp(p), s[t + 1], k)
  <2>1. Longest(p, s, t, Len(p), k) /\ k # Len(p)
    BY <1>2, MatchedAtTheEnd DEF RightMatch
  <2>2. k \in 0..Len(p) /\ k < Len(p)
    BY <2>1 DEF Longest, Ends
  <2>3. RightTable(p, Lsp(p), k)
    BY <2>2, LspIsRight DEF RightTable
  <2>4. Longest(p, s, t + 1, Len(p) + 1, e)
    BY <2>1, <2>2, <2>3, ExtendedIsRight
  <2> HIDE DEF e
  <2>5. e \in 0..Len(p) /\ Ends(p, s, t + 1, e)
    BY <2>4 DEF Longest, Ends
  <2>6. \A m \in 0..Len(p) : Ends(p, s, t + 1, m) => m <= e
    BY <2>4 DEF Longest
  <2>7. ASSUME Reached(p, s, t + 1) PROVE e = Len(p)
    <3>1. Ends(p, s, t + 1, Len(p))
      BY <1>2, <2>7 DEF Reached
    <3> QED BY <2>5, <2>6, <3>1
  <2>8. Longest(p, s, t + 1, Len(p), e)
    BY <2>5, <2>6 DEF Longest
  <2>9. RightMatch(p, s, t + 1, e)
    BY <2>7, <2>8 DEF RightMatch
  <2> QED BY <2>1, <2>9 DEF e
<1> QED BY <1>1, <1>2

LEMMA OneMatch ==
  ASSUME NEW p, NEW s, NEW t \in Nat, NEW k, NEW l, Len(p) \in Nat,
         RightMatch(p, s, t, k), RightMatch(p, s, t, l)
  PROVE  k = l
BY LongestIsOne DEF RightMatch

LEMMA MatchedIsRight ==
  ASSUME NEW p, NEW s, Len(p) \in Nat \ {0}, Len(s) \in Nat
  PROVE  \A t \in 0..Len(s) : RightMatch(p, s, t, Matched(p, s)[t])
<1> DEFINE Step(f, t) ==
             CASE t = 0 -> 0
               [] t > 0 /\ f[t - 1] = Len(p) -> Len(p)
               [] OTHER -> Extended(p, Lsp(p), s[t], f[t - 1])
           Is(f) == f = [t \in 0..Len(s) |-> Step(f, t)]
           Right(f, t) == RightMatch(p, s, t, f[t])
<1>1. ASSUME NEW f, NEW t \in 0..Len(s), \A m \in 0..(t - 1) : Right(f, m)
      PROVE  RightMatch(p, s, t, Step(f, t))
  <2>1. CASE t = 0
    <3>1. ~Reached(p, s, 0)
      BY DEF Reached, Ends
    <3>2. Longest(p, s, 0, Len(p), 0)
      BY DEF Longest, Ends
    <3> QED BY <2>1, <3>1, <3>2 DEF RightMatch
  <2>2. CASE t # 0
    <3> DEFINE n == t - 1
               k == f[n]
    <3>1. n \in Nat /\ n \in 0..(t - 1) /\ n + 1 = t
      BY <2>2
    <3>2. RightMatch(p, s, n, k)
      BY <1>1, <3>1
    <3>3. Step(f, t) = IF k = Len(p) THEN Len(p) ELSE Extended(p, Lsp(p), s[t], k)
      BY <2>2
    <3> HIDE DEF n, k, Step
    <3>4. RightMatch(p, s, n + 1,
            IF k = Len(p) THEN Len(p) ELSE Extended(p, Lsp(p), s[n + 1], k))
      BY <3>1, <3>2, MatchesOn
    <3> QED BY <3>1, <3>3, <3>4
  <2> QED BY <2>1, <2>2
<1> DEFINE B == [t \in 0..Len(s) |-> CHOOSE k : RightMatch(p, s, t, k)]
<1>2. \A t \in 0..Len(s) : Right(B, t)
  <2> SUFFICES ASSUME NEW t \in 0..Len(s) PROVE Right(B, t)
    OBVIOUS
  <2>1. \E k : RightMatch(p, s, t, k)
    <3>1. t \in Nat /\ Len(p) \in Nat
      OBVIOUS
    <3>2. \E k \in 0..t : Longest(p, s, t, Len(p), k)
      BY <3>1, LongestExists
    <3> QED BY <3>2 DEF RightMatch
  <2> QED BY <2>1
<1>3. \A t \in 0..Len(s) : B[t] = Step(B, t)
  <2> SUFFICES ASSUME NEW t \in 0..Len(s) PROVE B[t] = Step(B, t)
    OBVIOUS
  <2> HIDE DEF B
  <2>1. RightMatch(p, s, t, B[t]) /\ \A m \in 0..(t - 1) : Right(B, m)
    BY <1>2
  <2>2. RightMatch(p, s, t, Step(B, t))
    BY <1>1, <2>1
  <2>3. t \in Nat
    OBVIOUS
  <2> HIDE DEF Step
  <2> QED BY <2>1, <2>2, <2>3, OneMatch
<1>4. Is(B)
  <2>1. B = [t \in 0..Len(s) |-> B[t]]
    OBVIOUS
  <2> HIDE DEF B, Step
  <2> QED BY <1>3, <2>1
<1>5. Matched(p, s) = CHOOSE f : Is(f)
  BY DEF Matched
<1> HIDE DEF B, Is
<1>6. Is(Matched(p, s))
  BY <1>4, <1>5
<1> DEFINE L == Matched(p, s)
<1> HIDE DEF L
<1>7. \A t \in 0..Len(s) : L[t] = Step(L, t)
  <2> HIDE DEF Step
  <2> QED BY <1>6 DEF Is, L
<1>8. \A n \in Nat : n \in 0..Len(s) => Right(L, n)
  <2> DEFINE T == {n \in Nat : n \in 0..Len(s) => Right(L, n)}
  <2>1. ASSUME NEW n \in Nat, \A m \in 0..(n - 1) : m \in T, n \in 0..Len(s)
        PROVE  Right(L, n)
    <3>1. \A m \in 0..(n - 1) : Right(L, m)
      BY <2>1
    <3> HIDE DEF Step
    <3> QED BY <1>1, <1>7, <2>1, <3>1
  <2>2. \A n \in Nat : (\A m \in 0..(n - 1) : m \in T) => n \in T
    BY <2>1
  <2>3. \A n \in Nat : n \in T
    <3>1. T \in SUBSET Nat
      OBVIOUS
    <3> HIDE DEF T
    <3> QED BY <2>2, <3>1, EachFromTheSmaller
  <2> QED BY <2>3
<1> QED BY <1>8 DEF L

(* A place of the pattern is where it has just ended.                      *)
LEMMA PlaceIsAnEnd ==
  ASSUME NEW p, NEW s, NEW t \in Nat, Len(p) \in Nat \ {0}, Len(s) \in Nat
  PROVE  OccursAt(p, s, t) <=>
           t > 0 /\ t + Len(p) - 1 <= Len(s) /\ Ends(p, s, t + Len(p) - 1, Len(p))
<1> DEFINE u == t + Len(p) - 1
<1>1. \A i \in 1..Len(p) : u - Len(p) + i = t + i - 1
  OBVIOUS
<1> QED BY <1>1 DEF OccursAt, Ends

LEMMA FirstEndIsFound ==
  ASSUME NEW p, NEW s, Len(p) \in Nat \ {0}, Len(s) \in Nat, p # <<>>
  PROVE  FindsEarliest(p, s, KmpSearch(p, s))
<1> DEFINE matched == Matched(p, s)
           ends == {t \in 1..Len(s) : matched[t] = Len(p)}
           first == CHOOSE t \in ends : \A u \in ends : t <= u
           place == KmpSearch(p, s)
<1>1. place = IF ends = {} THEN 0 ELSE first - Len(p) + 1
  BY DEF KmpSearch
<1>2. \A t \in 1..Len(s) : t \in ends <=> Reached(p, s, t)
  <2> SUFFICES ASSUME NEW t \in 1..Len(s) PROVE t \in ends <=> Reached(p, s, t)
    OBVIOUS
  <2>1. RightMatch(p, s, t, matched[t]) /\ t \in Nat /\ Len(p) \in Nat
    BY MatchedIsRight
  <2>2. matched[t] = Len(p) <=> Reached(p, s, t)
    <3> HIDE DEF matched
    <3> QED BY <2>1, MatchedAtTheEnd
  <2> QED BY <2>2
<1>3. ends \in SUBSET Nat /\ ends \subseteq 1..Len(s)
  OBVIOUS
<1> HIDE DEF ends, place
<1>4. \A t \in Nat \ {0} : OccursAt(p, s, t) =>
         t + Len(p) - 1 \in 1..Len(s) /\ t + Len(p) - 1 \in ends
  <2> SUFFICES ASSUME NEW t \in Nat \ {0}, OccursAt(p, s, t)
               PROVE  t + Len(p) - 1 \in 1..Len(s) /\ t + Len(p) - 1 \in ends
    OBVIOUS
  <2>1. t + Len(p) - 1 \in 1..Len(s) /\ Ends(p, s, t + Len(p) - 1, Len(p))
    BY PlaceIsAnEnd
  <2>2. Reached(p, s, t + Len(p) - 1)
    BY <2>1 DEF Reached
  <2> QED BY <1>2, <2>1, <2>2
<1>5. CASE ends = {}
  <2>1. place = 0
    BY <1>1, <1>5
  <2>2. \A t \in 1..Len(s) : ~OccursAt(p, s, t)
    BY <1>4, <1>5
  <2> QED BY <2>1, <2>2 DEF FindsEarliest, place
<1>6. CASE ends # {}
  <2>1. first \in ends /\ \A u \in ends : first <= u
    BY <1>3, <1>6, LeastElement
  <2> HIDE DEF first
  <2>2. first \in 1..Len(s) /\ Reached(p, s, first)
    BY <1>2, <1>3, <2>1
  <2>3. PICK u \in 0..first : Ends(p, s, u, Len(p))
    BY <2>2 DEF Reached
  <2>4. u \in 1..Len(s) /\ Len(p) <= u
    BY <2>2, <2>3 DEF Ends
  <2>5. u \in ends
    BY <1>2, <2>3, <2>4 DEF Reached
  <2>6. u = first
    BY <2>1, <2>2, <2>5
  <2>7. place = first - Len(p) + 1 /\ place \in 1..Len(s) /\ place + Len(p) - 1 = first
    BY <1>1, <1>6, <2>2, <2>4, <2>6
  <2>8. OccursAt(p, s, place)
    BY <2>2, <2>3, <2>6, <2>7, PlaceIsAnEnd
  <2>9. ASSUME NEW t \in 1..(place - 1) PROVE ~OccursAt(p, s, t)
    <3>1. t \in Nat \ {0} /\ t + Len(p) - 1 < first
      BY <2>7
    <3> QED BY <1>4, <2>1, <2>2, <3>1
  <2> QED BY <2>7, <2>8, <2>9 DEF FindsEarliest, place
<1> QED BY <1>5, <1>6

(* The search of kmp.cpp finds the earliest place of a pattern in a text,  *)
(* and reports none only if there is none.                                 *)
THEOREM KmpSearchIsRight ==
  ASSUME NEW S, NEW pattern \in Seq(S), NEW text \in Seq(S), pattern # <<>>
  PROVE  FindsEarliest(pattern, text, KmpSearch(pattern, text))
<1>1. Len(pattern) \in Nat \ {0} /\ Len(text) \in Nat
  OBVIOUS
<1> QED BY <1>1, FirstEndIsFound

-----------------------------------------------------------------------------
(* A process that has not started, and one that has found all, know it.    *)
PhaseInv ==
  /\ phase = "off" => found = NoneFound /\ written = 0
  /\ phase \in {"hook", "save", "ready"} => AllFound(found, config)
  /\ phase = "disabled" => ~AllFound(found, config)
  /\ phase = "save" => Len(cacheFile) = written

(* A pattern whose place is not known is not in section n.                 *)
NotIn(n, j) ==
  found[PointOf[j]] = 0 /\ Len(Image[game][n].code) >= MinSize =>
    \A a \in Nat : ~Matches(Image[game][n], j, a)

(* What the search has passed it has looked at.                            *)
SearchedInv ==
  /\ phase = "search" =>
       \A n \in 1..Len(Image[game]), j \in Enabled[config] : n < section => NotIn(n, j)
  /\ phase = "disabled" =>
       \A n \in 1..Len(Image[game]), j \in Enabled[config] : NotIn(n, j)

IInv == TypeOK /\ RealCode /\ PhaseInv /\ SearchedInv

-----------------------------------------------------------------------------
(* The shapes of the constants.                                            *)
LEMMA Shapes ==
  /\ NumPatterns \in Nat /\ Slots \in Nat /\ MinSize \in Nat /\ MaxStops \in Nat
  /\ NumPatterns < Slots
  /\ \A j \in PatternIds : /\ Len(Pattern[j]) \in Nat /\ Len(Pattern[j]) > 0
                           /\ Offset[j] \in Nat /\ PointOf[j] \in Points
  /\ Variation \in [PatternIds -> 0..NumPatterns]
  /\ \A c \in Configs : Enabled[c] \subseteq PatternIds
  /\ \A c \in Configs : \A R \in Required[c] : R \subseteq Points
  /\ \A g \in Games : /\ Len(Image[g]) \in Nat
                      /\ \A n \in 1..Len(Image[g]) :
                           /\ Image[g][n].base \in Nat \ {0}
                           /\ Len(Image[g][n].code) \in Nat
<1> DEFINE Part == [base : Nat \ {0}, code : Seq(Nat)]
<1>1. ASSUME NEW g \in Games
      PROVE  /\ Len(Image[g]) \in Nat
             /\ \A n \in 1..Len(Image[g]) : Image[g][n] \in Part
  <2>1. Image[g] \in Seq(Part)
    BY SizesAssumption
  <2> HIDE DEF Part
  <2> QED BY <2>1
<1>2. ASSUME NEW s \in Part PROVE s.base \in Nat \ {0} /\ Len(s.code) \in Nat
  OBVIOUS
<1>3. \A j \in PatternIds : Len(Pattern[j]) \in Nat
  BY SizesAssumption
<1> HIDE DEF Part
<1> QED BY <1>1, <1>2, <1>3, SizesAssumption

(* A match in a section that is looked at is a place of the pattern.       *)
LEMMA MatchIsPlace ==
  ASSUME NEW g \in Games, NEW n \in 1..Len(Image[g]), NEW j \in PatternIds,
         NEW a \in Nat, Matches(Image[g][n], j, a),
         Len(Image[g][n].code) >= MinSize
  PROVE  a \in Places(g, j) /\ a # 0
<1> DEFINE s == Image[g][n]
<1>1. s \in {t \in Sections(g) : Len(t.code) >= MinSize}
  BY DEF Sections
<1>2. a \in s.base..(s.base + Len(s.code)) /\ a # 0
  <2>1. s.base \in Nat \ {0} /\ Len(s.code) \in Nat /\ Len(Pattern[j]) \in Nat
    BY Shapes
  <2>2. s.base <= a /\ a + Len(Pattern[j]) <= s.base + Len(s.code)
    BY DEF Matches
  <2> QED BY <2>1, <2>2
<1> QED BY <1>1, <1>2 DEF Places

(* A section has a match of a pattern exactly if the search reports one,   *)
(* and the report is a match.                                              *)
LEMMA SearchReports ==
  ASSUME NEW g \in Games, NEW n \in 1..Len(Image[g]), NEW j \in PatternIds
  PROVE  LET s == Image[g][n]
             t == KmpSearch(Pattern[j], s.code)
         IN /\ t = 0 => \A a \in Nat : ~Matches(s, j, a)
            /\ t # 0 => t \in Nat /\ s.base + t - 1 \in Nat /\ Matches(s, j, s.base + t - 1)
<1> DEFINE s == Image[g][n]
           p == Pattern[j]
           t == KmpSearch(p, s.code)
<1>1. /\ s.base \in Nat \ {0} /\ s.code \in Seq(Nat) /\ Len(s.code) \in Nat
      /\ p \in Seq(Nat) /\ Len(p) \in Nat \ {0} /\ p # <<>>
  <2> DEFINE Part == [base : Nat \ {0}, code : Seq(Nat)]
  <2>1. Image[g] \in Seq(Part)
    BY SizesAssumption
  <2>2. p \in Seq(Nat) /\ Len(p) > 0
    BY SizesAssumption
  <2> HIDE DEF Part, p
  <2>3. s \in Part
    BY <2>1
  <2> HIDE DEF s
  <2>4. s.base \in Nat \ {0} /\ s.code \in Seq(Nat)
    BY <2>3 DEF Part
  <2>5. p # <<>> /\ Len(p) \in Nat /\ Len(s.code) \in Nat
    BY <2>2, <2>4
  <2> QED BY <2>2, <2>4, <2>5
<1> HIDE DEF s, p
<1>2. FindsEarliest(p, s.code, t)
  BY <1>1, KmpSearchIsRight
<1> HIDE DEF t
<1>3. ASSUME NEW a \in Nat
      PROVE  OccursAt(p, s.code, a - s.base + 1) <=> Matches(s, j, a)
  <2> DEFINE u == a - s.base + 1
  <2>1. u \in 1..Len(s.code) /\ u + Len(p) - 1 <= Len(s.code) <=>
          s.base <= a /\ a + Len(p) <= s.base + Len(s.code)
    <3> DEFINE b == s.base
               k == Len(p)
               l == Len(s.code)
    <3>1. a \in Nat /\ b \in Nat /\ k \in Nat \ {0} /\ l \in Nat
      BY <1>1
    <3> HIDE DEF b, k, l
    <3>2. a - b + 1 \in 1..l /\ a - b + 1 + k - 1 <= l <=> b <= a /\ a + k <= b + l
      BY <3>1
    <3> QED BY <3>2 DEF b, k, l
  <2>2. \A i \in 1..Len(p) : u + i - 1 = a - s.base + i
    BY <1>1
  <2> QED BY <2>1, <2>2 DEF OccursAt, Matches, p
<1>4. CASE t = 0
  <2>1. ASSUME NEW a \in Nat PROVE ~Matches(s, j, a)
    <3>1. ~OccursAt(p, s.code, a - s.base + 1)
      BY <1>2, <1>4 DEF FindsEarliest, OccursAt
    <3> QED BY <1>3, <3>1
  <2> QED BY <1>4, <2>1 DEF s, t, p
<1>5. CASE t # 0
  <2>1. OccursAt(p, s.code, t) /\ t \in Nat
    BY <1>2, <1>5 DEF FindsEarliest, OccursAt
  <2>2. s.base + t - 1 \in Nat /\ (s.base + t - 1) - s.base + 1 = t
    BY <1>1, <1>5, <2>1
  <2>3. Matches(s, j, s.base + t - 1)
    BY <1>3, <2>1, <2>2
  <2> QED BY <1>5, <2>1, <2>2, <2>3 DEF s, t, p
<1> QED BY <1>4, <1>5

(* What one pass over a section does to the known places: no place is      *)
(* forgotten, a new one is real, and a place that stays unknown was not    *)
(* reported by any of its patterns.                                        *)
LEMMA PassIsSound ==
  ASSUME IInv, MoreSections, Examined,
         NEW J \in SUBSET Enabled[config], NEW at,
         \A j \in J : /\ found[PointOf[j]] = 0
                      /\ at[j] \in Nat /\ Matches(Section, j, at[j])
  PROVE  LET f == FoundBy(J, at)
         IN /\ f \in [Points -> Nat]
            /\ \A x \in Points : f[x] # 0 => f[x] \in Plain(x)
            /\ \A x \in Points : found[x] # 0 => f[x] # 0
            /\ \A j \in J : f[PointOf[j]] # 0
<1> DEFINE f == FoundBy(J, at)
<1>1. game \in Games /\ config \in Configs /\ section \in 1..Len(Image[game])
  BY Shapes DEF IInv, TypeOK, MoreSections
<1>2. J \subseteq PatternIds
  BY <1>1, Shapes
<1>3. ASSUME NEW j \in J PROVE at[j] \in Places(game, j) /\ at[j] # 0
  BY <1>1, <1>2, <1>3, MatchIsPlace DEF Section, Examined
<1>4. ASSUME NEW x \in Points, NEW i \in J, PointOf[i] = x
      PROVE  \E j \in J : PointOf[j] = x /\ f[x] = at[j] + Offset[j]
  <2> DEFINE c == CHOOSE j \in J : PointOf[j] = x
  <2>1. c \in J /\ PointOf[c] = x
    BY <1>4
  <2>2. f[x] = at[c] + Offset[c]
    BY <1>4 DEF FoundBy
  <2> QED BY <2>1, <2>2
<1>5. ASSUME NEW x \in Points, \A j \in J : PointOf[j] # x
      PROVE  f[x] = found[x]
  BY <1>5 DEF FoundBy
<1>6. ASSUME NEW x \in Points, NEW i \in J, PointOf[i] = x
      PROVE  f[x] \in Nat /\ f[x] # 0 /\ f[x] \in Plain(x)
  <2>1. PICK j \in J : PointOf[j] = x /\ f[x] = at[j] + Offset[j]
    BY <1>6, <1>4
  <2>2. f[x] \in Nat /\ f[x] # 0
    BY <2>1, <1>2, <1>3, Shapes
  <2>3. at[j] + Offset[j] \in {a + Offset[j] : a \in Places(game, j)}
    BY <1>3
  <2>4. j \in {k \in Enabled[config] : PointOf[k] = x}
    BY <2>1
  <2> QED BY <2>1, <2>2, <2>3, <2>4 DEF Plain
<1>7. f \in [Points -> Nat]
  <2>1. \A x \in Points : f[x] \in Nat
    BY <1>5, <1>6 DEF IInv, TypeOK
  <2> QED BY <2>1 DEF FoundBy
<1>8. \A x \in Points : f[x] # 0 => f[x] \in Plain(x)
  BY <1>5, <1>6 DEF IInv, RealCode
<1>9. \A x \in Points : found[x] # 0 => f[x] # 0
  BY <1>5, <1>6
<1>10. \A j \in J : f[PointOf[j]] # 0
  BY <1>2, <1>6, Shapes
<1> QED BY <1>7, <1>8, <1>9, <1>10

-----------------------------------------------------------------------------
(* No process is running at first.                                         *)
LEMMA InitIInv == Init => IInv
<1> SUFFICES ASSUME Init PROVE IInv
  OBVIOUS
<1>1. \A x \in Points : found[x] = 0
  BY DEF Init, NoneFound
<1>2. TypeOK
  BY Shapes DEF Init, TypeOK, Phases, NoHints, NoneFound
<1> QED BY <1>1, <1>2 DEF Init, IInv, RealCode, PhaseInv, SearchedInv

(* The steps that look at a section: by the hints ...                      *)
LEMMA LookAtHintsIInv == IInv /\ LookAtHints => IInv'
<1> SUFFICES ASSUME IInv, LookAtHints PROVE IInv'
  OBVIOUS
<1> DEFINE J == Finders(Hinted)
<1>1. /\ game \in Games /\ config \in Configs /\ hints \in [0..(Slots - 1) -> Nat]
      /\ section \in Nat \ {0} /\ found \in [Points -> Nat] /\ phase = "hints"
  BY DEF IInv, TypeOK, LookAtHints
<1>2. Enabled[config] \subseteq 1..NumPatterns /\ NumPatterns < Slots
      /\ NumPatterns \in Nat /\ Slots \in Nat
  BY <1>1, Shapes DEF PatternIds
<1>3. ASSUME NEW j \in J
      PROVE  j \in Enabled[config] /\ found[PointOf[j]] = 0 /\ HintMatches(j)
  BY <1>3 DEF Finders, Hinted
<1>4. ASSUME NEW j \in J PROVE hints[j] \in Nat
  <2> HIDE DEF J
  <2>1. j \in 0..(Slots - 1)
    BY <1>2, <1>3, <1>4
  <2> QED BY <2>1, <1>1
<1>5. /\ found' \in [Points -> Nat]
      /\ \A x \in Points : found'[x] # 0 => found'[x] \in Plain(x)
  <2>1. CASE ~Examined
    BY <2>1, <1>1 DEF LookAtHints, IInv, RealCode
  <2>2. CASE Examined
    <3>1. J \in SUBSET Enabled[config] /\ MoreSections /\ found' = FoundBy(J, hints)
      BY <2>2, <1>3 DEF LookAtHints
    <3>2. \A j \in J : Matches(Section, j, hints[j])
      BY <1>3 DEF HintMatches
    <3> QED BY <2>2, <3>1, <3>2, <1>3, <1>4, PassIsSound
  <2> QED BY <2>1, <2>2
<1>6. RealCode'
  BY <1>5 DEF LookAtHints, RealCode, Plain
<1>7. TypeOK'
  BY <1>5, <1>1 DEF LookAtHints, IInv, TypeOK, Phases
<1>8. PhaseInv' /\ SearchedInv'
  BY <1>1 DEF LookAtHints, PhaseInv, SearchedInv, AllFound
<1> QED BY <1>6, <1>7, <1>8 DEF IInv

(* ... and by a search, after which the section has no pattern of a place  *)
(* that is still unknown: two patterns of one place are never both there.  *)
LEMMA SearchSectionIInv == IInv /\ SearchSection => IInv'
<1> SUFFICES ASSUME IInv, SearchSection PROVE IInv'
  OBVIOUS
<1> DEFINE J == IF Examined THEN Finders(Present) ELSE {}
           at == [j \in J |-> Section.base + KmpSearch(Pattern[j], Section.code) - 1]
           touched == {len} \cup {j + 1 : j \in J \cup Outdated(J)}
<1>1. /\ game \in Games /\ config \in Configs /\ hints \in [0..(Slots - 1) -> Nat]
      /\ section \in Nat \ {0} /\ found \in [Points -> Nat] /\ phase = "search"
      /\ section \in 1..Len(Image[game])
  BY Shapes DEF IInv, TypeOK, SearchSection, MoreSections
<1>2. Enabled[config] \subseteq PatternIds /\ PatternIds = 1..NumPatterns
      /\ NumPatterns < Slots /\ NumPatterns \in Nat /\ Slots \in Nat
  BY <1>1, Shapes DEF PatternIds
<1>3. ASSUME NEW j \in J
      PROVE  j \in Enabled[config] /\ found[PointOf[j]] = 0 /\ SearchFinds(j)
  BY <1>3 DEF Finders, Present
<1>4. ASSUME NEW j \in J PROVE at[j] \in Nat /\ Matches(Section, j, at[j])
  <2>1. KmpSearch(Pattern[j], Section.code) # 0
    BY <1>4, <1>3 DEF SearchFinds
  <2> QED BY <2>1, <1>1, <1>2, <1>3, <1>4, SearchReports DEF Section
<1>5. found' = FoundBy(J, at)
  BY DEF SearchSection
<1>6. /\ found' \in [Points -> Nat]
      /\ \A x \in Points : found'[x] # 0 => found'[x] \in Plain(x)
      /\ \A x \in Points : found[x] # 0 => found'[x] # 0
      /\ \A j \in J : found'[PointOf[j]] # 0
  <2>1. CASE ~Examined
    <3>1. J = {}
      BY <2>1
    <3>2. found' = [x \in Points |-> found[x]]
      BY <3>1, <1>5 DEF FoundBy
    <3> HIDE DEF J
    <3> QED BY <3>1, <3>2, <1>1 DEF IInv, RealCode
  <2>2. CASE Examined
    <3>1. J \in SUBSET Enabled[config] /\ MoreSections
      BY <1>3 DEF SearchSection
    <3> HIDE DEF J, at
    <3> QED BY <2>2, <3>1, <1>3, <1>4, <1>5, PassIsSound
  <2> QED BY <2>1, <2>2
<1>7. ASSUME NEW j \in Enabled[config], found'[PointOf[j]] = 0, Examined, NEW a \in Nat
      PROVE  ~Matches(Section, j, a)
  <2>1. found[PointOf[j]] = 0 /\ j \notin J
    BY <1>2, <1>6, <1>7, Shapes
  <2>2. SUFFICES ASSUME SearchFinds(j) PROVE FALSE
    BY <1>1, <1>2, SearchReports DEF SearchFinds, Section
  <2>3. PICK i \in Enabled[config] : i < j /\ PointOf[i] = PointOf[j] /\ SearchFinds(i)
    <3>1. j \in Present /\ j \notin Finders(Present)
      BY <2>1, <2>2, <1>7 DEF Present
    <3>2. PICK i \in Present : PointOf[j] = PointOf[i] /\ ~(j <= i)
      BY <3>1, <2>1 DEF Finders
    <3> QED BY <3>2, <1>2 DEF Present
  <2>4. \A k \in {i, j} : \E b \in Nat : b \in Places(game, k)
    <3>1. SUFFICES ASSUME NEW k \in {i, j} PROVE \E b \in Nat : b \in Places(game, k)
      OBVIOUS
    <3>2. SearchFinds(k) /\ k \in PatternIds
      BY <2>2, <2>3, <1>2
    <3> DEFINE b == Section.base + KmpSearch(Pattern[k], Section.code) - 1
    <3>3. b \in Nat /\ Matches(Section, k, b)
      BY <3>2, <1>1, SearchReports DEF SearchFinds, Section
    <3>4. b \in Places(game, k)
      BY <3>2, <3>3, <1>1, <1>7, MatchIsPlace DEF Section, Examined
    <3> QED BY <3>3, <3>4
  <2>5. i = j
    BY <2>3, <2>4, <1>1, <1>2, UniquePatterns
  <2> QED BY <2>3, <2>5, <1>2
<1>8. ASSUME NEW n \in 1..Len(Image[game]), NEW j \in Enabled[config], n < section + 1
      PROVE  found'[PointOf[j]] = 0 /\ Len(Image[game][n].code) >= MinSize =>
               \A a \in Nat : ~Matches(Image[game][n], j, a)
  <2>1. CASE n = section
    BY <2>1, <1>7 DEF Section, Examined
  <2>2. CASE n # section
    <3>1. n < section
      BY <2>2, <1>1, <1>8
    <3>2. PointOf[j] \in Points
      BY <1>2, Shapes
    <3>3. NotIn(n, j)
      BY <3>1, <1>1 DEF IInv, SearchedInv
    <3> QED BY <3>2, <3>3, <1>6 DEF NotIn
  <2> QED BY <2>1, <2>2
<1>9. RealCode'
  BY <1>6 DEF SearchSection, RealCode, Plain
<1>10. len \in 0..Slots /\ len' \in len..Slots
  <2>1. len \in 0..Slots
    BY DEF IInv, TypeOK
  <2>2. \A j \in J \cup Outdated(J) : j + 1 \in 0..Slots
    <3>1. Outdated(J) \subseteq PatternIds
      BY DEF Outdated
    <3>2. J \subseteq PatternIds
      BY <1>2, <1>3
    <3> HIDE DEF J
    <3> QED BY <1>2, <3>1, <3>2
  <2>3. len' \in touched /\ len <= len'
    BY DEF SearchSection
  <2> HIDE DEF J
  <2> QED BY <2>1, <2>2, <2>3
<1>11. hints' \in [0..(Slots - 1) -> Nat]
  <2>1. hints' = [j \in DOMAIN hints |->
                    CASE j \in J -> at[j]
                      [] j \in Outdated(J) \ J -> 0
                      [] OTHER -> hints[j]]
    BY DEF SearchSection
  <2> HIDE DEF J, at
  <2> QED BY <2>1, <1>1, <1>4
<1>12. TypeOK'
  <2>1. /\ UNCHANGED <<cacheFile, game, config, written, stops>>
        /\ phase' \in {"hook", "search"} /\ section' = section + 1
    BY <1>1 DEF SearchSection
  <2> HIDE DEF J
  <2> QED BY <2>1, <1>1, <1>6, <1>10, <1>11 DEF IInv, TypeOK, Phases
<1>13. PhaseInv'
  BY <1>1 DEF SearchSection, PhaseInv
<1>14. SearchedInv'
  BY <1>1, <1>8 DEF SearchSection, SearchedInv, NotIn
<1> QED BY <1>9, <1>12, <1>13, <1>14 DEF IInv

(* The passes end: what the search has not found is not there.             *)
LEMMA PassEndsIInv == IInv /\ (BeginSearch \/ GiveUp) => IInv'
<1> SUFFICES ASSUME IInv, BeginSearch \/ GiveUp PROVE IInv'
  OBVIOUS
<1>1. /\ UNCHANGED <<cacheFile, game, config, hints, len, found, written, stops>>
      /\ phase \in {"hints", "search"} /\ ~MoreSections
      /\ phase' = IF AllFound(found, config) THEN "hook"
                  ELSE IF phase = "hints" THEN "search" ELSE "disabled"
      /\ section' = IF phase = "hints" THEN 1 ELSE section
  BY DEF BeginSearch, GiveUp
<1>2. TypeOK'
  BY <1>1 DEF IInv, TypeOK, Phases
<1>3. RealCode'
  BY <1>1 DEF IInv, RealCode, Plain
<1>4. PhaseInv'
  BY <1>1 DEF PhaseInv, AllFound
<1>5. SearchedInv'
  <2>1. ASSUME phase' = "search" PROVE section' = 1
    BY <1>1, <2>1
  <2>2. ASSUME phase' = "disabled", NEW n \in 1..Len(Image[game]), NEW j \in Enabled[config]
        PROVE  NotIn(n, j)
    <3>1. phase = "search"
      BY <1>1, <2>2
    <3>2. n < section
      BY <1>1, Shapes DEF IInv, TypeOK, MoreSections
    <3> QED BY <3>1, <3>2 DEF IInv, SearchedInv
  <2>3. phase' = "search" => \A n \in 1..Len(Image[game]) : ~(n < section')
    BY <2>1, Shapes DEF IInv, TypeOK
  <2> QED BY <1>1, <2>2, <2>3 DEF SearchedInv, NotIn
<1> QED BY <1>2, <1>3, <1>4, <1>5 DEF IInv

(* Loading, saving, stopping and changing keep the invariant: what is left *)
(* in the file is a list of numbers, true or not.                          *)
LEMMA FileStepsIInv ==
  ASSUME IInv,
         \/ Load \/ Hook \/ CannotSave \/ SaveEntry \/ CannotWrite
         \/ Saved \/ Exit \/ Stop
         \/ \E g \in Games, c \in Configs : Change(g, c)
  PROVE  IInv'
<1>1. TypeOK /\ RealCode /\ PhaseInv /\ SearchedInv
  BY DEF IInv
<1>2. \A x \in Points : NoneFound[x] = 0
  BY DEF NoneFound
<1>3. CASE Load
  <2>1. Len(cacheFile) \in 0..Slots /\ \A i \in 0..(Slots - 1) : Loaded(i) \in Nat
    BY <1>1, Shapes DEF TypeOK, Loaded
  <2>2. TypeOK'
    BY <1>1, <1>3, <2>1 DEF Load, TypeOK, Phases, PhaseInv
  <2> QED BY <1>1, <1>3, <2>2 DEF Load, IInv, RealCode, Plain, PhaseInv, SearchedInv
<1>4. CASE Hook \/ CannotSave \/ CannotWrite \/ Saved
  <2>1. TypeOK'
    <3>1. cacheFile' \in Seq(Nat) /\ Len(cacheFile') <= Slots /\ written' \in 0..len
      <4>1. CASE Hook
        <5>1. cacheFile' = <<>> /\ written' = 0 /\ len \in Nat
          BY <1>1, <4>1, Shapes DEF Hook, TypeOK
        <5> QED BY <5>1, Shapes
      <4>2. CASE CannotSave \/ CannotWrite \/ Saved
        BY <1>1, <4>2 DEF CannotSave, CannotWrite, Saved, TypeOK
      <4> QED BY <1>4, <4>1, <4>2
    <3> QED BY <1>1, <1>4, <3>1 DEF Hook, CannotSave, CannotWrite, Saved, TypeOK, Phases
  <2> QED BY <1>1, <1>4, <2>1 DEF Hook, CannotSave, CannotWrite, Saved, IInv, RealCode, Plain,
         PhaseInv, SearchedInv, AllFound
<1>5. CASE SaveEntry
  <2>1. hints[written] \in Nat
    BY <1>1, <1>5, Shapes DEF SaveEntry, MoreToSave, TypeOK
  <2>2. cacheFile' \in Seq(Nat) /\ Len(cacheFile') = Len(cacheFile) + 1
    BY <1>1, <1>5, <2>1 DEF SaveEntry, TypeOK
  <2>3. written' \in 0..len
    BY <1>1, <1>5 DEF SaveEntry, MoreToSave, TypeOK
  <2>4. TypeOK'
    <3>1. Len(cacheFile') <= Slots
      BY <1>1, <1>5, <2>2, <2>3, Shapes DEF SaveEntry, MoreToSave, TypeOK, PhaseInv
    <3> QED BY <1>1, <1>5, <2>2, <2>3, <3>1 DEF SaveEntry, TypeOK, Phases
  <2> QED BY <1>1, <1>5, <2>4
          DEF SaveEntry, IInv, RealCode, Plain, PhaseInv, SearchedInv, AllFound
<1>6. CASE Exit \/ Stop
  <2>1. TypeOK'
    BY <1>1, <1>6, Shapes DEF Exit, Stop, Off, TypeOK, Phases, NoHints, NoneFound
  <2> QED BY <1>1, <1>2, <1>6, <2>1 DEF Exit, Stop, Off, IInv, RealCode, PhaseInv, SearchedInv
<1>7. ASSUME NEW g \in Games, NEW c \in Configs, Change(g, c) PROVE IInv'
  <2>1. TypeOK'
    BY <1>1, <1>7 DEF Change, process, TypeOK
  <2> QED BY <1>1, <1>2, <1>7, <2>1 DEF Change, process, IInv, RealCode, PhaseInv, SearchedInv
<1> QED BY <1>3, <1>4, <1>5, <1>6, <1>7

(* The invariant is kept by every step.                                    *)
LEMMA StepIInv == IInv /\ [Next]_vars => IInv'
<1> SUFFICES ASSUME IInv, [Next]_vars PROVE IInv'
  OBVIOUS
<1>1. CASE UNCHANGED vars
  BY <1>1 DEF vars, process, IInv, TypeOK, RealCode, Plain, PhaseInv, SearchedInv,
              NotIn, AllFound
<1> QED BY <1>1, LookAtHintsIInv, SearchSectionIInv, PassEndsIInv, FileStepsIInv
        DEF Next

LEMMA Invariance == Spec => []IInv
<1> QED BY InitIInv, StepIInv, PTL DEF Spec

(* No pattern of an unfound place is anywhere in the game after a search.  *)
LEMMA DecisionIsPlain == IInv => CacheNeverDecides
<1> SUFFICES ASSUME IInv PROVE CacheNeverDecides
  OBVIOUS
<1>1. game \in Games /\ config \in Configs /\ Enabled[config] \subseteq PatternIds
  BY Shapes DEF IInv, TypeOK
<1>2. ASSUME phase \in {"hook", "save", "ready"}, NEW R \in Required[config]
      PROVE  \E x \in R : Plain(x) # {}
  <2>1. PICK x \in R : found[x] # 0
    BY <1>2 DEF IInv, PhaseInv, AllFound
  <2> QED BY <1>1, <2>1, Shapes DEF IInv, RealCode
<1>3. ASSUME phase = "disabled"
      PROVE  \E R \in Required[config] : \A x \in R : Plain(x) = {}
  <2>1. PICK R \in Required[config] : \A x \in R : found[x] = 0
    BY <1>3 DEF IInv, PhaseInv, AllFound
  <2>2. ASSUME NEW x \in R, NEW j \in Enabled[config], PointOf[j] = x
        PROVE  Places(game, j) = {}
    <3>1. ASSUME NEW n \in 1..Len(Image[game]), Len(Image[game][n].code) >= MinSize,
                 NEW a \in Nat
          PROVE  ~Matches(Image[game][n], j, a)
      BY <1>3, <2>1, <2>2, <3>1 DEF IInv, SearchedInv, NotIn
    <3>2. ASSUME NEW s \in Sections(game), Len(s.code) >= MinSize,
                 NEW a \in s.base..(s.base + Len(s.code))
          PROVE  ~Matches(s, j, a)
      <4>1. PICK n \in 1..Len(Image[game]) : s = Image[game][n]
        BY DEF Sections
      <4>2. a \in Nat
        BY <4>1, <3>2, <1>1, Shapes
      <4> QED BY <3>1, <3>2, <4>1, <4>2
    <3> QED BY <3>2 DEF Places
  <2> QED BY <2>1, <2>2 DEF Plain
<1> QED BY <1>2, <1>3 DEF CacheNeverDecides

-----------------------------------------------------------------------------
(* The start-up's variables keep their types: neither the table nor the    *)
(* file outgrows the table's size.                                         *)
THEOREM StartUpTypeCorrect == Spec => []TypeOK
<1>1. IInv => TypeOK
  BY DEF IInv
<1> QED BY <1>1, Invariance, PTL

(* No stale, foreign or half-written hint makes sider write over code that *)
(* it does not know.                                                       *)
THEOREM HooksRealCode == Spec => []RealCode
<1>1. IInv => RealCode
  BY DEF IInv
<1> QED BY <1>1, Invariance, PTL

(* Whether sider is enabled depends on the game and the configuration and  *)
(* not on the cache.                                                       *)
THEOREM CacheIsAHint == Spec => []CacheNeverDecides
<1> QED BY DecisionIsPlain, Invariance, PTL
-----------------------------------------------------------------------------
(* A saved cache spares the search.                                        *)

(* The pattern j is where the hint h says, in section n of the game.       *)
Confirmed(g, n, j, h) ==
  Len(Image[g][n].code) >= MinSize /\ h # 0 /\ Matches(Image[g][n], j, h)

(* The hints are those of the file, and what they could find in the        *)
(* sections passed is found.                                               *)
HintsInv ==
  /\ phase = "off" => section = 1
  /\ phase = "hints" =>
       /\ len = Len(cacheFile) /\ \A i \in 0..(Slots - 1) : hints[i] = Loaded(i)
       /\ \A n \in 1..Len(Image[game]), j \in Enabled[config] :
            n < section /\ Confirmed(game, n, j, hints[j]) => found[PointOf[j]] # 0

(* Some hint, among those that save() would write, would find x again.     *)
Backed(x) ==
  \E j \in Enabled[config], n \in 1..Len(Image[game]) :
    PointOf[j] = x /\ j < len /\ Confirmed(game, n, j, hints[j])

BackedInv ==
  phase \in {"hints", "search", "hook", "save"} =>
    \A x \in Points : found[x] # 0 => Backed(x)

(* The hints of the file find all that configuration c needs of game g.    *)
Sufficient(g, c) ==
  \A R \in Required[c] : \E x \in R :
    \E j \in Enabled[c], n \in 1..Len(Image[g]) :
      /\ PointOf[j] = x /\ j < Len(cacheFile)
      /\ Confirmed(g, n, j, cacheFile[j + 1])

(* A file that is being written is no saved one, and a saved one suffices. *)
SavedInv ==
  /\ phase = "save" =>
       warm = <<>> /\ \A i \in 0..(written - 1) : cacheFile[i + 1] = hints[i]
  /\ \A g \in Games, c \in Configs : warm = <<g, c>> => Sufficient(g, c)

WarmInv == HintsInv /\ BackedInv /\ SavedInv

LEMMA WarmInitially == Init => WarmInv
BY DEF Init, WarmInv, HintsInv, BackedInv, SavedInv

(* In what a pass over a section finds, the places known before are known, *)
(* and each other one is that of a pattern found there.                    *)
LEMMA PassFinds ==
  ASSUME NEW J, NEW at, NEW x \in Points, FoundBy(J, at)[x] # 0
  PROVE  found[x] # 0 \/ \E j \in J : PointOf[j] = x
BY DEF FoundBy

(* Of the patterns that find something, those of an unknown place have one *)
(* among them that is taken.                                               *)
LEMMA PassTakesOne ==
  ASSUME NEW S \in SUBSET PatternIds, NEW j \in S, found[PointOf[j]] = 0
  PROVE  \E i \in Finders(S) : PointOf[i] = PointOf[j]
<1> DEFINE T == {i \in S : PointOf[i] = PointOf[j]}
<1>1. T \subseteq Nat /\ T # {}
  <2>1. PatternIds \subseteq Nat
    BY Shapes DEF PatternIds
  <2> QED BY <2>1
<1>2. PICK i \in T : \A k \in T : i <= k
  <2> HIDE DEF T
  <2> QED BY <1>1, LeastElement
<1> QED BY <1>2 DEF Finders

(* The hints are looked at: their place is known then.                     *)
LEMMA WarmLooksAtHints == IInv /\ WarmInv /\ LookAtHints => WarmInv'
<1> SUFFICES ASSUME IInv, WarmInv, LookAtHints PROVE WarmInv'
  OBVIOUS
<1> DEFINE J == Finders(Hinted)
<1>1. /\ phase = "hints" /\ game \in Games /\ config \in Configs
      /\ section \in 1..Len(Image[game]) /\ section' = section + 1
      /\ UNCHANGED <<cacheFile, game, config, hints, len, written, warm>>
      /\ phase' \in {"hints", "hook"}
  BY Shapes DEF LookAtHints, IInv, TypeOK, MoreSections
<1>2. found' = IF Examined THEN FoundBy(J, hints) ELSE found
  BY DEF LookAtHints
<1>3. Enabled[config] \subseteq PatternIds /\ Hinted \subseteq PatternIds
      /\ \A j \in PatternIds : PointOf[j] \in Points
  BY <1>1, Shapes DEF Hinted
<1>4. ASSUME NEW j \in J
      PROVE  j \in Enabled[config] /\ found[PointOf[j]] = 0 /\ HintMatches(j)
  BY <1>4 DEF Finders, Hinted
<1>5. ASSUME NEW j \in J PROVE j < len /\ hints[j] \in Nat /\ hints[j] # 0
  <2>1. j \in 1..NumPatterns /\ hints[j] # 0
    BY <1>3, <1>4, <1>5 DEF HintMatches, PatternIds
  <2>2. j \in 0..(Slots - 1)
    BY <2>1, Shapes
  <2>3. hints[j] = Loaded(j) /\ len = Len(cacheFile) /\ hints[j] \in Nat
    BY <1>1, <2>2 DEF WarmInv, HintsInv, IInv, TypeOK
  <2> QED BY <2>1, <2>3 DEF Loaded
<1>6. /\ \A x \in Points : found[x] # 0 => found'[x] # 0
      /\ Examined => \A j \in J : found'[PointOf[j]] # 0
  <2>1. CASE ~Examined
    BY <1>2, <2>1
  <2>2. CASE Examined
    <3>1. J \in SUBSET Enabled[config] /\ MoreSections /\ found' = FoundBy(J, hints)
      BY <1>2, <1>4, <2>2 DEF LookAtHints
    <3>2. \A j \in J : Matches(Section, j, hints[j])
      BY <1>4 DEF HintMatches
    <3> HIDE DEF J
    <3> QED BY <2>2, <3>1, <3>2, <1>4, <1>5, PassIsSound
  <2> QED BY <2>1, <2>2
<1>7. HintsInv'
  <2>1. ASSUME NEW n \in 1..Len(Image[game]), NEW j \in Enabled[config],
               n < section + 1, Confirmed(game, n, j, hints[j])
        PROVE  found'[PointOf[j]] # 0
    <3>1. CASE n < section
      BY <1>1, <1>3, <1>6, <2>1, <3>1 DEF WarmInv, HintsInv
    <3>2. CASE n = section
      <4>1. Examined /\ j \in Hinted
        BY <2>1, <3>2 DEF Confirmed, Examined, Section, Hinted, HintMatches
      <4>2. found[PointOf[j]] = 0 => \E i \in J : PointOf[i] = PointOf[j]
        BY <1>3, <4>1, PassTakesOne
      <4> QED BY <1>3, <1>6, <4>1, <4>2
    <3> QED BY <1>1, <2>1, <3>1, <3>2
  <2> QED BY <1>1, <2>1 DEF WarmInv, HintsInv, Loaded, Confirmed
<1>8. BackedInv'
  <2>1. ASSUME NEW x \in Points, found'[x] # 0 PROVE Backed(x)
    <3>1. CASE found[x] # 0
      BY <1>1, <3>1 DEF WarmInv, BackedInv
    <3>2. CASE found[x] = 0
      <4>1. Examined
        BY <1>2, <2>1, <3>2
      <4>2. PICK j \in J : PointOf[j] = x
        BY <1>2, <2>1, <3>2, <4>1, PassFinds
      <4>3. Confirmed(game, section, j, hints[j])
        BY <1>4, <4>1, <4>2 DEF Confirmed, Examined, Section, HintMatches
      <4> QED BY <1>1, <1>4, <1>5, <4>2, <4>3 DEF Backed
    <3> QED BY <3>1, <3>2
  <2> QED BY <1>1, <2>1 DEF BackedInv, Backed, Confirmed
<1>9. SavedInv'
  BY <1>1 DEF WarmInv, SavedInv, Sufficient, Confirmed
<1> QED BY <1>7, <1>8, <1>9 DEF WarmInv

(* A place the search finds gets a hint, and one that is known keeps its.  *)
LEMMA WarmSearches == IInv /\ WarmInv /\ SearchSection => WarmInv'
<1> SUFFICES ASSUME IInv, WarmInv, SearchSection PROVE WarmInv'
  OBVIOUS
<1> DEFINE J == IF Examined THEN Finders(Present) ELSE {}
           at == [j \in J |-> Section.base + KmpSearch(Pattern[j], Section.code) - 1]
           touched == {len} \cup {j + 1 : j \in J \cup Outdated(J)}
<1>1. /\ phase = "search" /\ game \in Games /\ config \in Configs
      /\ hints \in [0..(Slots - 1) -> Nat] /\ len \in Nat
      /\ section \in 1..Len(Image[game])
      /\ UNCHANGED <<cacheFile, game, config, written, warm>>
      /\ phase' \in {"search", "hook"}
  BY Shapes DEF SearchSection, IInv, TypeOK, MoreSections
<1>2. /\ Enabled[config] \subseteq PatternIds /\ PatternIds \subseteq 0..(Slots - 1)
      /\ PatternIds \subseteq Nat
      /\ \A j \in PatternIds : PointOf[j] \in Points
  BY <1>1, Shapes DEF PatternIds
<1>3. ASSUME NEW j \in J
      PROVE  j \in Enabled[config] /\ found[PointOf[j]] = 0 /\ SearchFinds(j) /\ Examined
  BY <1>3 DEF Finders, Present
<1>4. ASSUME NEW j \in J PROVE at[j] \in Nat /\ at[j] # 0 /\ Matches(Section, j, at[j])
  <2>1. KmpSearch(Pattern[j], Section.code) # 0
    BY <1>4, <1>3 DEF SearchFinds
  <2>2. at[j] \in Nat /\ Matches(Section, j, at[j])
    BY <2>1, <1>1, <1>2, <1>3, <1>4, SearchReports DEF Section
  <2>3. at[j] # 0
    BY <1>1, <1>2, <1>3, <1>4, <2>2, MatchIsPlace DEF Section, Examined
  <2> QED BY <2>2, <2>3
<1>5. /\ found' = FoundBy(J, at)
      /\ hints' = [j \in DOMAIN hints |->
                      CASE j \in J -> at[j]
                        [] j \in Outdated(J) \ J -> 0
                        [] OTHER -> hints[j]]
      /\ len' \in touched /\ \A m \in touched : m <= len'
  BY DEF SearchSection
<1> HIDE DEF J, at
<1>6. len <= len' /\ len' \in Nat /\ \A j \in J : j + 1 <= len'
  <2>1. Outdated(J) \subseteq PatternIds /\ J \subseteq PatternIds
    BY <1>2, <1>3 DEF Outdated
  <2> QED BY <1>1, <1>2, <1>5, <2>1
<1>7. ASSUME NEW j \in PatternIds, found[PointOf[j]] # 0 PROVE hints'[j] = hints[j]
  <2>1. j \notin J
    BY <1>3, <1>7
  <2>2. j \notin Outdated(J)
    <3>1. SUFFICES ASSUME j \in Outdated(J) PROVE FALSE
      OBVIOUS
    <3>2. Variation[j] \in J /\ Variation[Variation[j]] \notin {0, j}
      BY <3>1 DEF Outdated
    <3>3. Variation[j] # 0
      BY <1>2, <1>3, <3>2, Shapes DEF PatternIds
    <3>4. PointOf[j] = PointOf[Variation[j]]
      BY <3>2, <3>3, VariationsAgree
    <3> QED BY <1>3, <1>7, <3>2, <3>4
  <2> QED BY <1>1, <1>2, <1>5, <1>7, <2>1, <2>2
<1>8. BackedInv'
  <2>1. ASSUME NEW x \in Points, found'[x] # 0
        PROVE  \E j \in Enabled[config], n \in 1..Len(Image[game]) :
                 PointOf[j] = x /\ j < len' /\ Confirmed(game, n, j, hints'[j])
    <3>1. CASE found[x] # 0
      <4>1. PICK j \in Enabled[config], n \in 1..Len(Image[game]) :
              PointOf[j] = x /\ j < len /\ Confirmed(game, n, j, hints[j])
        BY <1>1, <3>1 DEF WarmInv, BackedInv, Backed
      <4>2. hints'[j] = hints[j]
        BY <1>2, <1>7, <3>1, <4>1
      <4>3. j \in Nat /\ len \in Nat /\ len' \in Nat /\ j < len /\ len <= len'
        BY <1>1, <1>2, <1>6, <4>1
      <4>4. j < len'
        BY <4>3
      <4> QED BY <4>1, <4>2, <4>4
    <3>2. CASE found[x] = 0
      <4>1. PICK j \in J : PointOf[j] = x
        BY <1>5, <2>1, <3>2, PassFinds
      <4>2. hints'[j] = at[j]
        BY <1>1, <1>2, <1>3, <1>5, <4>1
      <4>3. Confirmed(game, section, j, hints'[j])
        BY <1>3, <1>4, <4>1, <4>2 DEF Confirmed, Examined, Section
      <4>4. j \in Nat /\ len' \in Nat /\ j + 1 <= len'
        BY <1>2, <1>3, <1>6, <4>1
      <4>5. j < len'
        BY <4>4
      <4> QED BY <1>1, <1>3, <4>1, <4>3, <4>5
    <3> QED BY <3>1, <3>2
  <2> QED BY <1>1, <2>1 DEF BackedInv, Backed, Confirmed
<1>9. HintsInv' /\ SavedInv'
  BY <1>1 DEF WarmInv, HintsInv, SavedInv, Sufficient, Confirmed
<1> QED BY <1>8, <1>9 DEF WarmInv

(* With a saved cache of this game and configuration the hints do.         *)
LEMMA WarmHintsDo ==
  ASSUME IInv, WarmInv, phase = "hints", ~MoreSections, warm = <<game, config>>
  PROVE  AllFound(found, config)
<1>1. game \in Games /\ config \in Configs /\ section \in Nat
  BY DEF IInv, TypeOK
<1>2. ASSUME NEW R \in Required[config] PROVE \E x \in R : found[x] # 0
  <2>1. PICK x \in R, j \in Enabled[config], n \in 1..Len(Image[game]) :
          /\ PointOf[j] = x /\ j < Len(cacheFile)
          /\ Confirmed(game, n, j, cacheFile[j + 1])
    BY <1>1, <1>2 DEF WarmInv, SavedInv, Sufficient
  <2>2. j \in 0..(Slots - 1)
    BY <1>1, <2>1, Shapes DEF PatternIds
  <2>3. hints[j] = cacheFile[j + 1]
    BY <2>1, <2>2 DEF WarmInv, HintsInv, Loaded
  <2>4. n < section
    BY <1>1, <2>1, Shapes DEF MoreSections
  <2> QED BY <2>1, <2>3, <2>4 DEF WarmInv, HintsInv
<1> QED BY <1>2 DEF AllFound

(* What is saved finds all that was found.                                 *)
LEMMA WarmSaves == IInv /\ WarmInv /\ (SaveEntry \/ Saved) => WarmInv'
<1> SUFFICES ASSUME IInv, WarmInv, SaveEntry \/ Saved PROVE WarmInv'
  OBVIOUS
<1>1. /\ phase = "save" /\ game \in Games /\ config \in Configs
      /\ written \in 0..len /\ len \in Nat /\ Len(cacheFile) = written
      /\ cacheFile \in Seq(Nat) /\ hints \in [0..(Slots - 1) -> Nat] /\ len <= Slots
      /\ UNCHANGED <<game, config, hints, len, found>>
  BY Shapes DEF SaveEntry, Saved, IInv, TypeOK, PhaseInv
<1>2. warm = <<>> /\ \A i \in 0..(written - 1) : cacheFile[i + 1] = hints[i]
  BY <1>1 DEF WarmInv, SavedInv
<1>3. \A x \in Points : found[x] # 0 => Backed(x)
  BY <1>1 DEF WarmInv, BackedInv
<1>4. CASE SaveEntry
  <2>1. /\ written < len /\ written' = written + 1 /\ phase' = "save" /\ warm' = <<>>
        /\ cacheFile' = Append(cacheFile, hints[written])
    BY <1>1, <1>2, <1>4 DEF SaveEntry, MoreToSave
  <2>2. hints[written] \in Nat
    BY <1>1, <2>1, Shapes
  <2>3. ASSUME NEW i \in 0..(written' - 1) PROVE cacheFile'[i + 1] = hints[i]
    <3>1. CASE i = written
      BY <1>1, <2>1, <2>2, <3>1
    <3>2. CASE i # written
      <4>1. i \in 0..(written - 1) /\ i + 1 \in 1..Len(cacheFile)
        BY <1>1, <2>1, <2>3, <3>2
      <4>2. cacheFile'[i + 1] = cacheFile[i + 1]
        BY <1>1, <2>1, <2>2, <4>1
      <4> QED BY <1>2, <4>1, <4>2
    <3> QED BY <3>1, <3>2
  <2>4. SavedInv'
    BY <1>1, <2>1, <2>3 DEF SavedInv
  <2> QED BY <1>1, <1>3, <2>1, <2>4 DEF WarmInv, HintsInv, BackedInv, Backed, Confirmed
<1>5. CASE Saved
  <2>1. /\ written = len /\ UNCHANGED cacheFile /\ phase' = "ready"
        /\ warm' = <<game, config>>
    BY <1>1, <1>5 DEF Saved, MoreToSave
  <2>2. ASSUME NEW R \in Required[config]
        PROVE  \E x \in R, j \in Enabled[config], n \in 1..Len(Image[game]) :
                 /\ PointOf[j] = x /\ j < Len(cacheFile)
                 /\ Confirmed(game, n, j, cacheFile[j + 1])
    <3>1. PICK x \in R : found[x] # 0
      BY <1>1, <2>2 DEF IInv, PhaseInv, AllFound
    <3>2. x \in Points
      BY <1>1, <2>2, <3>1, Shapes
    <3>3. PICK j \in Enabled[config], n \in 1..Len(Image[game]) :
            PointOf[j] = x /\ j < len /\ Confirmed(game, n, j, hints[j])
      BY <1>3, <3>1, <3>2 DEF Backed
    <3>4. j \in 0..(written - 1)
      BY <1>1, <2>1, <3>3, Shapes DEF PatternIds
    <3>5. cacheFile[j + 1] = hints[j]
      BY <1>2, <3>4
    <3> QED BY <1>1, <2>1, <3>1, <3>3, <3>5
  <2>3. Sufficient(game, config)
    BY <2>2 DEF Sufficient
  <2>4. SavedInv'
    <3>1. ASSUME NEW g \in Games, NEW c \in Configs, warm' = <<g, c>>
          PROVE  g = game /\ c = config
      BY <2>1, <3>1
    <3> QED BY <2>1, <2>3, <3>1 DEF SavedInv, Sufficient, Confirmed
  <2> QED BY <2>1, <2>4 DEF WarmInv, HintsInv, BackedInv
<1> QED BY <1>4, <1>5

(* The other steps: they start anew, or leave hints and file alone.        *)
LEMMA WarmElsewhere ==
  ASSUME IInv, WarmInv,
         \/ Load \/ BeginSearch \/ GiveUp \/ Hook \/ CannotSave \/ CannotWrite
         \/ Exit \/ Stop
         \/ \E g \in Games, c \in Configs : Change(g, c)
         \/ UNCHANGED vars
  PROVE  WarmInv'
<1> USE DEF WarmInv, HintsInv, BackedInv, SavedInv, Sufficient, Backed, Confirmed
<1>1. CASE Load
  <2>1. /\ phase = "off" /\ phase' = "hints" /\ len' = Len(cacheFile)
        /\ hints' = [i \in DOMAIN hints |-> Loaded(i)]
        /\ UNCHANGED <<cacheFile, game, config, section, found, warm>>
    BY <1>1 DEF Load
  <2>2. \A i \in 0..(Slots - 1) : hints'[i] = Loaded(i)
    BY <2>1 DEF IInv, TypeOK
  <2>3. section = 1 /\ \A x \in Points : found[x] = 0
    BY <2>1 DEF IInv, PhaseInv, NoneFound
  <2>4. \A n \in 1..Len(Image[game]) : ~(n < section)
    BY <2>3, Shapes DEF IInv, TypeOK
  <2> QED BY <2>1, <2>2, <2>3, <2>4 DEF Loaded
<1>2. CASE BeginSearch \/ GiveUp
  BY <1>2 DEF BeginSearch, GiveUp
<1>3. CASE Hook
  BY <1>3 DEF Hook
<1>4. CASE CannotSave \/ CannotWrite
  BY <1>4 DEF CannotSave, CannotWrite
<1>5. CASE Exit \/ Stop
  BY <1>5 DEF Exit, Stop, Off
<1>6. ASSUME NEW g \in Games, NEW c \in Configs, Change(g, c) PROVE WarmInv'
  BY <1>6 DEF Change, process
<1>7. CASE UNCHANGED vars
  BY <1>7 DEF vars, process, Loaded
<1> QED BY <1>1, <1>2, <1>3, <1>4, <1>5, <1>6, <1>7

(* A start with a cache saved for this game and this configuration never   *)
(* searches, however often processes were stopped before, also while they  *)
(* wrote the cache.                                                        *)
THEOREM WarmStartsDoNotSearch == Spec => SearchedOnce
<1> DEFINE Spared == phase = "hints" /\ phase' = "search" => warm # <<game, config>>
<1>1. Init => IInv /\ WarmInv
  BY InitIInv, WarmInitially
<1>2. IInv /\ WarmInv /\ [Next]_vars => (IInv /\ WarmInv)'
  BY StepIInv, WarmLooksAtHints, WarmSearches, WarmSaves, WarmElsewhere DEF Next
<1>3. IInv /\ WarmInv /\ [Next]_vars => [Spared]_vars
  <2> SUFFICES ASSUME IInv, WarmInv, Next, phase = "hints", phase' = "search",
                      warm = <<game, config>>
               PROVE  FALSE
    OBVIOUS
  <2>1. BeginSearch
    BY DEF Next, Load, LookAtHints, SearchSection, GiveUp, Hook, CannotSave, SaveEntry,
           CannotWrite, Saved, Exit, Stop, Off, Change, process
  <2> QED BY <2>1, WarmHintsDo DEF BeginSearch
<1> QED BY <1>1, <1>2, <1>3, PTL DEF Spec, SearchedOnce

=============================================================================
