------------------------ MODULE DeviceAnnotationsProofs ------------------------
(***************************************************************************)
(* Theorems about DeviceAnnotations, for pods of any size: what splitting, *)
(* dropping the empty parts and padding make of an annotation, and with it *)
(* that the annotations are the queues of DeviceQueue.  Kept is recursive: *)
(* what it computes is proved by induction, in the form of the principle   *)
(* that a set of numbers with 0 and every successor has all of them.       *)
(***************************************************************************)
EXTENDS DeviceAnnotations, SequenceTheorems, NaturalsInduction, WellFoundedInduction, TLAPS

LEMMA Least ==
  ASSUME NEW T \in SUBSET Nat, T # {}
  PROVE  \E x \in T : \A y \in T : x <= y
<1>1. IsWellFoundedOn(OpToRel(<, Nat), Nat)
  BY NatLessThanWellFounded, Zenon
<1>2. PICK x \in T : \A y \in T : <<y, x>> \notin OpToRel(<, Nat)
  BY <1>1, WFMin, Zenon
<1>3. \A y \in T : ~(y < x)
  BY <1>2 DEF OpToRel
<1>4. QED
  BY <1>3

LEMMA SetInduction ==
  ASSUME NEW T, 0 \in T, \A n \in Nat : n \in T => n + 1 \in T
  PROVE  Nat \subseteq T
<1> SUFFICES ASSUME Nat \ T # {} PROVE FALSE
  OBVIOUS
<1>1. PICK x \in Nat \ T : \A y \in Nat \ T : x <= y
  BY Least
<1>2. x - 1 \in Nat /\ x - 1 \notin Nat \ T
  BY <1>1
<1>3. QED
  BY <1>1, <1>2

-----------------------------------------------------------------------------
(* What Kept keeps. *)

Rule(f, s, P, m) ==
  f = [n \in 0..m |->
         IF n = 0 THEN <<>> ELSE IF n \in P THEN Append(f[n - 1], s[n]) ELSE f[n - 1]]

\* The recursion defines a function: there is one for each length.
LEMMA KeptRule ==
  ASSUME NEW S, NEW s \in Seq(S), NEW P
  PROVE  Rule(KeptUpTo(s, P), s, P, Len(s))
<1> DEFINE T == {m \in Nat : \E f : Rule(f, s, P, m)}
<1>1. 0 \in T
  <2>1. Rule([n \in 0..0 |-> <<>>], s, P, 0)
    BY DEF Rule
  <2>2. QED
    BY <2>1
<1>2. ASSUME NEW m \in Nat, m \in T PROVE m + 1 \in T
  <2>1. PICK f : Rule(f, s, P, m)
    BY <1>2
  <2> DEFINE next(g, n) == IF n \in P THEN Append(g[n - 1], s[n]) ELSE g[n - 1]
             last == next(f, m + 1)
             h == [n \in 0..(m + 1) |-> IF n = m + 1 THEN last ELSE f[n]]
  <2>2. \A n \in 0..m : f[n] = IF n = 0 THEN <<>> ELSE next(f, n)
    BY <2>1 DEF Rule
  <2>3. last = IF m + 1 \in P THEN Append(f[m], s[m + 1]) ELSE f[m]
    OBVIOUS
  <2> HIDE DEF last
  <2>4. h[m + 1] = last /\ \A n \in 0..m : h[n] = f[n]
    OBVIOUS
  <2>5. \A n \in 0..m : h[n] = IF n = 0 THEN <<>> ELSE next(h, n)
    BY <2>2, <2>4
  <2>6. m + 1 # 0 /\ h[m + 1] = next(h, m + 1)
    BY <2>3, <2>4
  <2>7. ASSUME NEW n \in 0..(m + 1) PROVE h[n] = IF n = 0 THEN <<>> ELSE next(h, n)
    <3>1. CASE n = m + 1
      <4>1. n # 0 /\ h[n] = next(h, n)
        BY ONLY <2>6, <3>1
      <4>2. QED
        BY ONLY <4>1
    <3>2. CASE n # m + 1
      <4>1. n \in 0..m
        BY <3>2
      <4>2. QED
        BY <2>5, <4>1
    <3>3. QED
      BY <3>1, <3>2
  <2>8. Rule(h, s, P, m + 1)
    BY <2>7 DEF Rule
  <2>9. QED
    BY <2>8
<1>3. Len(s) \in T
  <2> HIDE DEF T
  <2>1. Nat \subseteq T
    BY <1>1, <1>2, SetInduction
  <2>2. QED
    BY <2>1, LenProperties
<1>4. \E f : Rule(f, s, P, Len(s))
  BY <1>3
<1>5. KeptUpTo(s, P) = CHOOSE f : Rule(f, s, P, Len(s))
  BY DEF KeptUpTo, Rule
<1>6. QED
  BY <1>4, <1>5

\* The elements kept are of the type of those that are chosen.
LEMMA KeptUpToType ==
  ASSUME NEW S, NEW s \in Seq(S), NEW P, NEW E, \A n \in DOMAIN s : n \in P => s[n] \in E
  PROVE  /\ KeptUpTo(s, P) \in [0..Len(s) -> Seq(E)]
         /\ KeptUpTo(s, P)[0] = <<>>
         /\ \A n \in 1..Len(s) :
              KeptUpTo(s, P)[n] = IF n \in P THEN Append(KeptUpTo(s, P)[n - 1], s[n])
                                             ELSE KeptUpTo(s, P)[n - 1]
<1> DEFINE f == KeptUpTo(s, P)
           T == {m \in Nat : m <= Len(s) => f[m] \in Seq(E)}
<1>1. Rule(f, s, P, Len(s)) /\ Len(s) \in Nat /\ DOMAIN s = 1..Len(s)
  BY KeptRule, LenProperties
<1> HIDE DEF f
<1>2. f[0] = <<>>
  BY <1>1 DEF Rule
<1>3. ASSUME NEW n \in 1..Len(s)
      PROVE  f[n] = IF n \in P THEN Append(f[n - 1], s[n]) ELSE f[n - 1]
  <2>1. n \in 0..Len(s) /\ n # 0
    OBVIOUS
  <2>2. QED
    BY <1>1, <2>1 DEF Rule
<1>4. 0 \in T
  <2>1. <<>> \in Seq(E)
    BY EmptySeq
  <2>2. QED
    BY <1>2, <2>1
<1>5. ASSUME NEW m \in Nat, m \in T PROVE m + 1 \in T
  <2> SUFFICES ASSUME m + 1 <= Len(s) PROVE f[m + 1] \in Seq(E)
    OBVIOUS
  <2>1. m + 1 \in 1..Len(s) /\ f[m] \in Seq(E) /\ m + 1 - 1 = m
    BY <1>1, <1>5
  <2>2. f[m + 1] = IF m + 1 \in P THEN Append(f[m], s[m + 1]) ELSE f[m]
    BY <1>3, <2>1
  <2>3. QED
    BY <1>1, <2>1, <2>2
<1>6. Nat \subseteq T
  <2> HIDE DEF T
  <2>1. QED
    BY <1>4, <1>5, SetInduction
<1>7. f \in [0..Len(s) -> Seq(E)]
  <2>1. \A n \in 0..Len(s) : f[n] \in Seq(E)
    BY <1>1, <1>6
  <2>2. DOMAIN f = 0..Len(s) /\ f = [n \in 0..Len(s) |-> f[n]]
    BY <1>1 DEF Rule
  <2>3. QED
    BY <2>1, <2>2
<1>8. QED
  BY <1>2, <1>3, <1>7 DEF f

\* Elements that are not chosen make no difference.
LEMMA KeptFlat ==
  ASSUME NEW S, NEW s \in Seq(S), NEW P, NEW a \in 0..Len(s), NEW b \in a..Len(s),
         \A n \in (a + 1)..b : n \notin P
  PROVE  KeptUpTo(s, P)[b] = KeptUpTo(s, P)[a]
<1> DEFINE f == KeptUpTo(s, P)
           T == {m \in Nat : a + m <= b => f[a + m] = f[a]}
<1>1. Len(s) \in Nat /\ \A n \in DOMAIN s : s[n] \in S
  BY LenProperties
<1>2. \A n \in 1..Len(s) : f[n] = IF n \in P THEN Append(f[n - 1], s[n]) ELSE f[n - 1]
  BY <1>1, KeptUpToType
<1> HIDE DEF f
<1>3. a \in Nat /\ b \in Nat /\ a <= b /\ b <= Len(s)
  BY <1>1
<1>4. 0 \in T
  BY <1>3
<1>5. ASSUME NEW m \in Nat, m \in T PROVE m + 1 \in T
  <2> SUFFICES ASSUME a + (m + 1) <= b PROVE f[a + (m + 1)] = f[a]
    OBVIOUS
  <2> DEFINE n == a + (m + 1)
  <2>1. n \in 1..Len(s) /\ n \in (a + 1)..b /\ n - 1 = a + m /\ f[a + m] = f[a]
    BY <1>1, <1>3, <1>5
  <2> HIDE DEF n
  <2>2. f[n] = f[a]
    BY <1>2, <2>1
  <2>3. QED
    BY <2>2 DEF n
<1>6. b - a \in T
  <2> HIDE DEF T
  <2>1. Nat \subseteq T
    BY <1>4, <1>5, SetInduction
  <2>2. QED
    BY <1>3, <2>1
<1>7. a + (b - a) = b
  BY <1>3
<1>8. QED
  BY <1>3, <1>6, <1>7 DEF f

\* Two sequences with the same elements chosen, among the first m of one and d
\* places further on in the other, keep the same.
Shifted(s, P, t, Q, d, m) ==
  /\ d \in Nat /\ m \in Nat /\ m <= Len(s) /\ d + m <= Len(t)
  /\ \A n \in DOMAIN s : n \in P => n <= m
  /\ \A n \in DOMAIN t : n \in Q => d < n /\ n <= d + m
  /\ \A n \in 1..m : (n \in P <=> d + n \in Q) /\ (n \in P => s[n] = t[d + n])

LEMMA KeptShifted ==
  ASSUME NEW S, NEW s \in Seq(S), NEW P, NEW t \in Seq(S), NEW Q, NEW d, NEW m,
         Shifted(s, P, t, Q, d, m)
  PROVE  Kept(s, P) = Kept(t, Q)
<1> USE DEF Shifted
<1> DEFINE f == KeptUpTo(s, P)
           g == KeptUpTo(t, Q)
           T == {n \in Nat : n <= m => f[n] = g[d + n]}
<1>1. /\ Len(s) \in Nat /\ DOMAIN s = 1..Len(s) /\ \A n \in DOMAIN s : s[n] \in S
      /\ Len(t) \in Nat /\ DOMAIN t = 1..Len(t) /\ \A n \in DOMAIN t : t[n] \in S
  BY LenProperties
<1>2. /\ f[0] = <<>>
      /\ \A n \in 1..Len(s) : f[n] = IF n \in P THEN Append(f[n - 1], s[n]) ELSE f[n - 1]
  BY <1>1, KeptUpToType
<1>3. /\ g[0] = <<>>
      /\ \A n \in 1..Len(t) : g[n] = IF n \in Q THEN Append(g[n - 1], t[n]) ELSE g[n - 1]
  BY <1>1, KeptUpToType
<1>4. g[d] = g[0]
  <2>1. 0 \in 0..Len(t) /\ d \in 0..Len(t) /\ \A n \in (0 + 1)..d : n \notin Q
    BY <1>1
  <2>2. QED
    BY <2>1, KeptFlat
<1>5. f[Len(s)] = f[m]
  <2>1. m \in 0..Len(s) /\ Len(s) \in m..Len(s) /\ \A n \in (m + 1)..Len(s) : n \notin P
    BY <1>1
  <2>2. QED
    BY <2>1, KeptFlat
<1>6. g[Len(t)] = g[d + m]
  <2>1. /\ d + m \in 0..Len(t) /\ Len(t) \in (d + m)..Len(t)
        /\ \A n \in ((d + m) + 1)..Len(t) : n \notin Q
    BY <1>1
  <2>2. QED
    BY <2>1, KeptFlat
<1> HIDE DEF f, g
<1>7. 0 \in T
  BY <1>2, <1>3, <1>4
<1>8. ASSUME NEW n \in Nat, n \in T PROVE n + 1 \in T
  <2> SUFFICES ASSUME n + 1 <= m PROVE f[n + 1] = g[d + (n + 1)]
    OBVIOUS
  <2> DEFINE i == n + 1
             j == d + i
  <2>1. /\ i \in 1..Len(s) /\ i - 1 = n /\ i \in 1..m
        /\ j \in 1..Len(t) /\ j - 1 = d + n /\ f[n] = g[d + n]
    BY <1>1, <1>8
  <2>2. (i \in P <=> j \in Q) /\ (i \in P => s[i] = t[j])
    BY <2>1
  <2> HIDE DEF i, j
  <2>3. f[i] = g[j]
    BY <1>2, <1>3, <2>1, <2>2
  <2>4. QED
    BY <2>3 DEF i, j
<1>9. m \in T
  <2> HIDE DEF T
  <2>1. QED
    BY <1>7, <1>8, SetInduction
<1>10. QED
  BY <1>5, <1>6, <1>9 DEF Kept, f, g

\* When all are chosen, all are kept.
LEMMA KeptAll ==
  ASSUME NEW S, NEW s \in Seq(S)
  PROVE  Kept(s, DOMAIN s) = s
<1> DEFINE f == KeptUpTo(s, DOMAIN s)
           T == {m \in Nat : m <= Len(s) => Len(f[m]) = m /\ \A n \in 1..m : f[m][n] = s[n]}
<1>1. Len(s) \in Nat /\ DOMAIN s = 1..Len(s) /\ \A n \in DOMAIN s : s[n] \in S
  BY LenProperties
<1>2. /\ f \in [0..Len(s) -> Seq(S)] /\ f[0] = <<>>
      /\ \A n \in 1..Len(s) : f[n] = IF n \in DOMAIN s THEN Append(f[n - 1], s[n]) ELSE f[n - 1]
  BY <1>1, KeptUpToType
<1> HIDE DEF f
<1>3. 0 \in T
  BY <1>2
<1>4. ASSUME NEW m \in Nat, m \in T PROVE m + 1 \in T
  <2> SUFFICES ASSUME m + 1 <= Len(s)
               PROVE  Len(f[m + 1]) = m + 1 /\ \A n \in 1..(m + 1) : f[m + 1][n] = s[n]
    OBVIOUS
  <2>1. /\ m + 1 \in 1..Len(s) /\ (m + 1) - 1 = m /\ m \in 0..Len(s)
        /\ Len(f[m]) = m /\ \A n \in 1..m : f[m][n] = s[n]
    BY <1>1, <1>4
  <2>2. f[m + 1] = Append(f[m], s[m + 1]) /\ f[m] \in Seq(S) /\ s[m + 1] \in S
    BY <1>1, <1>2, <2>1
  <2>3. /\ Len(f[m + 1]) = m + 1
        /\ \A n \in 1..m : f[m + 1][n] = f[m][n]
        /\ f[m + 1][m + 1] = s[m + 1]
    BY <2>1, <2>2, AppendProperties
  <2>4. QED
    BY <2>1, <2>3
<1>5. Len(s) \in T
  <2> HIDE DEF T
  <2>1. QED
    BY <1>1, <1>3, <1>4, SetInduction
<1>6. /\ f[Len(s)] \in Seq(S) /\ Len(f[Len(s)]) = Len(s)
      /\ \A n \in 1..Len(s) : f[Len(s)][n] = s[n]
  BY <1>1, <1>2, <1>5
<1>7. f[Len(s)] = s
  BY <1>6, SeqEqual
<1>8. QED
  BY <1>7 DEF Kept, f

\* What is kept is of the type of what is chosen, and empty only if nothing is.
LEMMA KeptType ==
  ASSUME NEW S, NEW s \in Seq(S), NEW P, NEW E, \A n \in DOMAIN s : n \in P => s[n] \in E
  PROVE  Kept(s, P) \in Seq(E)
  BY KeptUpToType, LenProperties DEF Kept

LEMMA KeptNone ==
  ASSUME NEW S, NEW s \in Seq(S), NEW P, \A n \in DOMAIN s : n \notin P
  PROVE  Kept(s, P) = <<>>
<1>1. /\ Len(s) \in Nat /\ DOMAIN s = 1..Len(s) /\ KeptUpTo(s, P)[0] = <<>>
  BY KeptUpToType, LenProperties
<1>2. 0 \in 0..Len(s) /\ Len(s) \in 0..Len(s) /\ \A n \in (0 + 1)..Len(s) : n \notin P
  BY <1>1
<1>3. QED
  BY <1>1, <1>2, KeptFlat DEF Kept

LEMMA KeptSome ==
  ASSUME NEW S, NEW s \in Seq(S), NEW P, NEW c \in DOMAIN s, c \in P
  PROVE  Kept(s, P) # <<>>
<1> DEFINE f == KeptUpTo(s, P)
           T == {m \in Nat : c + m <= Len(s) => f[c + m] # <<>>}
<1>1. Len(s) \in Nat /\ c \in 1..Len(s) /\ \A n \in DOMAIN s : s[n] \in S
  BY LenProperties
<1>2. /\ f \in [0..Len(s) -> Seq(S)]
      /\ \A n \in 1..Len(s) : f[n] = IF n \in P THEN Append(f[n - 1], s[n]) ELSE f[n - 1]
  BY <1>1, KeptUpToType
<1> HIDE DEF f
<1>3. ASSUME NEW n \in 1..Len(s), n \in P \/ f[n - 1] # <<>> PROVE f[n] # <<>>
  <2>1. n - 1 \in 0..Len(s) /\ f[n - 1] \in Seq(S) /\ s[n] \in S
    BY <1>1, <1>2, LenProperties
  <2>2. Append(f[n - 1], s[n]) # <<>>
    BY <2>1, AppendProperties
  <2>3. QED
    BY <1>2, <1>3, <2>2
<1>4. 0 \in T
  <2>1. c + 0 = c
    BY <1>1
  <2>2. QED
    BY <1>1, <1>3, <2>1
<1>5. ASSUME NEW m \in Nat, m \in T PROVE m + 1 \in T
  <2> SUFFICES ASSUME c + (m + 1) <= Len(s) PROVE f[c + (m + 1)] # <<>>
    OBVIOUS
  <2>1. c + (m + 1) \in 1..Len(s) /\ (c + (m + 1)) - 1 = c + m /\ f[c + m] # <<>>
    BY <1>1, <1>5
  <2>2. QED
    BY <1>3, <2>1
<1>6. Len(s) - c \in T /\ c + (Len(s) - c) = Len(s)
  <2> HIDE DEF T
  <2>1. Nat \subseteq T
    BY <1>4, <1>5, SetInduction
  <2>2. QED
    BY <1>1, <2>1
<1>7. QED
  BY <1>6 DEF Kept, f

\* Adding a number to every element goes well with all of this.
LEMMA RaisedType ==
  ASSUME NEW s \in Seq(Nat), NEW d \in Nat
  PROVE  /\ Raised(s, d) \in Seq(Nat) /\ Len(Raised(s, d)) = Len(s)
         /\ DOMAIN Raised(s, d) = 1..Len(s)
         /\ \A i \in 1..Len(s) : Raised(s, d)[i] = s[i] + d
<1>1. Len(s) \in Nat /\ DOMAIN s = 1..Len(s) /\ \A i \in 1..Len(s) : s[i] \in Nat
  BY LenProperties
<1>2. QED
  BY <1>1 DEF Raised

LEMMA RaisedAppend ==
  ASSUME NEW s \in Seq(Nat), NEW e \in Nat, NEW d \in Nat
  PROVE  Raised(Append(s, e), d) = Append(Raised(s, d), e + d)
<1> DEFINE a == Append(s, e)
           b == Append(Raised(s, d), e + d)
<1>1. Len(s) \in Nat
  BY LenProperties
<1>2. /\ a \in Seq(Nat) /\ Len(a) = Len(s) + 1 /\ a[Len(s) + 1] = e
      /\ \A i \in 1..Len(s) : a[i] = s[i]
  BY AppendProperties
<1>3. /\ Raised(s, d) \in Seq(Nat) /\ Len(Raised(s, d)) = Len(s)
      /\ \A i \in 1..Len(s) : Raised(s, d)[i] = s[i] + d
  BY RaisedType
<1>4. /\ b \in Seq(Nat) /\ Len(b) = Len(s) + 1 /\ b[Len(s) + 1] = e + d
      /\ \A i \in 1..Len(s) : b[i] = s[i] + d
  <2>1. e + d \in Nat
    OBVIOUS
  <2>2. QED
    BY <1>3, <2>1, AppendProperties
<1> HIDE DEF a, b
<1>5. /\ Raised(a, d) \in Seq(Nat) /\ Len(Raised(a, d)) = Len(a)
      /\ \A i \in 1..Len(a) : Raised(a, d)[i] = a[i] + d
  BY <1>2, RaisedType
<1>6. ASSUME NEW i \in 1..(Len(s) + 1) PROVE Raised(a, d)[i] = b[i]
  <2>1. CASE i = Len(s) + 1
    BY <1>1, <1>2, <1>4, <1>5, <2>1
  <2>2. CASE i # Len(s) + 1
    <3>1. i \in 1..Len(s) /\ i \in 1..Len(a)
      BY <1>1, <1>2, <2>2
    <3>2. QED
      BY <1>2, <1>4, <1>5, <3>1
  <2>3. QED
    BY <2>1, <2>2
<1>7. Raised(a, d) = b
  BY <1>2, <1>4, <1>5, <1>6, SeqEqual
<1>8. QED
  BY <1>7 DEF a, b

LEMMA RaisedTail ==
  ASSUME NEW s \in Seq(Nat), s # <<>>, NEW d \in Nat
  PROVE  /\ Raised(s, d) # <<>> /\ Head(Raised(s, d)) = Head(s) + d
         /\ Tail(Raised(s, d)) = Raised(Tail(s), d)
<1> DEFINE u == Raised(s, d)
           a == Tail(s)
           b == Tail(u)
<1>1. Len(s) \in Nat /\ Len(s) # 0
  BY LenProperties, EmptySeq
<1>2. /\ u \in Seq(Nat) /\ Len(u) = Len(s) /\ \A i \in 1..Len(s) : u[i] = s[i] + d
  BY RaisedType
<1> HIDE DEF u
<1>3. u # <<>>
  BY <1>1, <1>2
<1>4. /\ Head(s) = s[1] /\ a \in Seq(Nat) /\ Len(a) = Len(s) - 1
      /\ \A i \in 1..Len(a) : a[i] = s[i + 1]
  BY HeadTailProperties
<1>5. /\ Head(u) = u[1] /\ b \in Seq(Nat) /\ Len(b) = Len(u) - 1
      /\ \A i \in 1..Len(b) : b[i] = u[i + 1]
  BY <1>2, <1>3, HeadTailProperties
<1> HIDE DEF a, b
<1>6. /\ Raised(a, d) \in Seq(Nat) /\ Len(Raised(a, d)) = Len(a)
      /\ \A i \in 1..Len(a) : Raised(a, d)[i] = a[i] + d
  BY <1>4, RaisedType
<1>7. \A i \in 1..Len(b) : b[i] = Raised(a, d)[i]
  <2>1. \A i \in 1..Len(b) : i + 1 \in 1..Len(s) /\ i \in 1..Len(a)
    BY <1>1, <1>2, <1>4, <1>5
  <2>2. QED
    BY <1>2, <1>4, <1>5, <1>6, <2>1
<1>8. b = Raised(a, d)
  BY <1>2, <1>4, <1>5, <1>6, <1>7, SeqEqual
<1>9. Head(u) = Head(s) + d
  BY <1>1, <1>2, <1>4, <1>5
<1>10. QED
  BY <1>3, <1>8, <1>9 DEF u, a, b

LEMMA KeptRaised ==
  ASSUME NEW s \in Seq(Nat), NEW P, NEW d \in Nat
  PROVE  Raised(Kept(s, P), d) = Kept(Raised(s, d), P)
<1> DEFINE u == Raised(s, d)
           f == KeptUpTo(s, P)
           g == KeptUpTo(u, P)
           T == {m \in Nat : m <= Len(s) => Raised(f[m], d) = g[m]}
<1>1. Len(s) \in Nat /\ DOMAIN s = 1..Len(s) /\ \A n \in 1..Len(s) : s[n] \in Nat
  BY LenProperties
<1>2. /\ u \in Seq(Nat) /\ Len(u) = Len(s) /\ DOMAIN u = 1..Len(s)
      /\ \A n \in 1..Len(s) : u[n] = s[n] + d
  BY RaisedType
<1> HIDE DEF u
<1>3. /\ f \in [0..Len(s) -> Seq(Nat)] /\ f[0] = <<>>
      /\ \A n \in 1..Len(s) : f[n] = IF n \in P THEN Append(f[n - 1], s[n]) ELSE f[n - 1]
  BY <1>1, KeptUpToType
<1>4. \A n \in DOMAIN u : u[n] \in Nat
  BY <1>1, <1>2
<1>5. /\ g[0] = <<>>
      /\ \A n \in 1..Len(s) : g[n] = IF n \in P THEN Append(g[n - 1], u[n]) ELSE g[n - 1]
  <2>1. /\ g[0] = <<>>
        /\ \A n \in 1..Len(u) : g[n] = IF n \in P THEN Append(g[n - 1], u[n]) ELSE g[n - 1]
    <3>1. u \in Seq(Nat) /\ \A n \in DOMAIN u : n \in P => u[n] \in Nat
      BY <1>2, <1>4
    <3>2. QED
      BY <3>1, KeptUpToType
  <2> HIDE DEF g
  <2>2. QED
    BY <1>2, <2>1
<1> HIDE DEF f, g
<1>6. 0 \in T
  <2>1. Raised(<<>>, d) = <<>>
    BY DEF Raised
  <2>2. QED
    BY <1>3, <1>5, <2>1
<1>7. ASSUME NEW m \in Nat, m \in T PROVE m + 1 \in T
  <2> SUFFICES ASSUME m + 1 <= Len(s) PROVE Raised(f[m + 1], d) = g[m + 1]
    OBVIOUS
  <2>1. /\ m + 1 \in 1..Len(s) /\ (m + 1) - 1 = m /\ m \in 0..Len(s)
        /\ Raised(f[m], d) = g[m]
    BY <1>1, <1>7
  <2>2. f[m] \in Seq(Nat) /\ s[m + 1] \in Nat /\ u[m + 1] = s[m + 1] + d
    BY <1>1, <1>2, <1>3, <2>1
  <2>3. Raised(Append(f[m], s[m + 1]), d) = Append(g[m], u[m + 1])
    BY <2>1, <2>2, RaisedAppend
  <2>4. /\ f[m + 1] = IF m + 1 \in P THEN Append(f[m], s[m + 1]) ELSE f[m]
        /\ g[m + 1] = IF m + 1 \in P THEN Append(g[m], u[m + 1]) ELSE g[m]
    BY <1>3, <1>5, <2>1
  <2>5. QED
    BY <2>1, <2>3, <2>4
<1>8. Len(s) \in T
  <2> HIDE DEF T
  <2>1. QED
    BY <1>1, <1>6, <1>7, SetInduction
<1>9. QED
  BY <1>1, <1>2, <1>8 DEF Kept, f, g, u

-----------------------------------------------------------------------------
(* What the code makes of a string. *)

LEMMA DecodeType ==
  ASSUME NEW s \in Strings
  PROVE  DecodePodDevices(s) \in Seq(Positions)
<1>1. \A n \in DOMAIN s : n \in Filled(s) => s[n] \in Positions
  BY LenProperties DEF Strings, Filled
<1>2. QED
  BY <1>1, KeptType DEF DecodePodDevices, Strings

LEMMA DecodeNothing ==
  ASSUME NEW s \in Strings, NoDeviceIn(s)
  PROVE  DecodePodDevices(s) = <<>>
  BY KeptNone DEF DecodePodDevices, Strings, NoDeviceIn

\* Erasing takes the first part that is left, whatever string it was left in.
LEMMA DecodeErased ==
  ASSUME NEW s \in Strings, DecodePodDevices(s) # <<>>
  PROVE  Erased(s) \in Strings /\ DecodePodDevices(Erased(s)) = Tail(DecodePodDevices(s))
<1> DEFINE S == Positions \cup {Empty}
           t == Tail(DecodePodDevices(s))
           m == Len(t)
           b == <<Empty>> \o t
           w == Append(b, Empty)
<1>1. t \in Seq(Positions) /\ m \in Nat /\ DOMAIN t = 1..m /\ \A n \in 1..m : t[n] \in Positions
  <2>1. t \in Seq(Positions)
    BY DecodeType, HeadTailProperties
  <2> HIDE DEF t
  <2>2. QED
    BY <2>1, LenProperties
<1> HIDE DEF t
<1>2. Empty \notin Positions /\ <<Empty>> \in Seq(S) /\ t \in Seq(S)
  BY <1>1, AnnotationAssumption DEF Positions
<1>3. b \in Seq(S) /\ Len(b) = m + 1 /\ b[1] = Empty /\ \A n \in 1..m : b[1 + n] = t[n]
  BY <1>1, <1>2
<1> HIDE DEF b
<1>4. /\ w \in Seq(S) /\ Len(w) = m + 2 /\ w[1] = Empty /\ w[m + 2] = Empty
      /\ \A n \in 1..m : w[1 + n] = t[n]
  BY <1>1, <1>3, AppendProperties
<1> HIDE DEF w
<1>5. DOMAIN w = 1..(m + 2)
  BY <1>4, LenProperties
<1>6. \A n \in DOMAIN w : n \in Filled(w) => 1 < n /\ n <= 1 + m
  BY <1>1, <1>4, <1>5 DEF Filled
<1>7. \A n \in 1..m : 1 + n \in Filled(w) /\ t[n] = w[1 + n]
  BY <1>1, <1>2, <1>4, <1>5 DEF Filled
<1>8. Kept(t, DOMAIN t) = Kept(w, Filled(w))
  <2>1. Shifted(t, DOMAIN t, w, Filled(w), 1, m)
    <3> HIDE DEF S
    <3>1. 1 \in Nat /\ m <= Len(t) /\ 1 + m <= Len(w) /\ \A n \in DOMAIN t : n <= m
      BY <1>1, <1>4
    <3>2. \A n \in 1..m : 1 + n \in Filled(w) /\ n \in DOMAIN t /\ t[n] = w[1 + n]
      BY <1>1, <1>7
    <3> HIDE DEF m
    <3>3. QED
      BY <1>1, <1>6, <3>1, <3>2 DEF Shifted
  <2>2. QED
    BY <1>2, <1>4, <2>1, KeptShifted
<1>9. Kept(t, DOMAIN t) = t
  BY <1>1, KeptAll
<1>10. Erased(s) = w
  BY DEF Erased, EncodePodSingleDevice, w, b, t
<1>11. QED
  BY <1>4, <1>8, <1>9, <1>10 DEF DecodePodDevices, Strings, t

\* How the scheduler may have written the string of a pod with n containers.
Choice(n, wants, ending, left) ==
  /\ n \in 1..MaxContainers /\ wants \in (SUBSET (0..(n - 1))) \ {{}}
  /\ ending \in Endings /\ left \in 0..(n - 1) /\ \A i \in wants : i >= left
Slip(ending, left) == IF left > 0 /\ ending = "ended" THEN 1 ELSE 0

LEMMA WrittenString ==
  ASSUME NEW n, NEW wants, NEW ending, NEW left, Choice(n, wants, ending, left)
  PROVE  LET w == Written(n, wants, ending, left) IN
           /\ w \in Strings
           /\ Len(w) = IF ending = "ended" THEN n - left + 1 ELSE n - left
           /\ Filled(w) = {i \in 1..(n - left) : i - 1 + left \in wants}
           /\ \A i \in Filled(w) : w[i] = i - 1 + left
<1> USE DEF Choice
<1> DEFINE S == Positions \cup {Empty}
           m == n - left
           parts == [i \in 1..m |-> Part(wants, i - 1 + left)]
           w == Written(n, wants, ending, left)
<1>1. /\ n \in Nat /\ left \in Nat /\ m \in Nat /\ MaxContainers \in Nat /\ n <= MaxContainers
      /\ wants \subseteq Positions /\ Empty \notin Positions /\ Empty \in S
  BY AnnotationAssumption DEF Positions
<1> HIDE DEF m
<1>2. /\ parts \in Seq(S) /\ Len(parts) = m /\ \A i \in 1..m : parts[i] = Part(wants, i - 1 + left)
  <2>1. \A i \in 1..m : Part(wants, i - 1 + left) \in S
    BY <1>1 DEF Part
  <2>2. QED
    BY <1>1, <2>1
<1> HIDE DEF parts, S
<1>3. /\ w \in Seq(S) /\ Len(w) = IF ending = "ended" THEN m + 1 ELSE m
      /\ \A i \in 1..m : w[i] = Part(wants, i - 1 + left)
      /\ ending = "ended" => w[m + 1] = Empty
  <2>1. CASE ending = "ended"
    <3>1. w = Append(parts, Empty)
      BY <2>1 DEF Written, EncodePodSingleDevice, parts, m
    <3>2. /\ Append(parts, Empty) \in Seq(S) /\ Len(Append(parts, Empty)) = m + 1
          /\ \A i \in 1..m : Append(parts, Empty)[i] = parts[i]
          /\ Append(parts, Empty)[m + 1] = Empty
      BY <1>1, <1>2, AppendProperties
    <3> HIDE DEF w
    <3>3. QED
      BY <1>2, <2>1, <3>1, <3>2
  <2>2. CASE ending # "ended"
    <3>1. w = parts
      BY <2>2 DEF Written, parts, m
    <3>2. QED
      BY <1>2, <2>2, <3>1
  <2>3. QED
    BY <2>1, <2>2
<1> HIDE DEF w
<1>4. DOMAIN w = 1..Len(w)
  BY <1>3, LenProperties
<1>5. \A i \in 1..m : i \in Filled(w) <=> i - 1 + left \in wants
  BY <1>1, <1>3, <1>4 DEF Filled, Part
<1>6. \A i \in Filled(w) : i \in 1..m
  BY <1>1, <1>3, <1>4 DEF Filled
<1>7. Filled(w) = {i \in 1..m : i - 1 + left \in wants}
  BY <1>5, <1>6
<1>8. \A i \in Filled(w) : w[i] = i - 1 + left
  BY <1>3, <1>7 DEF Part
<1>9. QED
  BY <1>3, <1>7, <1>8 DEF w, m, S, Strings

\* The numbers that a sequence of n positions, from 0, holds.
LEMMA Counted ==
  ASSUME NEW n \in Nat
  PROVE  LET s == [i \in 1..n |-> i - 1] IN
           s \in Seq(Nat) /\ Len(s) = n /\ DOMAIN s = 1..n /\ \A i \in 1..n : s[i] = i - 1
  OBVIOUS

\* Dropping the empty parts leaves the containers that request devices.
LEMMA DecodeWritten ==
  ASSUME NEW n, NEW wants, NEW ending, NEW left, Choice(n, wants, ending, left)
  PROVE  DecodePodDevices(Written(n, wants, ending, left)) = Ascending(wants)
<1> DEFINE w == Written(n, wants, ending, left)
           m == n - left
           t == [i \in 1..MaxContainers |-> i - 1]
           Q == {i \in 1..MaxContainers : i - 1 \in wants}
           S == Nat \cup {Empty}
<1>1. /\ n \in Nat /\ left \in Nat /\ m \in Nat /\ left + m = n /\ MaxContainers \in Nat
      /\ n <= MaxContainers /\ \A i \in wants : i \in Nat /\ left <= i /\ i < n
  BY AnnotationAssumption DEF Choice
<1>2. /\ w \in Strings /\ Len(w) >= m /\ Filled(w) = {i \in 1..m : i - 1 + left \in wants}
      /\ \A i \in Filled(w) : w[i] = i - 1 + left
  BY <1>1, WrittenString
<1>3. w \in Seq(S)
  BY <1>2 DEF Strings, Positions
<1>4. t \in Seq(Nat) /\ Len(t) = MaxContainers /\ \A i \in 1..MaxContainers : t[i] = i - 1
  BY <1>1, Counted
<1>5. t \in Seq(S)
  BY <1>4
<1> HIDE DEF w, t, m, S
<1>6. Shifted(w, Filled(w), t, Q, left, m)
  <2>1. m <= Len(w) /\ left + m <= Len(t) /\ \A i \in Filled(w) : i <= m
    BY <1>1, <1>2, <1>3, <1>4, LenProperties
  <2>2. \A i \in Q : left < i /\ i <= left + m
    BY <1>1
  <2>3. ASSUME NEW i \in 1..m
        PROVE  /\ i \in Filled(w) <=> left + i \in Q
               /\ i \in Filled(w) => w[i] = t[left + i]
    <3>1. left + i \in 1..MaxContainers /\ (left + i) - 1 = i - 1 + left
      BY <1>1
    <3>2. i \in Filled(w) <=> left + i \in Q
      BY <1>2, <3>1
    <3>3. QED
      BY <1>2, <1>4, <3>1, <3>2
  <2>4. QED
    BY <1>1, <2>1, <2>2, <2>3 DEF Shifted
<1>7. Kept(w, Filled(w)) = Kept(t, Q)
  BY <1>3, <1>5, <1>6, KeptShifted
<1>8. QED
  BY <1>7 DEF DecodePodDevices, Ascending, w, t

\* Padding in front puts a short string back to the places of its containers.
LEMMA PaddedString ==
  ASSUME NEW s \in Strings, count \in Nat
  PROVE  LET k == IF Len(s) < count THEN count - Len(s) ELSE 0 IN
           /\ Padded(s) \in Strings /\ Len(Padded(s)) = k + Len(s)
           /\ Filled(Padded(s)) = {k + i : i \in Filled(s)}
<1> DEFINE S == Positions \cup {Empty}
           k == IF Len(s) < count THEN count - Len(s) ELSE 0
           e == [i \in 1..k |-> Empty]
<1>1. s \in Seq(S) /\ Len(s) \in Nat /\ DOMAIN s = 1..Len(s) /\ Empty \in S
  BY LenProperties DEF Strings
<1>2. k \in Nat
  BY <1>1
<1> HIDE DEF S, k
<1>3. e \in Seq(S) /\ Len(e) = k /\ \A i \in 1..k : e[i] = Empty
  BY <1>1, <1>2
<1> DEFINE p == e \o s
<1> HIDE DEF e
<1>4. /\ p \in Seq(S) /\ Len(p) = k + Len(s) /\ DOMAIN p = 1..(k + Len(s))
      /\ \A i \in 1..k : p[i] = Empty
      /\ \A i \in 1..Len(s) : p[k + i] = s[i]
  <2>1. /\ p \in Seq(S) /\ Len(p) = Len(e) + Len(s)
        /\ \A i \in 1..(Len(e) + Len(s)) :
             p[i] = IF i <= Len(e) THEN e[i] ELSE s[i - Len(e)]
    BY <1>1, <1>3, ConcatProperties
  <2> HIDE DEF p
  <2>2. DOMAIN p = 1..(k + Len(s))
    BY <1>3, <2>1, LenProperties
  <2>3. ASSUME NEW i \in 1..k PROVE p[i] = Empty
    BY <1>1, <1>2, <1>3, <2>1
  <2>4. ASSUME NEW i \in 1..Len(s) PROVE p[k + i] = s[i]
    <3>1. k + i \in 1..(k + Len(s)) /\ ~(k + i <= k) /\ (k + i) - k = i
      BY <1>1, <1>2
    <3>2. QED
      BY <1>3, <2>1, <3>1
  <2>5. QED
    BY <1>3, <2>1, <2>2, <2>3, <2>4
<1>5. Padded(s) = p
  <2>1. CASE Len(s) < count
    BY <2>1 DEF Padded, k, e
  <2>2. CASE ~(Len(s) < count)
    <3>1. k = 0 /\ Padded(s) = s
      BY <2>2 DEF k, Padded
    <3>2. \A i \in 1..Len(s) : p[i] = s[i]
      <4>1. \A i \in 1..Len(s) : k + i = i
        BY <3>1
      <4>2. QED
        BY <1>4, <4>1
    <3> HIDE DEF p
    <3>3. Len(p) = Len(s)
      BY <1>1, <1>4, <3>1
    <3>4. p = s
      BY <1>1, <1>4, <3>2, <3>3, SeqEqual
    <3>5. QED
      BY <3>1, <3>4
  <2>3. QED
    BY <2>1, <2>2
<1> HIDE DEF p
<1>6. ASSUME NEW i PROVE i \in Filled(p) <=> i \in {k + j : j \in Filled(s)}
  <2>1. CASE i \in 1..k
    BY <1>1, <1>2, <1>4, <2>1 DEF Filled
  <2>2. CASE i \in (k + 1)..(k + Len(s))
    <3> DEFINE j == i - k
    <3>1. j \in 1..Len(s) /\ k + j = i
      BY <1>1, <1>2, <2>2
    <3>2. i \in Filled(p) <=> j \in Filled(s)
      BY <1>1, <1>2, <1>4, <2>2, <3>1 DEF Filled
    <3>3. \A l \in Filled(s) : k + l = i => l = j
      BY <1>1, <1>2 DEF Filled
    <3> HIDE DEF j
    <3>4. QED
      BY <3>1, <3>2, <3>3
  <2>3. CASE i \notin 1..(k + Len(s))
    <3>1. \A j \in 1..Len(s) : k + j \in 1..(k + Len(s))
      BY <1>1, <1>2
    <3>2. QED
      BY <1>1, <1>4, <2>3, <3>1 DEF Filled
  <2>4. QED
    BY <1>1, <1>2, <2>1, <2>2, <2>3
<1>7. QED
  BY <1>4, <1>5, <1>6 DEF S, k, Strings

\* The places of the filled parts, in the string as it is padded.
LEMMA PlacesFilled ==
  ASSUME NEW wants, NEW ending, NEW left, Choice(count, wants, ending, left)
  PROVE  LET p == Padded(Written(count, wants, ending, left)) IN
           \E k \in 0..left :
             /\ p \in Strings /\ Len(p) >= count /\ DOMAIN p = 1..Len(p)
             /\ \A j : j \in Filled(p) <=> j \in (k + 1)..(k + count - left) /\ j - 1 - k + left \in wants
             /\ k = left - Slip(ending, left)
<1> DEFINE w == Written(count, wants, ending, left)
           p == Padded(w)
           m == count - left
           k == IF Len(w) < count THEN count - Len(w) ELSE 0
<1>1. count \in Nat /\ left \in Nat /\ m \in Nat /\ left < count
  BY AnnotationAssumption DEF Choice
<1>2. /\ w \in Strings /\ Len(w) = (IF ending = "ended" THEN m + 1 ELSE m)
      /\ Filled(w) = {i \in 1..m : i - 1 + left \in wants}
  BY WrittenString
<1> HIDE DEF w
<1>3. k \in 0..left /\ k + Len(w) >= count /\ k = left - Slip(ending, left)
  <2>1. m + left = count
    BY <1>1
  <2> HIDE DEF m
  <2>2. QED
    BY <1>1, <1>2, <2>1 DEF Slip
<1>4. p \in Strings /\ Len(p) = k + Len(w) /\ Filled(p) = {k + i : i \in Filled(w)}
  BY <1>1, <1>2, PaddedString
<1> HIDE DEF p, k
<1>5. DOMAIN p = 1..Len(p)
  BY <1>4, LenProperties DEF Strings
<1>6. ASSUME NEW j
      PROVE  j \in Filled(p) <=> j \in (k + 1)..(k + count - left) /\ j - 1 - k + left \in wants
  <2>1. ASSUME j \in Filled(p)
        PROVE  j \in (k + 1)..(k + count - left) /\ j - 1 - k + left \in wants
    <3>1. PICK i \in 1..m : i - 1 + left \in wants /\ j = k + i
      BY <1>2, <1>4, <2>1
    <3>2. j \in (k + 1)..(k + count - left) /\ j - 1 - k + left = i - 1 + left
      <4>1. k \in Nat /\ i \in Nat /\ 1 <= i /\ i <= count - left
        BY <1>1, <1>3, <3>1
      <4>2. QED
        BY <1>1, <3>1, <4>1
    <3>3. QED
      BY <3>1, <3>2
  <2>2. ASSUME j \in (k + 1)..(k + count - left), j - 1 - k + left \in wants
        PROVE  j \in Filled(p)
    <3> DEFINE i == j - k
    <3>1. i \in 1..m /\ i - 1 + left = j - 1 - k + left /\ k + i = j
      BY <1>1, <1>3, <2>2
    <3> HIDE DEF i
    <3>2. i \in Filled(w)
      BY <1>2, <2>2, <3>1
    <3>3. QED
      BY <1>4, <3>1, <3>2
  <2>3. QED
    BY <2>1, <2>2
<1>7. QED
  BY <1>1, <1>3, <1>4, <1>5, <1>6 DEF p, w

\* UpdateContainerIndexAnnotations names the containers that request devices, or
\* those one before them if it takes a shortened string for a longer one.
LEMMA NamesWritten ==
  ASSUME NEW wants, NEW ending, NEW left, Choice(count, wants, ending, left)
  PROVE  Raised(PositionsIn(Padded(Written(count, wants, ending, left))), Slip(ending, left))
           = Ascending(wants)
<1> DEFINE p == Padded(Written(count, wants, ending, left))
           d == Slip(ending, left)
           c == [i \in 1..Len(p) |-> i - 1]
           u == Raised(c, d)
           t == [i \in 1..MaxContainers |-> i - 1]
           Q == {i \in 1..MaxContainers : i - 1 \in wants}
<1>1. /\ count \in Nat /\ left \in Nat /\ left < count /\ MaxContainers \in Nat
      /\ count <= MaxContainers /\ \A i \in wants : i \in Nat /\ left <= i /\ i < count
  BY AnnotationAssumption DEF Choice
<1>2. d \in {0, 1} /\ d <= left
  BY <1>1 DEF Slip
<1>3. PICK k \in 0..left :
        /\ p \in Strings /\ Len(p) >= count /\ DOMAIN p = 1..Len(p)
        /\ \A j : j \in Filled(p) <=> j \in (k + 1)..(k + count - left) /\ j - 1 - k + left \in wants
        /\ k = left - d
  BY PlacesFilled
<1>4. Len(p) \in Nat
  BY <1>3, LenProperties DEF Strings
<1> HIDE DEF p, d
<1>5. /\ c \in Seq(Nat) /\ Len(c) = Len(p) /\ DOMAIN c = 1..Len(p)
      /\ \A i \in 1..Len(p) : c[i] = i - 1
  BY <1>4, Counted
<1>6. /\ t \in Seq(Nat) /\ Len(t) = MaxContainers /\ DOMAIN t = 1..MaxContainers
      /\ \A i \in 1..MaxContainers : t[i] = i - 1
  BY <1>1, Counted
<1> HIDE DEF c, t
<1>7. /\ u \in Seq(Nat) /\ Len(u) = Len(p) /\ DOMAIN u = 1..Len(p)
      /\ \A i \in 1..Len(p) : u[i] = i - 1 + d
  BY <1>2, <1>5, RaisedType
<1> HIDE DEF u
<1>8. \A j : j \in Filled(p) <=> j \in 1..(count - d) /\ j - 1 + d \in wants
  <2>1. ASSUME NEW j, j \in 1..(count - d), j - 1 + d \in wants PROVE j \in Filled(p)
    <3>1. /\ j - 1 - k + left = j - 1 + d /\ k + count - left = count - d
          /\ left <= j - 1 + d
      BY <1>1, <1>2, <1>3, <2>1
    <3>2. j \in (k + 1)..(k + count - left)
      BY <1>1, <1>2, <1>3, <2>1, <3>1
    <3>3. QED
      BY <1>3, <2>1, <3>1, <3>2
  <2>2. ASSUME NEW j, j \in Filled(p) PROVE j \in 1..(count - d) /\ j - 1 + d \in wants
    <3>1. j \in (k + 1)..(k + count - left) /\ j - 1 - k + left \in wants
      BY <1>3, <2>2
    <3>2. j \in 1..(count - d) /\ j - 1 - k + left = j - 1 + d
      BY <1>1, <1>2, <1>3, <3>1
    <3>3. QED
      BY <3>1, <3>2
  <2>3. QED
    BY <2>1, <2>2
<1>9. Shifted(u, Filled(p), t, Q, d, count - d)
  <2>1. /\ d \in Nat /\ count - d \in Nat /\ count - d <= Len(u) /\ d + (count - d) <= Len(t)
        /\ \A i \in Q : d < i /\ i <= d + (count - d)
    BY <1>1, <1>2, <1>3, <1>4, <1>6, <1>7
  <2>2. \A i \in DOMAIN u : i \in Filled(p) => i <= count - d
    BY <1>8
  <2>3. ASSUME NEW i \in 1..(count - d)
        PROVE  (i \in Filled(p) <=> d + i \in Q) /\ u[i] = t[d + i]
    <3>1. d + i \in 1..MaxContainers /\ i \in 1..Len(p)
      BY <1>1, <1>2, <1>3, <1>4
    <3>2. u[i] = i - 1 + d /\ t[d + i] = (d + i) - 1
      BY <1>6, <1>7, <3>1
    <3>3. i \in Filled(p) <=> i - 1 + d \in wants
      BY <1>8
    <3>4. d + i \in Q <=> (d + i) - 1 \in wants
      BY <3>1
    <3>5. (d + i) - 1 = i - 1 + d
      BY <1>1, <1>2, <3>1
    <3>6. QED
      BY <3>2, <3>3, <3>4, <3>5
  <2>4. QED
    BY <1>6, <2>1, <2>2, <2>3 DEF Shifted
<1>10. Kept(u, Filled(p)) = Kept(t, Q)
  BY <1>6, <1>7, <1>9, KeptShifted
<1>11. Raised(Kept(c, Filled(p)), d) = Kept(u, Filled(p))
  BY <1>2, <1>5, KeptRaised DEF u
<1>12. QED
  BY <1>10, <1>11 DEF PositionsIn, Ascending, p, c, t, d

\* Even then it names containers of the pod, and one at least.
LEMMA NamesInRange ==
  ASSUME NEW wants, NEW ending, NEW left, Choice(count, wants, ending, left)
  PROVE  LET names == PositionsIn(Padded(Written(count, wants, ending, left))) IN
           names \in Seq(0..(count - 1)) /\ names # <<>>
<1> DEFINE p == Padded(Written(count, wants, ending, left))
           c == [i \in 1..Len(p) |-> i - 1]
<1>1. /\ count \in Nat /\ left \in Nat /\ left < count
      /\ \A i \in wants : i \in Nat /\ left <= i /\ i < count
  BY AnnotationAssumption DEF Choice
<1>2. PICK k \in 0..left :
        /\ p \in Strings /\ DOMAIN p = 1..Len(p)
        /\ \A j : j \in Filled(p) <=> j \in (k + 1)..(k + count - left) /\ j - 1 - k + left \in wants
  BY PlacesFilled
<1>3. Len(p) \in Nat
  BY <1>2, LenProperties DEF Strings
<1> HIDE DEF p
<1>4. /\ c \in Seq(Nat) /\ Len(c) = Len(p) /\ DOMAIN c = 1..Len(p)
      /\ \A i \in 1..Len(p) : c[i] = i - 1
  BY <1>3, Counted
<1> HIDE DEF c
<1>5. \A j \in DOMAIN c : j \in Filled(p) => c[j] \in 0..(count - 1)
  <2>1. ASSUME NEW j \in DOMAIN c, j \in Filled(p) PROVE j - 1 \in 0..(count - 1)
    BY <1>1, <1>2, <2>1
  <2>2. QED
    BY <1>4, <2>1
<1>6. \E j \in DOMAIN c : j \in Filled(p)
  <2>1. PICK i \in wants : TRUE
    BY DEF Choice
  <2> DEFINE j == k + (i - left) + 1
  <2>2. j \in (k + 1)..(k + count - left) /\ j - 1 - k + left = i
    BY <1>1, <1>2, <2>1
  <2> HIDE DEF j
  <2>3. j \in Filled(p) /\ j \in DOMAIN p
    BY <1>2, <2>1, <2>2 DEF Filled
  <2>4. QED
    BY <1>2, <1>4, <2>3
<1>7. Kept(c, Filled(p)) \in Seq(0..(count - 1)) /\ Kept(c, Filled(p)) # <<>>
  BY <1>4, <1>5, <1>6, KeptType, KeptSome
<1>8. QED
  BY <1>7 DEF PositionsIn, p, c

-----------------------------------------------------------------------------
(* Types, and a container index that is one of the pod's. *)

Names == PositionsIn(Padded(allocated))
StringInv ==
  /\ order = DecodePodDevices(allocated)
  /\ Names \in Seq(0..(count - 1)) /\ Names # <<>>

\* There are names from the first update on, and until then nothing is taken.
RangeInv ==
  /\ index # <<>> \/ Untouched
  /\ call.pc \notin {"idle", "update"} => index # <<>>
  /\ call.pc \in {"take", "serve"} => call.ctr \in 0..(count - 1)

AnnotationInv == AnnotationTypeOK /\ StringInv /\ RangeInv

LEMMA InitChoice ==
  ASSUME Init
  PROVE  \E wants, ending, left :
           /\ Choice(count, wants, ending, left)
           /\ order = Ascending(wants)
           /\ allocated = Written(count, wants, ending, left)
           /\ slip = Slip(ending, left)
<1>1. PICK wants \in (SUBSET (0..(count - 1))) \ {{}}, ending \in Endings, left \in 0..(count - 1) :
        /\ \A i \in wants : i >= left
        /\ order = Ascending(wants)
        /\ allocated = Written(count, wants, ending, left)
        /\ slip = IF left > 0 /\ ending = "ended" THEN 1 ELSE 0
  BY DEF Init
<1>2. count \in 1..MaxContainers
  BY DEF Init
<1>3. Choice(count, wants, ending, left)
  BY <1>1, <1>2 DEF Choice
<1>4. QED
  BY <1>1, <1>3 DEF Slip

LEMMA InitAnnotations == Init => AnnotationInv
<1> SUFFICES ASSUME Init PROVE AnnotationInv
  OBVIOUS
<1>1. PICK wants, ending, left :
        /\ Choice(count, wants, ending, left)
        /\ order = Ascending(wants)
        /\ allocated = Written(count, wants, ending, left)
        /\ slip = Slip(ending, left)
  BY InitChoice
<1>2. allocated \in Strings /\ order = DecodePodDevices(allocated)
  BY <1>1, WrittenString, DecodeWritten
<1>3. Names \in Seq(0..(count - 1)) /\ Names # <<>>
  BY <1>1, NamesInRange DEF Names
<1>4. order \in Seq(Positions)
  BY <1>2, DecodeType
<1>5. index = <<>> /\ toAllocate = allocated /\ call = NoCall /\ bindPhase = "allocating" /\ errors = 0
      /\ count \in 1..MaxContainers /\ calls = Len(order)
  BY DEF Init
<1>6. AnnotationTypeOK
  <2>1. slip \in {0, 1} /\ calls \in Nat
    BY <1>1, <1>4, <1>5, LenProperties DEF Slip
  <2>2. QED
    BY <1>2, <1>4, <1>5, <2>1, EmptySeq DEF AnnotationTypeOK, NoCall, Call
<1>7. RangeInv
  BY <1>5 DEF RangeInv, Untouched, NoCall
<1>8. QED
  BY <1>2, <1>3, <1>6, <1>7 DEF AnnotationInv, StringInv

\* The pod and what the scheduler wrote for it stay as they are.
LEMMA PodStays ==
  ASSUME [Next]_vars
  PROVE  UNCHANGED pod /\ (StringInv => StringInv')
<1>1. UNCHANGED pod
  BY DEF Next, vars, pod, BeginCall, PodNotFound, UpdateContainerIndex, TakeRequest, Serve,
         DeleteContainerIndex, TrySuccess, PodAllocationFailed
<1>2. QED
  BY <1>1 DEF pod, StringInv, Names, Padded

\* Steps that change neither the strings nor what the call works with.
LEMMA AnnotationsQuiet ==
  ASSUME AnnotationInv, UNCHANGED <<pod, toAllocate, index>>, call' \in Call,
         bindPhase' \in {"allocating", "success", "failed"}, errors' \in Nat, calls' \in Nat,
         call'.pc \notin {"idle", "update"} => call.pc \notin {"idle", "update"},
         call'.pc \in {"take", "serve"} => call.pc \in {"take", "serve"} /\ call'.ctr = call.ctr
  PROVE  AnnotationTypeOK' /\ RangeInv'
  BY DEF AnnotationInv, AnnotationTypeOK, RangeInv, Untouched, pod

LEMMA UpdateInRange ==
  ASSUME AnnotationInv, UpdateContainerIndex
  PROVE  AnnotationTypeOK' /\ RangeInv'
<1> DEFINE new == IF Untouched THEN Names ELSE index
<1>1. /\ AnnotationTypeOK /\ StringInv /\ RangeInv /\ UNCHANGED <<pod, toAllocate, bindPhase>>
      /\ call \in Call /\ errors \in Nat /\ calls' \in Nat
  BY DEF AnnotationInv, AnnotationTypeOK, UpdateContainerIndex
<1>2. new \in Seq(0..(count - 1)) /\ new # <<>>
  BY <1>1 DEF AnnotationTypeOK, StringInv, RangeInv
<1>3. CASE index' = new /\ call' = [call EXCEPT !.pc = "take", !.ctr = Head(new)] /\ UNCHANGED errors
  <2>1. Head(new) \in 0..(count - 1)
    BY <1>2, HeadTailProperties
  <2> HIDE DEF new
  <2>2. call' \in Call /\ call'.pc = "take" /\ call'.ctr = Head(new)
    <3>1. Head(new) \in Int
      BY <1>1, <2>1 DEF AnnotationTypeOK
    <3>2. QED
      BY <1>1, <1>3, <3>1 DEF Call
  <2>3. QED
    BY <1>1, <1>2, <1>3, <2>1, <2>2 DEF AnnotationTypeOK, RangeInv, pod
<1>4. CASE ErrorHappens /\ call' = NoCall /\ index' \in {index, new}
  <2>1. /\ call' \in Call /\ call'.pc = "idle" /\ errors' \in Nat
        /\ index' \in Seq(0..(count - 1)) /\ (index' = index \/ index' # <<>>)
    BY <1>1, <1>2, <1>4 DEF NoCall, Call, ErrorHappens, AnnotationTypeOK
  <2>2. QED
    BY <1>1, <2>1 DEF AnnotationTypeOK, RangeInv, Untouched, pod
<1>5. QED
  BY <1>2, <1>3, <1>4 DEF UpdateContainerIndex, GetCurrentContainerIndex, Names

LEMMA TakeInRange ==
  ASSUME AnnotationInv, TakeRequest
  PROVE  AnnotationTypeOK' /\ RangeInv'
<1> DEFINE next == DecodePodDevices(toAllocate)
<1>1. /\ AnnotationTypeOK /\ RangeInv /\ UNCHANGED <<pod, index, bindPhase, calls>>
      /\ call \in Call /\ errors \in Nat /\ call.pc = "take" /\ toAllocate \in Strings
  BY DEF AnnotationInv, AnnotationTypeOK, TakeRequest
<1>2. CASE /\ next # <<>> /\ toAllocate' = Erased(toAllocate)
           /\ call' = [call EXCEPT !.pc = "serve", !.req = Head(next)] /\ UNCHANGED errors
  <2>1. Head(next) \in Positions /\ Erased(toAllocate) \in Strings
    BY <1>1, <1>2, DecodeType, DecodeErased, HeadTailProperties
  <2> HIDE DEF next
  <2>2. call' \in Call /\ call'.pc = "serve" /\ call'.ctr = call.ctr
    BY <1>1, <1>2, <2>1 DEF Call
  <2>3. QED
    BY <1>1, <1>2, <2>1, <2>2 DEF AnnotationTypeOK, RangeInv, pod
<1>3. CASE /\ UNCHANGED errors \/ ErrorHappens
           /\ call' = [call EXCEPT !.pc = "fail"] /\ UNCHANGED toAllocate
  <2>1. call' \in Call /\ call'.pc = "fail" /\ errors' \in Nat
    BY <1>1, <1>3 DEF Call, ErrorHappens
  <2>2. bindPhase' \in {"allocating", "success", "failed"} /\ calls' \in Nat
    BY <1>1 DEF AnnotationTypeOK
  <2>3. QED
    BY <1>1, <1>3, <2>1, <2>2, AnnotationsQuiet
<1>4. QED
  BY <1>2, <1>3 DEF TakeRequest

LEMMA TailLeft ==
  ASSUME NEW S, NEW s \in Seq(S), Len(s) > 1
  PROVE  Tail(s) \in Seq(S) /\ Tail(s) # <<>>
<1>1. s # <<>>
  OBVIOUS
<1>2. Tail(s) \in Seq(S) /\ Len(Tail(s)) = Len(s) - 1
  BY <1>1, HeadTailProperties
<1>3. Len(Tail(s)) # 0
  <2>1. Len(s) \in Nat
    BY LenProperties
  <2>2. QED
    BY <1>2, <2>1
<1>4. QED
  BY <1>2, <1>3, EmptySeq

LEMMA AnnotationStep == AnnotationInv /\ [Next]_vars => AnnotationInv'
<1> SUFFICES ASSUME AnnotationInv, [Next]_vars PROVE AnnotationTypeOK' /\ RangeInv'
  BY PodStays DEF AnnotationInv
<1>1. /\ AnnotationTypeOK /\ RangeInv /\ call \in Call /\ errors \in Nat
      /\ bindPhase \in {"allocating", "success", "failed"} /\ NoCall \in Call
  BY DEF AnnotationInv, AnnotationTypeOK, NoCall, Call
<1>2. calls' \in Nat
  <2>1. calls \in Nat
    BY DEF AnnotationInv, AnnotationTypeOK
  <2>2. CASE BeginCall \/ PodNotFound
    BY <2>1, <2>2 DEF BeginCall, PodNotFound
  <2>3. CASE calls' \in {0, calls}
    BY <2>1, <2>3
  <2>4. QED
    BY <2>2, <2>3 DEF Next, vars, UpdateContainerIndex, TakeRequest, Serve,
       DeleteContainerIndex, TrySuccess, PodAllocationFailed
<1>3. CASE BeginCall
  <2>1. call' \in Call /\ call'.pc = "update"
    BY <1>1, <1>3 DEF BeginCall, Call
  <2>2. QED
    BY <1>2, <1>1, <1>3, <2>1, AnnotationsQuiet DEF BeginCall
<1>4. CASE PodNotFound
  <2>1. call' = call /\ errors' \in Nat /\ UNCHANGED <<pod, toAllocate, index, bindPhase>>
    BY <1>1, <1>4 DEF PodNotFound, ErrorHappens
  <2>2. QED
    BY <1>2, <1>1, <2>1, AnnotationsQuiet
<1>5. CASE Serve
  <2>1. call' \in Call /\ call'.pc \in {"drop", "fail"} /\ call.pc = "serve"
    BY <1>1, <1>5 DEF Serve, Call
  <2>2. QED
    BY <1>2, <1>1, <1>5, <2>1, AnnotationsQuiet DEF Serve
<1>6. CASE DeleteContainerIndex
  <2>1. call' \in Call /\ call'.pc = "settle" /\ call.pc = "drop" /\ errors' \in Nat
    BY <1>1, <1>6 DEF DeleteContainerIndex, Call, ErrorHappens
  <2>2. index \in Seq(0..(count - 1)) /\ index # <<>>
    BY <1>1, <1>6 DEF DeleteContainerIndex, AnnotationTypeOK, RangeInv
  <2>3. index' \in Seq(0..(count - 1)) /\ index' # <<>>
    BY <1>6, <2>2, TailLeft DEF DeleteContainerIndex, IndexLeft
  <2>4. QED
    BY <1>2, <1>1, <1>6, <2>1, <2>3 DEF DeleteContainerIndex, AnnotationTypeOK, RangeInv, pod
<1>7. CASE TrySuccess \/ PodAllocationFailed
  <2>1. /\ UNCHANGED <<pod, toAllocate, index>> /\ call' = NoCall /\ errors' \in Nat
        /\ bindPhase' \in {"allocating", "success", "failed"}
    BY <1>1, <1>7 DEF TrySuccess, PodAllocationFailed, ErrorHappens
  <2>2. QED
    BY <1>2, <1>1, <2>1, AnnotationsQuiet DEF NoCall
<1>8. CASE UNCHANGED vars
  BY <1>2, <1>1, <1>8, AnnotationsQuiet DEF vars, pod
<1>9. QED
  BY <1>3, <1>5, <1>6, <1>7, <1>8, <1>4, UpdateInRange, TakeInRange DEF Next

LEMMA AnnotationInvariant == Spec => []AnnotationInv
  BY InitAnnotations, AnnotationStep, PTL DEF Spec

\* Every variable keeps its type: the strings hold positions of containers and
\* empty parts, the index only positions of containers the pod has.
THEOREM AnnotationsTyped == Spec => []AnnotationTypeOK
<1>1. AnnotationInv => AnnotationTypeOK
  BY DEF AnnotationInv
<1>2. QED
  BY <1>1, AnnotationInvariant, PTL

\* Whatever fails, and however the strings were written: Spec.Containers[ctrIndex]
\* is read with an index in range.
THEOREM IndexAlwaysInRange == Spec => []IndexInRange
<1>1. AnnotationInv => IndexInRange
  BY DEF AnnotationInv, RangeInv, IndexInRange
<1>2. QED
  BY <1>1, AnnotationInvariant, PTL

-----------------------------------------------------------------------------
(* Kubelet's calls and the requests left.                                    *)

\* A string always has a request for each call still to come, and for the call
\* in progress until it takes one.
Queue == DecodePodDevices(toAllocate)
ToTake == IF call.pc \in {"update", "take"} THEN 1 ELSE 0
CallsInv == calls > 0 => Len(Queue) >= calls + ToTake

LEMMA QueueType == ASSUME AnnotationInv PROVE Queue \in Seq(Positions) /\ Len(Queue) \in Nat
  BY DecodeType, LenProperties DEF Queue, AnnotationInv, AnnotationTypeOK

LEMMA InitCalls == Init => CallsInv
<1> SUFFICES ASSUME Init PROVE Len(Queue) >= calls + ToTake
  BY DEF CallsInv
<1>1. AnnotationInv
  BY InitAnnotations
<1>2. Queue = order /\ calls = Len(order)
  BY <1>1 DEF Init, Queue, AnnotationInv, StringInv
<1>3. ToTake = 0
  BY DEF Init, NoCall, ToTake
<1>4. QED
  BY <1>1, <1>2, <1>3, QueueType

LEMMA CallsStep == AnnotationInv /\ CallsInv /\ [Next]_vars => CallsInv'
<1> SUFFICES ASSUME AnnotationInv, CallsInv, [Next]_vars, calls' > 0
             PROVE  Len(Queue') >= calls' + ToTake'
  BY DEF CallsInv
<1>1. /\ calls \in Nat /\ call \in Call /\ toAllocate \in Strings /\ Len(Queue) \in Nat
      /\ ToTake \in {0, 1}
  BY QueueType DEF AnnotationInv, AnnotationTypeOK, ToTake
<1>2. CASE BeginCall
  <2>1. Queue' = Queue /\ calls > 0 /\ calls' = calls - 1 /\ ToTake' \in {0, 1}
    BY <1>1, <1>2 DEF BeginCall, Queue, ToTake
  <2>2. QED
    BY <1>1, <2>1 DEF CallsInv
<1>3. CASE PodNotFound
  <2>1. Queue' = Queue /\ calls > 0 /\ calls' = calls - 1 /\ ToTake' = ToTake
    BY <1>1, <1>3 DEF PodNotFound, Queue, ToTake
  <2>2. QED
    BY <1>1, <2>1 DEF CallsInv
<1>4. CASE TakeRequest
  <2>1. calls' = calls /\ ToTake = 1
    BY <1>4 DEF TakeRequest, ToTake
  <2>2. call'.pc \in {"serve", "fail"}
    BY <1>1, <1>4 DEF TakeRequest, Call
  <2>3. Queue' = Queue \/ (Queue # <<>> /\ Queue' = Tail(Queue))
    BY <1>1, <1>4, DecodeErased DEF TakeRequest, Queue
  <2>4. Len(Queue') >= Len(Queue) - 1
    <3>1. Queue # <<>> => Len(Tail(Queue)) = Len(Queue) - 1
      BY QueueType, HeadTailProperties
    <3>2. QED
      BY <1>1, <2>3, <3>1
  <2>5. ToTake' = 0 /\ Len(Queue') \in Nat
    BY <2>2 DEF ToTake
  <2>6. QED
    BY <1>1, <2>1, <2>4, <2>5 DEF CallsInv
<1>5. CASE \/ UpdateContainerIndex \/ Serve \/ DeleteContainerIndex \/ TrySuccess
           \/ PodAllocationFailed \/ UNCHANGED vars
  <2>1. Queue' = Queue /\ calls' = calls
    BY <1>5 DEF UpdateContainerIndex, Serve, DeleteContainerIndex, TrySuccess,
       PodAllocationFailed, vars, Queue
  <2>2. ToTake' \in {0, ToTake}
    BY <1>1, <1>5 DEF UpdateContainerIndex, Serve, DeleteContainerIndex, TrySuccess,
       PodAllocationFailed, vars, ToTake, Call, NoCall
  <2>3. QED
    BY <1>1, <2>1, <2>2 DEF CallsInv
<1>6. QED
  BY <1>2, <1>3, <1>4, <1>5 DEF Next

\* A pod becomes a success only when kubelet has no call for it left, whatever
\* failed and however often the pod was not found.
THEOREM SuccessOnlyServed == Spec => SuccessMeansServed
<1>1. ASSUME AnnotationInv, CallsInv, [Next]_vars
      PROVE  [bindPhase' = "success" /\ bindPhase # "success" => calls = 0]_vars
  <2> SUFFICES ASSUME bindPhase' = "success", bindPhase # "success"
               PROVE  calls = 0
    OBVIOUS
  <2>1. NoDeviceIn(toAllocate)
    BY <1>1 DEF Next, vars, BeginCall, PodNotFound, UpdateContainerIndex, TakeRequest,
       Serve, DeleteContainerIndex, TrySuccess, PodAllocationFailed
  <2>2. Queue = <<>> /\ calls \in Nat /\ ToTake \in {0, 1}
    BY <1>1, <2>1, DecodeNothing DEF AnnotationInv, AnnotationTypeOK, Queue, ToTake
  <2>3. Len(Queue) = 0
    BY <2>2
  <2>4. QED
    BY <1>1, <2>2, <2>3 DEF CallsInv
<1>2. Spec => []CallsInv
  BY AnnotationInvariant, InitCalls, CallsStep, PTL DEF Spec
<1>3. QED
  BY <1>1, <1>2, AnnotationInvariant, PTL DEF Spec, SuccessMeansServed

-----------------------------------------------------------------------------
(* The two queues run in step, container-index by slip behind.               *)

Named == Raised(index, slip)
Exact == Raised(Names, slip) = order

\* While no request has failed: between two calls either nothing was taken or the
\* names left are those of the requests left, and within a call the name that is
\* used goes a step after its request.
StepInv ==
  /\ call.pc # "idle" => bindPhase = "allocating"
  /\ call.pc \in {"idle", "update"} /\ bindPhase = "allocating" =>
       Untouched \/ Queue \in {<<>>, Named}
  /\ call.pc = "take" /\ Queue # <<>> => Named = Queue /\ call.ctr + slip = Head(Queue)
  /\ call.pc = "serve" => call.ctr + slip = call.req
  /\ call.pc \in {"serve", "drop"} => Tail(Named) = Queue
  /\ call.pc = "settle" => Queue \in {<<>>, Named}
InStep == errors = 0 => StepInv

QueueInv == AnnotationInv /\ Exact /\ InStep

\* An index and what it stands for.
LEMMA RaisedIndex ==
  ASSUME count \in Nat, slip \in {0, 1}, NEW s \in Seq(0..(count - 1))
  PROVE  /\ s \in Seq(Nat) /\ slip \in Nat
         /\ Raised(s, slip) \in Seq(Nat) /\ Len(Raised(s, slip)) = Len(s)
         /\ s # <<>> => /\ Raised(s, slip) # <<>> /\ Head(s) \in Nat
                        /\ Head(Raised(s, slip)) = Head(s) + slip
                        /\ Tail(Raised(s, slip)) = Raised(Tail(s), slip)
<1>1. s \in Seq(Nat) /\ slip \in Nat
  OBVIOUS
<1>2. s # <<>> => Head(s) \in Nat
  BY <1>1, HeadTailProperties
<1>3. QED
  BY <1>1, <1>2, RaisedType, RaisedTail

LEMMA InitQueue == ASSUME Init PROVE QueueInv
<1>1. AnnotationInv
  BY InitAnnotations
<1>2. Exact
  <2>1. PICK wants, ending, left :
          /\ Choice(count, wants, ending, left)
          /\ order = Ascending(wants)
          /\ allocated = Written(count, wants, ending, left)
          /\ slip = Slip(ending, left)
    BY InitChoice
  <2>2. QED
    BY <2>1, NamesWritten DEF Exact, Names
<1>3. InStep
  BY DEF Init, InStep, StepInv, Untouched, NoCall
<1>4. QED
  BY <1>1, <1>2, <1>3 DEF QueueInv

\* An untouched string holds every request, in the order of the names.
LEMMA UntouchedQueue ==
  ASSUME QueueInv, Untouched
  PROVE  Queue = order /\ Raised(Names, slip) = order /\ Names # <<>>
  BY DEF QueueInv, AnnotationInv, StringInv, Exact, Untouched, Queue

\* A step that fails is the last one the invariant says anything about.
LEMMA NoErrorSoFar ==
  ASSUME AnnotationInv, [Next]_vars, errors' = 0
  PROVE  UNCHANGED errors
<1>1. errors \in Nat
  BY DEF AnnotationInv, AnnotationTypeOK
<1>2. ~ErrorHappens
  BY <1>1 DEF ErrorHappens
<1>3. QED
  BY <1>2 DEF Next, vars, BeginCall, PodNotFound, UpdateContainerIndex, TakeRequest,
     Serve, DeleteContainerIndex, TrySuccess, PodAllocationFailed

LEMMA UpdateKeepsStep ==
  ASSUME QueueInv, StepInv, UpdateContainerIndex, UNCHANGED errors
  PROVE  StepInv'
<1> DEFINE new == IF Untouched THEN Names ELSE index
<1>1. /\ AnnotationTypeOK /\ StringInv /\ RangeInv /\ call \in Call /\ errors \in Nat
      /\ UNCHANGED <<pod, toAllocate, bindPhase>> /\ call.pc = "update" /\ UNCHANGED slip
      /\ count \in Nat /\ slip \in {0, 1} /\ index \in Seq(0..(count - 1))
  BY DEF QueueInv, AnnotationInv, AnnotationTypeOK, UpdateContainerIndex, pod
<1>2. Untouched => Raised(new, slip) = Queue
  BY UntouchedQueue
<1>3. ~Untouched => Raised(new, slip) = Named /\ Queue \in {<<>>, Named}
  BY <1>1 DEF StepInv, Named
<1>4. new # <<>> /\ new \in Seq(0..(count - 1))
  BY <1>1 DEF StringInv, RangeInv
<1> HIDE DEF new
<1>5. Queue # <<>> => Raised(new, slip) = Queue
  BY <1>2, <1>3
<1>6. Queue' = Queue
  BY <1>1 DEF Queue
<1>7. index' = new /\ call' = [call EXCEPT !.pc = "take", !.ctr = GetCurrentContainerIndex(new)]
  <2>1. ~ErrorHappens
    BY <1>1 DEF ErrorHappens
  <2>2. QED
    BY <2>1 DEF UpdateContainerIndex, new, Names
<1>8. call'.pc = "take" /\ call'.ctr = Head(new) /\ Named' = Raised(new, slip)
  BY <1>1, <1>4, <1>7 DEF Call, GetCurrentContainerIndex, Named
<1>9. Head(Raised(new, slip)) = Head(new) + slip
  BY <1>1, <1>4, RaisedIndex
<1>10. bindPhase' = "allocating"
  BY <1>1 DEF StepInv
<1>11. QED
  BY <1>1, <1>5, <1>6, <1>8, <1>9, <1>10 DEF StepInv

LEMMA TakeKeepsStep ==
  ASSUME QueueInv, StepInv, TakeRequest
  PROVE  StepInv'
<1>1. /\ toAllocate \in Strings /\ call \in Call
      /\ UNCHANGED <<pod, index, bindPhase>> /\ call.pc = "take"
      /\ UNCHANGED slip /\ bindPhase' = "allocating" /\ Named' = Named
  BY DEF QueueInv, AnnotationInv, AnnotationTypeOK, TakeRequest, pod, Named, StepInv
<1>2. CASE /\ Queue # <<>> /\ toAllocate' = Erased(toAllocate)
           /\ call' = [call EXCEPT !.pc = "serve", !.req = Head(Queue)]
  <2>1. Named = Queue /\ call.ctr + slip = Head(Queue)
    BY <1>1, <1>2 DEF StepInv
  <2>2. Queue' = Tail(Queue)
    BY <1>1, <1>2, DecodeErased DEF Queue
  <2>3. call'.pc = "serve" /\ call'.ctr + slip' = call'.req
    BY <1>1, <1>2, <2>1 DEF Call
  <2>4. QED
    BY <1>1, <2>1, <2>2, <2>3 DEF StepInv
<1>3. CASE call' = [call EXCEPT !.pc = "fail"]
  <2>1. call'.pc = "fail"
    BY <1>1, <1>3 DEF Call
  <2>2. QED
    BY <1>1, <2>1 DEF StepInv
<1>4. QED
  BY <1>2, <1>3 DEF TakeRequest, Queue

LEMMA DropKeepsStep ==
  ASSUME QueueInv, StepInv, DeleteContainerIndex, UNCHANGED errors
  PROVE  StepInv'
<1>1. /\ index \in Seq(0..(count - 1)) /\ index # <<>> /\ call \in Call /\ errors \in Nat
      /\ UNCHANGED <<pod, toAllocate, bindPhase>> /\ call.pc = "drop" /\ UNCHANGED slip
      /\ count \in Nat /\ slip \in {0, 1} /\ bindPhase' = "allocating"
  BY DEF QueueInv, AnnotationInv, AnnotationTypeOK, RangeInv, DeleteContainerIndex, pod, StepInv
<1>2. Tail(Named) = Queue /\ Queue' = Queue
  BY <1>1 DEF StepInv, Queue
<1>3. index' = IF Len(index) > 1 THEN Tail(index) ELSE index
  <2>1. ~ErrorHappens
    BY <1>1 DEF ErrorHappens
  <2>2. QED
    BY <2>1 DEF DeleteContainerIndex, IndexLeft
<1>4. /\ Named \in Seq(Nat) /\ Named # <<>> /\ Len(Named) = Len(index)
      /\ Tail(Named) = Raised(Tail(index), slip)
  BY <1>1, RaisedIndex DEF Named
<1>5. Len(index) > 1 \/ Tail(Named) = <<>>
  <2>1. Len(Named) \in Nat /\ Len(Named) # 0
    BY <1>4, LenProperties, EmptySeq
  <2>2. Tail(Named) \in Seq(Nat) /\ Len(Tail(Named)) = Len(Named) - 1
    BY <1>4, HeadTailProperties
  <2>3. CASE Len(Named) = 1
    <3>1. Len(Tail(Named)) = 0
      BY <2>2, <2>3
    <3>2. QED
      BY <2>2, <3>1, EmptySeq
  <2>4. QED
    BY <1>4, <2>1, <2>3
<1>6. Queue' \in {<<>>, Named'}
  <2>1. CASE Len(index) > 1
    BY <1>1, <1>2, <1>3, <1>4, <2>1 DEF Named
  <2>2. QED
    BY <1>2, <1>5, <2>1
<1>7. call'.pc = "settle"
  BY <1>1 DEF DeleteContainerIndex, Call
<1>8. QED
  BY <1>1, <1>6, <1>7 DEF StepInv

LEMMA QueueStep == QueueInv /\ [Next]_vars => QueueInv'
<1> SUFFICES ASSUME QueueInv, [Next]_vars PROVE QueueInv'
  OBVIOUS
<1>1. AnnotationInv'
  BY AnnotationStep DEF QueueInv
<1>2. Exact'
  BY PodStays DEF QueueInv, Exact, Names, Padded, pod
<1>3. ASSUME errors' = 0 PROVE StepInv'
  <2>1. /\ UNCHANGED errors /\ StepInv /\ call \in Call
    BY <1>3, NoErrorSoFar DEF QueueInv, InStep, AnnotationInv, AnnotationTypeOK
  <2>2. CASE BeginCall
    <3>1. call'.pc = "update" /\ call.pc = "idle"
      BY <2>1, <2>2 DEF BeginCall, Call
    <3>2. QED
      BY <2>1, <2>2, <3>1 DEF BeginCall, StepInv, Queue, Named, Untouched, pod
  <2>3. CASE Serve
    <3>1. call'.pc \in {"drop", "fail"} /\ call.pc = "serve"
      BY <2>1, <2>3 DEF Serve, Call
    <3>2. QED
      BY <2>1, <2>3, <3>1 DEF Serve, StepInv, Queue, Named, pod
  <2>4. CASE TrySuccess
    <3>1. call'.pc = "idle" /\ Queue' \in {<<>>, Named'}
      BY <2>1, <2>4 DEF TrySuccess, StepInv, Queue, Named, pod, NoCall
    <3>2. QED
      BY <3>1 DEF StepInv
  <2>5. CASE PodAllocationFailed
    <3>1. call'.pc = "idle" /\ bindPhase' = "failed"
      <4>1. errors \in Nat
        BY DEF QueueInv, AnnotationInv, AnnotationTypeOK
      <4>2. QED
        BY <2>1, <2>5, <4>1 DEF PodAllocationFailed, ErrorHappens, NoCall
    <3>2. QED
      BY <3>1 DEF StepInv
  <2>6. CASE UNCHANGED vars
    BY <2>1, <2>6 DEF vars, StepInv, Queue, Named, Untouched
  <2>7. ~PodNotFound
    <3>1. errors \in Nat
      BY DEF QueueInv, AnnotationInv, AnnotationTypeOK
    <3>2. QED
      BY <2>1, <3>1 DEF PodNotFound, ErrorHappens
  <2>8. QED
    BY <2>1, <2>2, <2>3, <2>4, <2>5, <2>6, <2>7, UpdateKeepsStep, TakeKeepsStep, DropKeepsStep DEF Next
<1>4. QED
  BY <1>1, <1>2, <1>3 DEF QueueInv, InStep

LEMMA QueueInvariant == Spec => []QueueInv
<1>1. Init => QueueInv
  BY InitQueue
<1>2. QED
  BY <1>1, QueueStep, PTL DEF Spec

\* While no request has failed, container-index is in step with the requests, for
\* any number of containers and however the string was written.
THEOREM IndexNamesTheRequest == Spec => []IndexNamesRequest
<1>1. QueueInv => IndexNamesRequest
  <2> SUFFICES ASSUME QueueInv, errors = 0, call.pc = "serve"
               PROVE  call.ctr = call.req - slip
    BY DEF IndexNamesRequest
  <2>1. call.ctr + slip = call.req
    BY DEF QueueInv, InStep, StepInv
  <2>2. call.ctr \in Int /\ slip \in Int
    BY DEF QueueInv, AnnotationInv, AnnotationTypeOK, Call
  <2>3. QED
    BY <2>1, <2>2
<1>2. QED
  BY <1>1, QueueInvariant, PTL

-----------------------------------------------------------------------------
(* The refinement.                                                           *)

LEMMA InitImplements == ASSUME QueueInv, Init PROVE Abstract!Init
<1>1. Queue = order
  BY UntouchedQueue DEF Init, Untouched
<1>2. Named = <<>>
  BY DEF Init, Named, Raised
<1>3. QED
  BY <1>1, <1>2 DEF Init, Abstract!Init, Queue, Named

LEMMA StepImplements ==
  ASSUME QueueInv, [Next]_vars
  PROVE  Abstract!Next \/ UNCHANGED <<order, Queue, Named>>
<1>1. /\ toAllocate \in Strings /\ UNCHANGED <<order, slip>>
      /\ count \in Nat /\ slip \in {0, 1} /\ index \in Seq(0..(count - 1))
  BY PodStays DEF pod, QueueInv, AnnotationInv, AnnotationTypeOK
<1>2. CASE UpdateContainerIndex
  <2>1. UNCHANGED Queue /\ index' \in {index, IF Untouched THEN Names ELSE index}
    BY <1>2 DEF UpdateContainerIndex, Names, Queue
  <2>2. UNCHANGED Named \/ (Queue = order /\ Named' = order)
    BY <1>1, <2>1, UntouchedQueue DEF Named
  <2>3. QED
    BY <1>1, <2>1, <2>2 DEF Abstract!Next, Abstract!Name, Queue, Named
<1>3. CASE TakeRequest
  <2>1. CASE toAllocate' = toAllocate
    BY <1>1, <1>3, <2>1 DEF TakeRequest, Queue, Named
  <2>2. CASE Queue # <<>> /\ toAllocate' = Erased(toAllocate)
    <3>1. Queue' = Tail(Queue) /\ UNCHANGED Named
      BY <1>1, <1>3, <2>2, DecodeErased DEF Queue, Named, TakeRequest
    <3>2. QED
      BY <1>1, <2>2, <3>1 DEF Abstract!Next, Abstract!Take, Queue, Named
  <2>3. QED
    BY <1>3, <2>1, <2>2 DEF TakeRequest, Queue
<1>4. CASE DeleteContainerIndex
  <2>1. UNCHANGED Queue /\ (index' = index \/ (Len(index) > 1 /\ index' = Tail(index)))
    BY <1>4 DEF DeleteContainerIndex, IndexLeft, Queue
  <2>2. Len(index) > 1 => Len(Named) > 1 /\ Tail(Named) = Raised(Tail(index), slip)
    <3>1. Len(index) > 1 => index # <<>>
      OBVIOUS
    <3>2. QED
      BY <1>1, <3>1, RaisedIndex DEF Named
  <2>3. UNCHANGED Named \/ (Len(Named) > 1 /\ Named' = Tail(Named))
    BY <1>1, <2>1, <2>2 DEF Named
  <2>4. QED
    BY <1>1, <2>1, <2>3 DEF Abstract!Next, Abstract!Drop, Queue, Named
<1>5. CASE \/ BeginCall \/ PodNotFound \/ Serve \/ TrySuccess \/ PodAllocationFailed
           \/ UNCHANGED vars
  BY <1>1, <1>5 DEF BeginCall, PodNotFound, Serve, TrySuccess, PodAllocationFailed, vars,
     Queue, Named
<1>6. QED
  BY <1>2, <1>3, <1>4, <1>5 DEF Next

\* Splitting, padding, dropping the empty parts and encoding again make the two
\* queues of DeviceQueue, for any number of containers, any string the scheduler
\* may have written, and whatever fails.
THEOREM ImplementsTheQueue == Spec => ImplementsQueue
<1>1. QueueInv /\ Init => Abstract!Init
  BY InitImplements
<1>2. QueueInv /\ [Next]_vars => [Abstract!Next]_(Abstract!vars)
  BY StepImplements DEF Abstract!vars, Queue, Named
<1>3. QED
  BY <1>1, <1>2, QueueInvariant, PTL DEF Spec, ImplementsQueue, Abstract!Spec
=============================================================================
