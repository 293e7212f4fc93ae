---------------------------- MODULE ListsProofs ----------------------------
(***************************************************************************)
(* Facts about lists that the proofs of several components need.           *)
(***************************************************************************)
EXTENDS Lists, SequencesExt, SequenceTheorems, WellFoundedInduction, TLAPS

\* Every set of naturals that has an element has a least one.
LEMMA LeastNumber ==
    ASSUME NEW S \in SUBSET Nat, S # {}
    PROVE  \E n \in S : \A m \in S : n <= m
<1>1. PICK R : IsWellFoundedOn(R, Nat) /\ \A x, y \in Nat : <<y, x>> \in R <=> y < x
  <2> DEFINE R == OpToRel(<, Nat)
  <2>1. \A x, y \in Nat : <<y, x>> \in R <=> y < x
    BY DEF OpToRel
  <2>2. IsWellFoundedOn(R, Nat)
    BY NatLessThanWellFounded
  <2> QED BY <2>1, <2>2, Zenon
<1>2. PICK n \in S : \A y \in S : <<y, n>> \notin R
  BY <1>1, WFMin
<1>3. \A y \in S : ~(y < n)
  BY <1>1, <1>2, Zenon
<1> QED BY <1>3

\* Induction, for a set of naturals
LEMMA AllNumbers ==
    ASSUME NEW P \in SUBSET Nat, 0 \in P, \A n \in Nat : n \in P => n + 1 \in P
    PROVE  P = Nat
<1> SUFFICES ASSUME Nat \ P # {} PROVE FALSE
  OBVIOUS
<1>1. PICK n \in Nat \ P : \A m \in Nat \ P : n <= m
  BY LeastNumber
<1>2. n # 0
  OBVIOUS
<1>3. n - 1 \in P
  BY <1>1, <1>2
<1> QED BY <1>1, <1>2, <1>3

-----------------------------------------------------------------------------
(* Elements *)

\* The elements of a list
LEMMA Elements ==
    ASSUME NEW S, NEW s \in Seq(S)
    PROVE  /\ ToSet(s) \subseteq S
           /\ \A i \in 1 .. Len(s) : s[i] \in ToSet(s)
           /\ \A x \in ToSet(s) : \E i \in 1 .. Len(s) : s[i] = x
           /\ IsInjective(s) <=> \A i, j \in 1 .. Len(s) : s[i] = s[j] => i = j
           /\ s = <<>> <=> ToSet(s) = {}
<1>1. Len(s) \in Nat /\ DOMAIN s = 1 .. Len(s) /\ \A i \in 1 .. Len(s) : s[i] \in S
  BY LenProperties
<1>2. s # <<>> => 1 \in 1 .. Len(s)
  BY EmptySeq
<1>3. ToSet(s) = {s[i] : i \in 1 .. Len(s)}
  BY <1>1 DEF ToSet
<1>4. s = <<>> => 1 .. Len(s) = {}
  BY EmptySeq
<1>5. IsInjective(s) <=> \A i, j \in 1 .. Len(s) : s[i] = s[j] => i = j
  BY <1>1 DEF IsInjective
<1>6. s = <<>> <=> ToSet(s) = {}
  BY <1>2, <1>3, <1>4
<1> QED BY <1>1, <1>3, <1>5, <1>6

\* Two lists, one after the other
LEMMA TwoLists ==
    ASSUME NEW S, NEW s \in Seq(S), NEW t \in Seq(S)
    PROVE  /\ s \o t \in Seq(S)
           /\ ToSet(s \o t) = ToSet(s) \cup ToSet(t)
           /\ IsInjective(s \o t) <=>
                 IsInjective(s) /\ IsInjective(t) /\ ToSet(s) \cap ToSet(t) = {}
<1>1. /\ Len(s) \in Nat /\ Len(t) \in Nat /\ s \o t \in Seq(S) /\ Len(s \o t) = Len(s) + Len(t)
      /\ \A i \in 1 .. Len(s) + Len(t) : (s \o t)[i] = IF i <= Len(s) THEN s[i] ELSE t[i - Len(s)]
  BY LenProperties, ConcatProperties
<1>2. /\ \A i \in 1 .. Len(s) : i \in 1 .. Len(s \o t) /\ (s \o t)[i] = s[i]
      /\ \A i \in 1 .. Len(t) : i + Len(s) \in 1 .. Len(s \o t) /\ (s \o t)[i + Len(s)] = t[i]
      /\ \A i \in 1 .. Len(s \o t) : i \in 1 .. Len(s) \/ i - Len(s) \in 1 .. Len(t)
  BY <1>1
<1> DEFINE u == s \o t
<1>3. u \in Seq(S)
  BY <1>1
<1> HIDE DEF u
<1>4. ToSet(u) \subseteq ToSet(s) \cup ToSet(t)
  <2> SUFFICES ASSUME NEW i \in 1 .. Len(u) PROVE u[i] \in ToSet(s) \cup ToSet(t)
    BY <1>3, Elements
  <2>1. CASE i \in 1 .. Len(s)
    BY <1>2, <2>1, Elements DEF u
  <2>2. CASE i \notin 1 .. Len(s)
    <3>1. i - Len(s) \in 1 .. Len(t) /\ u[i] = t[i - Len(s)]
      BY <1>1, <2>2 DEF u
    <3> QED BY <3>1, Elements
  <2> QED BY <2>1, <2>2
<1>5. ToSet(s) \cup ToSet(t) \subseteq ToSet(u)
  <2>1. ASSUME NEW i \in 1 .. Len(s) PROVE s[i] \in ToSet(u)
    <3>1. i \in 1 .. Len(u) /\ u[i] = s[i]
      BY <1>2 DEF u
    <3> QED BY <1>3, <3>1, Elements
  <2>2. ASSUME NEW i \in 1 .. Len(t) PROVE t[i] \in ToSet(u)
    <3>1. i + Len(s) \in 1 .. Len(u) /\ u[i + Len(s)] = t[i]
      BY <1>2 DEF u
    <3> QED BY <1>3, <3>1, Elements
  <2> QED BY <2>1, <2>2, Elements
<1>6. ASSUME IsInjective(u) PROVE IsInjective(s) /\ IsInjective(t) /\ ToSet(s) \cap ToSet(t) = {}
  <2>1. \A i, j \in 1 .. Len(u) : u[i] = u[j] => i = j
    BY <1>3, <1>6, Elements
  <2>2. \A i, j \in 1 .. Len(s) : s[i] = s[j] => i = j
    BY <1>2, <2>1 DEF u
  <2>3. \A i, j \in 1 .. Len(t) : t[i] = t[j] => i = j
    <3> SUFFICES ASSUME NEW i \in 1 .. Len(t), NEW j \in 1 .. Len(t), t[i] = t[j] PROVE i = j
      OBVIOUS
    <3>1. i + Len(s) = j + Len(s)
      BY <1>2, <2>1 DEF u
    <3> QED BY <1>1, <3>1
  <2>4. \A i \in 1 .. Len(s), j \in 1 .. Len(t) : s[i] # t[j]
    <3> SUFFICES ASSUME NEW i \in 1 .. Len(s), NEW j \in 1 .. Len(t), s[i] = t[j] PROVE FALSE
      OBVIOUS
    <3>1. i = j + Len(s)
      BY <1>2, <2>1 DEF u
    <3> QED BY <1>1, <3>1
  <2>5. IsInjective(s) /\ IsInjective(t)
    BY <2>2, <2>3, Elements
  <2>6. ToSet(s) \cap ToSet(t) = {}
    BY <2>4, Elements
  <2> QED BY <2>5, <2>6
<1>7. ASSUME IsInjective(s), IsInjective(t), ToSet(s) \cap ToSet(t) = {} PROVE IsInjective(u)
  <2>1. /\ \A i, j \in 1 .. Len(s) : s[i] = s[j] => i = j
        /\ \A i, j \in 1 .. Len(t) : t[i] = t[j] => i = j
        /\ \A i \in 1 .. Len(s), j \in 1 .. Len(t) : s[i] # t[j]
    BY <1>7, Elements
  <2>2. ASSUME NEW i \in 1 .. Len(u), NEW j \in 1 .. Len(u), u[i] = u[j] PROVE i = j
    <3>1. /\ u[i] = IF i <= Len(s) THEN s[i] ELSE t[i - Len(s)]
          /\ u[j] = IF j <= Len(s) THEN s[j] ELSE t[j - Len(s)]
          /\ i <= Len(s) => i \in 1 .. Len(s)
          /\ j <= Len(s) => j \in 1 .. Len(s)
          /\ ~(i <= Len(s)) => i - Len(s) \in 1 .. Len(t)
          /\ ~(j <= Len(s)) => j - Len(s) \in 1 .. Len(t)
      BY <1>1 DEF u
    <3>2. CASE i <= Len(s)
      BY <2>1, <2>2, <3>1, <3>2
    <3>3. CASE ~(i <= Len(s)) /\ j <= Len(s)
      BY <2>1, <2>2, <3>1, <3>3
    <3>4. CASE ~(i <= Len(s)) /\ ~(j <= Len(s))
      <4>1. i - Len(s) = j - Len(s)
        BY <2>1, <2>2, <3>1, <3>4
      <4> QED BY <1>1, <4>1 DEF u
    <3> QED BY <3>2, <3>3, <3>4
  <2> QED BY <1>3, <2>2, Elements
<1> QED BY <1>1, <1>4, <1>5, <1>6, <1>7 DEF u

\* A list of one element
LEMMA OneElement ==
    ASSUME NEW S, NEW x \in S
    PROVE  <<x>> \in Seq(S) /\ ToSet(<<x>>) = {x} /\ IsInjective(<<x>>)
<1>1. <<x>> \in Seq(S) /\ Len(<<x>>) = 1 /\ <<x>>[1] = x
  OBVIOUS
<1>2. \A i \in 1 .. Len(<<x>>) : i = 1
  BY <1>1
<1> DEFINE s == <<x>>
<1>3. s \in Seq(S) /\ Len(s) = 1 /\ s[1] = x /\ \A i \in 1 .. Len(s) : i = 1
  BY <1>1, <1>2
<1> HIDE DEF s
<1>4. 1 \in 1 .. Len(s)
  BY <1>3
<1>5. ToSet(s) = {x} /\ IsInjective(s)
  BY <1>3, <1>4, Elements
<1> QED BY <1>3, <1>5 DEF s

\* A new last element
LEMMA AppendOne ==
    ASSUME NEW S, NEW s \in Seq(S), NEW x \in S
    PROVE  /\ Append(s, x) \in Seq(S)
           /\ ToSet(Append(s, x)) = ToSet(s) \cup {x}
           /\ IsInjective(Append(s, x)) <=> IsInjective(s) /\ x \notin ToSet(s)
<1>1. Append(s, x) = s \o <<x>>
  BY AppendIsConcat
<1>2. <<x>> \in Seq(S) /\ ToSet(<<x>>) = {x} /\ IsInjective(<<x>>)
  BY OneElement
<1> DEFINE t == <<x>>
<1> HIDE DEF t
<1>3. /\ s \o t \in Seq(S)
      /\ ToSet(s \o t) = ToSet(s) \cup {x}
      /\ IsInjective(s \o t) <=> IsInjective(s) /\ x \notin ToSet(s)
  <2>1. t \in Seq(S) /\ ToSet(t) = {x} /\ IsInjective(t)
    BY <1>2 DEF t
  <2> QED BY <2>1, TwoLists
<1> QED BY <1>1, <1>3 DEF t

\* A new first element
LEMMA PushOne ==
    ASSUME NEW S, NEW s \in Seq(S), NEW x \in S
    PROVE  /\ <<x>> \o s \in Seq(S)
           /\ ToSet(<<x>> \o s) = ToSet(s) \cup {x}
           /\ IsInjective(<<x>> \o s) <=> IsInjective(s) /\ x \notin ToSet(s)
<1>2. <<x>> \in Seq(S) /\ ToSet(<<x>>) = {x} /\ IsInjective(<<x>>)
  BY OneElement
<1> DEFINE t == <<x>>
<1> HIDE DEF t
<1>3. /\ t \o s \in Seq(S)
      /\ ToSet(t \o s) = ToSet(s) \cup {x}
      /\ IsInjective(t \o s) <=> IsInjective(s) /\ x \notin ToSet(s)
  <2>1. t \in Seq(S) /\ ToSet(t) = {x} /\ IsInjective(t)
    BY <1>2 DEF t
  <2> QED BY <2>1, TwoLists
<1> QED BY <1>3 DEF t

\* The first element leaves
LEMMA PopOne ==
    ASSUME NEW S, NEW s \in Seq(S), s # <<>>
    PROVE  /\ Head(s) \in S /\ Tail(s) \in Seq(S)
           /\ ToSet(s) = ToSet(Tail(s)) \cup {Head(s)}
           /\ IsInjective(s) <=> IsInjective(Tail(s)) /\ Head(s) \notin ToSet(Tail(s))
<1> DEFINE x == Head(s)
           t == Tail(s)
<1>1. x \in S /\ t \in Seq(S) /\ s = <<x>> \o t
  BY HeadTailProperties, ConcatProperties
<1> HIDE DEF x, t
<1>2. /\ ToSet(s) = ToSet(t) \cup {x}
      /\ IsInjective(s) <=> IsInjective(t) /\ x \notin ToSet(t)
  BY <1>1, PushOne
<1> QED BY <1>1, <1>2 DEF x, t

\* The empty list
LEMMA EmptyList ==
    ASSUME NEW S
    PROVE  <<>> \in Seq(S) /\ ToSet(<<>>) = {} /\ IsInjective(<<>>)
  BY EmptySeq DEF ToSet, IsInjective

\* The first occurrence of an element is taken out.
LEMMA RemoveOne ==
    ASSUME NEW S, NEW s \in Seq(S), NEW x
    PROVE  /\ RemoveFirst(s, x) \in Seq(S)
           /\ ToSet(s) \ {x} \subseteq ToSet(RemoveFirst(s, x))
           /\ ToSet(RemoveFirst(s, x)) \subseteq ToSet(s)
           /\ IsInjective(s) => /\ IsInjective(RemoveFirst(s, x))
                                /\ ToSet(RemoveFirst(s, x)) = ToSet(s) \ {x}
<1>1. CASE \E i \in 1 .. Len(s) : s[i] = x
  <2> DEFINE at == {i \in 1 .. Len(s) : s[i] = x}
             k == CHOOSE i \in at : \A j \in at : i <= j
             before == SubSeq(s, 1, k - 1)
             after == SubSeq(s, k + 1, Len(s))
  <2>1. k \in 1 .. Len(s) /\ s[k] = x
    <3>1. at \in SUBSET Nat /\ at # {}
      BY <1>1
    <3>2. \E i \in at : \A j \in at : i <= j
      BY <3>1, LeastNumber
    <3> QED BY <3>2
  <2>2. RemoveFirst(s, x) = before \o after
    BY <1>1, <2>1 DEF RemoveFirst, RemoveAt, SelectInSeq, Min
  <2> HIDE DEF k
  <2>3. before \in Seq(S) /\ after \in Seq(S)
    BY <2>1, SubSeqProperties, LenProperties
  <2>4. s = before \o SubSeq(s, k, Len(s))
    <3>1. /\ 1 \in 1 .. Len(s) + 1 /\ k - 1 \in 1 - 1 .. Len(s) /\ Len(s) \in k - 1 .. Len(s)
          /\ (k - 1) + 1 = k
      BY <2>1, LenProperties
    <3> QED BY <3>1, ConcatAdjacentSubSeq, SubSeqFull
  <2>5. SubSeq(s, k, Len(s)) = <<x>> \o after /\ x \in S
    <3>1. Len(s) \in k .. Len(s) /\ s[k] \in S
      BY <2>1, LenProperties
    <3> QED BY <2>1, <3>1, SubSeqRecursiveFirst
  <2> HIDE DEF before, after
  <2> DEFINE rest == <<x>> \o after
  <2>6. /\ rest \in Seq(S) /\ ToSet(rest) = ToSet(after) \cup {x}
        /\ IsInjective(rest) <=> IsInjective(after) /\ x \notin ToSet(after)
    BY <2>3, <2>5, PushOne
  <2>7. s = before \o rest
    BY <2>4, <2>5
  <2> HIDE DEF rest
  <2>8. /\ ToSet(s) = ToSet(before) \cup ToSet(rest)
        /\ IsInjective(s) <=>
              IsInjective(before) /\ IsInjective(rest) /\ ToSet(before) \cap ToSet(rest) = {}
    BY <2>3, <2>6, <2>7, TwoLists
  <2>9. /\ RemoveFirst(s, x) \in Seq(S)
        /\ ToSet(RemoveFirst(s, x)) = ToSet(before) \cup ToSet(after)
        /\ IsInjective(RemoveFirst(s, x)) <=>
              IsInjective(before) /\ IsInjective(after) /\ ToSet(before) \cap ToSet(after) = {}
    BY <2>2, <2>3, TwoLists
  <2> QED BY <2>6, <2>8, <2>9
<1>2. CASE ~\E i \in 1 .. Len(s) : s[i] = x
  BY <1>2, Elements DEF RemoveFirst
<1> QED BY <1>1, <1>2

-----------------------------------------------------------------------------
(* Filter *)

\* The recursive function that Filter defines exists: it is built from the left.
LEMMA FilterFunction ==
    ASSUME NEW S, NEW s \in Seq(S), NEW T
    PROVE  \E kept : /\ \A n \in 0 .. Len(s) :
                          kept[n] = IF n = 0 THEN <<>>
                                    ELSE IF s[n] \in T THEN Append(kept[n - 1], s[n])
                                         ELSE kept[n - 1]
                     /\ Filter(s, T) = kept[Len(s)]
<1> DEFINE Step(g, n) == IF n = 0 THEN <<>>
                         ELSE IF s[n] \in T THEN Append(g[n - 1], s[n]) ELSE g[n - 1]
           Is(g, m) == g = [n \in 0 .. m |-> Step(g, n)]
           P == {m \in Nat : \E g : Is(g, m)}
<1>1. 0 \in P
  <2>1. Is([n \in 0 .. 0 |-> <<>>], 0)
    OBVIOUS
  <2> QED BY <2>1
<1>2. ASSUME NEW m \in Nat, m \in P PROVE m + 1 \in P
  <2>1. PICK g : Is(g, m)
    BY <1>2
  <2> DEFINE h == [n \in 0 .. m + 1 |-> IF n = m + 1 THEN Step(g, m + 1) ELSE g[n]]
  <2>2. ASSUME NEW n \in 0 .. m + 1 PROVE h[n] = Step(h, n)
    <3>1. CASE n = m + 1
      <4>1. h[n] = Step(g, m + 1) /\ h[m] = g[m] /\ n - 1 = m
        BY <3>1
      <4> QED BY <3>1, <4>1
    <3>2. CASE n \in 0 .. m
      <4>1. h[n] = g[n] /\ g[n] = Step(g, n)
        BY <2>1, <3>2
      <4>2. n # 0 => h[n - 1] = g[n - 1]
        BY <3>2
      <4> QED BY <4>1, <4>2
    <3> QED BY <3>1, <3>2
  <2>3. Is(h, m + 1)
    BY <2>2
  <2> HIDE DEF h
  <2>4. \E k : Is(k, m + 1)
    BY <2>3
  <2> QED BY <2>4
<1>3. P = Nat
  <2> HIDE DEF P
  <2> QED BY <1>1, <1>2, AllNumbers DEF P
<1>4. Len(s) \in P
  BY <1>3, LenProperties
<1>5. \E g : Is(g, Len(s))
  BY <1>4
<1> DEFINE kept == CHOOSE g : Is(g, Len(s))
<1>6. Is(kept, Len(s))
  BY <1>5
<1>7. Filter(s, T) = kept[Len(s)]
  BY DEF Filter
<1> HIDE DEF kept
<1>8. \A n \in 0 .. Len(s) : kept[n] = Step(kept, n)
  BY <1>6
<1> QED BY <1>7, <1>8

\* Filter keeps exactly the elements of T, each once if each was there once.
LEMMA FilterKeeps ==
    ASSUME NEW S, NEW s \in Seq(S), NEW T
    PROVE  /\ Filter(s, T) \in Seq(S)
           /\ ToSet(Filter(s, T)) = ToSet(s) \cap T
           /\ IsInjective(s) => IsInjective(Filter(s, T))
<1>1. PICK kept : /\ \A n \in 0 .. Len(s) :
                        kept[n] = IF n = 0 THEN <<>>
                                  ELSE IF s[n] \in T THEN Append(kept[n - 1], s[n]) ELSE kept[n - 1]
                  /\ Filter(s, T) = kept[Len(s)]
  BY FilterFunction
<1>2. Len(s) \in Nat /\ \A n \in 1 .. Len(s) : s[n] \in S
  BY LenProperties
<1> DEFINE Seen(n) == {s[i] : i \in 1 .. n}
           Good(n) == /\ kept[n] \in Seq(S)
                      /\ ToSet(kept[n]) = Seen(n) \cap T
                      /\ IsInjective(s) => IsInjective(kept[n])
           P == {n \in Nat : n <= Len(s) => Good(n)}
<1>3. 0 \in P
  <2>1. kept[0] = <<>> /\ Seen(0) = {}
    BY <1>1, <1>2
  <2> QED BY <2>1, EmptyList
<1>4. ASSUME NEW m \in Nat, m \in P, m + 1 <= Len(s) PROVE Good(m + 1)
  <2>1. /\ m + 1 \in 1 .. Len(s) /\ m + 1 \in 0 .. Len(s) /\ m <= Len(s) /\ (m + 1) - 1 = m
        /\ m + 1 # 0
    BY <1>2, <1>4
  <2>2. Good(m)
    BY <1>4, <2>1
  <2>3. Seen(m + 1) = Seen(m) \cup {s[m + 1]}
    BY <2>1
  <2>4. IsInjective(s) => s[m + 1] \notin Seen(m)
    BY <1>2, <2>1, Elements
  <2>5. CASE s[m + 1] \in T
    <3>1. kept[m + 1] = Append(kept[m], s[m + 1])
      BY <1>1, <2>1, <2>5
    <3>2. /\ Append(kept[m], s[m + 1]) \in Seq(S)
          /\ ToSet(Append(kept[m], s[m + 1])) = ToSet(kept[m]) \cup {s[m + 1]}
          /\ IsInjective(Append(kept[m], s[m + 1])) <=>
                IsInjective(kept[m]) /\ s[m + 1] \notin ToSet(kept[m])
      BY <1>2, <2>1, <2>2, AppendOne
    <3> QED BY <2>2, <2>3, <2>4, <2>5, <3>1, <3>2
  <2>6. CASE s[m + 1] \notin T
    <3>1. kept[m + 1] = kept[m]
      BY <1>1, <2>1, <2>6
    <3> QED BY <2>2, <2>3, <2>6, <3>1
  <2> QED BY <2>5, <2>6
<1>5. P = Nat
  <2>1. \A m \in Nat : m \in P => m + 1 \in P
    <3> HIDE DEF Good
    <3> QED BY <1>4
  <2> HIDE DEF P
  <2> QED BY <1>3, <2>1, AllNumbers DEF P
<1>6. Good(Len(s))
  <2>1. Len(s) \in P
    BY <1>2, <1>5
  <2> QED BY <1>2, <2>1
<1>7. Seen(Len(s)) = ToSet(s)
  BY Elements
<1> QED BY <1>1, <1>6, <1>7

-----------------------------------------------------------------------------
(* Parts of a list *)

\* A piece of a list
LEMMA Slice ==
    ASSUME NEW S, NEW s \in Seq(S), NEW m \in Nat \ {0}, NEW n \in 0 .. Len(s)
    PROVE  /\ SubSeq(s, m, n) \in Seq(S)
           /\ Len(SubSeq(s, m, n)) = (IF m <= n THEN n - m + 1 ELSE 0)
           /\ \A i \in 1 .. n - m + 1 : SubSeq(s, m, n)[i] = s[m + i - 1]
           /\ ToSet(SubSeq(s, m, n)) = {s[k] : k \in m .. n}
           /\ IsInjective(s) => IsInjective(SubSeq(s, m, n))
<1> DEFINE t == SubSeq(s, m, n)
<1>1. Len(s) \in Nat /\ \A i \in m .. n : i \in 1 .. Len(s) /\ s[i] \in S
  BY LenProperties
<1>2. /\ t \in Seq(S) /\ Len(t) = IF m <= n THEN n - m + 1 ELSE 0
      /\ \A i \in 1 .. n - m + 1 : t[i] = s[m + i - 1]
  BY <1>1, SubSeqProperties
<1> HIDE DEF t
<1>3. 1 .. Len(t) = 1 .. n - m + 1
  BY <1>1, <1>2
<1>4. ToSet(t) \subseteq {s[k] : k \in m .. n}
  <2> SUFFICES ASSUME NEW x \in ToSet(t) PROVE \E k \in m .. n : x = s[k]
    OBVIOUS
  <2>1. PICK i \in 1 .. Len(t) : t[i] = x
    BY <1>2, Elements
  <2>2. i \in 1 .. n - m + 1 /\ x = s[m + i - 1] /\ m + i - 1 \in m .. n
    BY <1>1, <1>2, <1>3, <2>1
  <2> QED BY <2>2
<1>5. \A k \in m .. n : s[k] \in ToSet(t)
  <2> TAKE k \in m .. n
  <2>1. k - m + 1 \in 1 .. Len(t) /\ t[k - m + 1] = s[k]
    BY <1>1, <1>2, <1>3
  <2> QED BY <1>2, <2>1, Elements
<1>6. IsInjective(s) => IsInjective(t)
  <2> SUFFICES ASSUME IsInjective(s), NEW i \in 1 .. Len(t), NEW j \in 1 .. Len(t), t[i] = t[j]
               PROVE  i = j
    BY <1>2, Elements
  <2>1. /\ m + i - 1 \in 1 .. Len(s) /\ m + j - 1 \in 1 .. Len(s) /\ s[m + i - 1] = s[m + j - 1]
    BY <1>1, <1>2, <1>3
  <2>2. m + i - 1 = m + j - 1
    BY <2>1, Elements
  <2> QED BY <1>1, <1>2, <2>2
<1> QED BY <1>2, <1>4, <1>5, <1>6 DEF t

\* What a list is without its last element
LEMMA DropLast ==
    ASSUME NEW S, NEW s \in Seq(S), s # <<>>, IsInjective(s)
    PROVE  /\ Front(s) \in Seq(S) /\ Last(s) \in ToSet(s)
           /\ IsInjective(Front(s)) /\ ToSet(Front(s)) = ToSet(s) \ {Last(s)}
<1>1. Len(s) \in Nat \ {0} /\ \A i \in 1 .. Len(s) : s[i] \in S
  BY LenProperties, EmptySeq
<1>2. /\ Front(s) \in Seq(S) /\ ToSet(Front(s)) = {s[k] : k \in 1 .. Len(s) - 1}
      /\ IsInjective(Front(s))
  BY <1>1, Slice DEF Front
<1>3. /\ \A i, j \in 1 .. Len(s) : s[i] = s[j] => i = j
      /\ ToSet(s) = {s[i] : i \in 1 .. Len(s)}
  <2>1. /\ ToSet(s) \subseteq S /\ \A i \in 1 .. Len(s) : s[i] \in ToSet(s)
        /\ \A x \in ToSet(s) : \E i \in 1 .. Len(s) : s[i] = x
        /\ \A i, j \in 1 .. Len(s) : s[i] = s[j] => i = j
    BY Elements
  <2> QED BY <2>1
<1>4. Last(s) = s[Len(s)] /\ Len(s) \in 1 .. Len(s)
  BY <1>1 DEF Last
<1>5. {s[k] : k \in 1 .. Len(s) - 1} = {s[i] : i \in 1 .. Len(s)} \ {s[Len(s)]}
  <2>1. \A k \in 1 .. Len(s) - 1 : k \in 1 .. Len(s) /\ k # Len(s)
    BY <1>1
  <2>2. \A k \in 1 .. Len(s) : k = Len(s) \/ k \in 1 .. Len(s) - 1
    BY <1>1
  <2> QED BY <1>3, <1>4, <2>1, <2>2
<1> QED BY <1>2, <1>3, <1>4, <1>5

\* Filter keeps the order.
LEMMA FilterSorted ==
    ASSUME NEW S, NEW s \in Seq(S), NEW T, NEW key \in [S -> Int],
           \A i, j \in 1 .. Len(s) : i < j => key[s[i]] <= key[s[j]]
    PROVE  \A i, j \in 1 .. Len(Filter(s, T)) : i < j => key[Filter(s, T)[i]] <= key[Filter(s, T)[j]]
<1>1. PICK kept : /\ \A n \in 0 .. Len(s) :
                        kept[n] = IF n = 0 THEN <<>>
                                  ELSE IF s[n] \in T THEN Append(kept[n - 1], s[n]) ELSE kept[n - 1]
                  /\ Filter(s, T) = kept[Len(s)]
  BY FilterFunction
<1>2. Len(s) \in Nat /\ \A n \in 1 .. Len(s) : s[n] \in S
  BY LenProperties
<1> DEFINE Sorted(t) == \A i, j \in 1 .. Len(t) : i < j => key[t[i]] <= key[t[j]]
           Good(n) == /\ kept[n] \in Seq(S)
                      /\ \A i \in 1 .. Len(kept[n]) : \E k \in 1 .. n : kept[n][i] = s[k]
                      /\ Sorted(kept[n])
           P == {n \in Nat : n <= Len(s) => Good(n)}
<1>3. 0 \in P
  <2>1. kept[0] = <<>> /\ <<>> \in Seq(S) /\ Len(<<>>) = 0
    BY <1>1, <1>2
  <2> DEFINE e == kept[0]
  <2>2. e \in Seq(S) /\ \A i \in 1 .. Len(e) : FALSE
    BY <2>1
  <2> HIDE DEF e
  <2>3. /\ \A i \in 1 .. Len(e) : \E k \in 1 .. 0 : e[i] = s[k]
        /\ Sorted(e)
    BY <2>2
  <2>4. Good(0)
    BY <2>2, <2>3 DEF e
  <2> HIDE DEF Good
  <2> QED BY <2>4
<1>4. ASSUME NEW m \in Nat, m \in P, m + 1 <= Len(s) PROVE Good(m + 1)
  <2>1. /\ m + 1 \in 1 .. Len(s) /\ m + 1 \in 0 .. Len(s) /\ m <= Len(s) /\ (m + 1) - 1 = m
        /\ m + 1 # 0 /\ s[m + 1] \in S
    BY <1>2, <1>4
  <2>2. Good(m)
    BY <1>4, <2>1
  <2>3. CASE s[m + 1] \in T
    <3> DEFINE t == kept[m]
               u == kept[m + 1]
               x == s[m + 1]
    <3>1. u = Append(t, x)
      BY <1>1, <2>1, <2>3
    <3>2. /\ u \in Seq(S) /\ Len(u) = Len(t) + 1 /\ Len(t) \in Nat
          /\ \A i \in 1 .. Len(t) : u[i] = t[i]
          /\ u[Len(t) + 1] = x
      BY <2>1, <2>2, <3>1, AppendProperties, LenProperties
    <3>3. \A i \in 1 .. Len(t) : \E k \in 1 .. m : t[i] = s[k]
      BY <2>2
    <3>4. \A i \in 1 .. Len(t) : key[t[i]] <= key[x]
      <4> TAKE i \in 1 .. Len(t)
      <4>1. PICK k \in 1 .. m : t[i] = s[k]
        BY <3>3
      <4>2. k \in 1 .. Len(s) /\ k < m + 1
        BY <1>2, <2>1
      <4> QED BY <2>1, <4>1, <4>2
    <3>5. Sorted(t)
      BY <2>2
    <3> HIDE DEF t, u, x
    <3>6. Sorted(u)
      <4> SUFFICES ASSUME NEW i \in 1 .. Len(u), NEW j \in 1 .. Len(u), i < j
                   PROVE  key[u[i]] <= key[u[j]]
        OBVIOUS
      <4>1. i \in 1 .. Len(t) /\ u[i] = t[i]
        BY <3>2
      <4>2. CASE j = Len(t) + 1
        <5>1. u[j] = x
          BY <3>2, <4>2
        <5>2. key[t[i]] <= key[x]
          BY <3>4, <4>1
        <5> QED BY <4>1, <5>1, <5>2
      <4>3. CASE j \in 1 .. Len(t)
        <5>1. u[j] = t[j]
          BY <3>2, <4>3
        <5>2. key[t[i]] <= key[t[j]]
          BY <3>5, <4>1, <4>3
        <5> QED BY <4>1, <5>1, <5>2
      <4>4. j = Len(t) + 1 \/ j \in 1 .. Len(t)
        BY <3>2
      <4> QED BY <4>2, <4>3, <4>4, Zenon
    <3>7. \A i \in 1 .. Len(u) : \E k \in 1 .. m + 1 : u[i] = s[k]
      <4> TAKE i \in 1 .. Len(u)
      <4>1. CASE i = Len(t) + 1
        <5>1. m + 1 \in 1 .. m + 1 /\ u[i] = s[m + 1]
          BY <3>2, <4>1 DEF x
        <5> QED BY <5>1
      <4>2. CASE i \in 1 .. Len(t)
        <5>1. PICK k \in 1 .. m : t[i] = s[k]
          BY <3>3, <4>2
        <5>2. k \in 1 .. m + 1 /\ u[i] = s[k]
          BY <3>2, <4>2, <5>1
        <5> QED BY <5>2
      <4> QED BY <3>2, <4>1, <4>2
    <3> QED BY <3>2, <3>6, <3>7 DEF u
  <2>4. CASE s[m + 1] \notin T
    <3>1. kept[m + 1] = kept[m]
      BY <1>1, <2>1, <2>4
    <3>2. \A k \in 1 .. m : k \in 1 .. m + 1
      OBVIOUS
    <3> QED BY <2>2, <3>1, <3>2
  <2> QED BY <2>3, <2>4
<1>5. P = Nat
  <2>1. \A m \in Nat : m \in P => m + 1 \in P
    <3> HIDE DEF Good
    <3> QED BY <1>4
  <2> HIDE DEF P
  <2> QED BY <1>3, <2>1, AllNumbers DEF P
<1>6. Good(Len(s))
  <2>1. Len(s) \in P
    BY <1>2, <1>5
  <2> QED BY <1>2, <2>1
<1> QED BY <1>1, <1>6

\* What InsertAt and RemoveAt do
LEMMA InsertOne ==
    ASSUME NEW S, NEW s \in Seq(S), NEW k \in 1 .. Len(s) + 1, NEW x \in S
    PROVE  /\ InsertAt(s, k, x) \in Seq(S)
           /\ Len(InsertAt(s, k, x)) = Len(s) + 1
           /\ \A i \in 1 .. k - 1 : InsertAt(s, k, x)[i] = s[i]
           /\ InsertAt(s, k, x)[k] = x
           /\ \A i \in k + 1 .. Len(s) + 1 : InsertAt(s, k, x)[i] = s[i - 1]
           /\ ToSet(InsertAt(s, k, x)) = ToSet(s) \cup {x}
           /\ IsInjective(InsertAt(s, k, x)) <=> IsInjective(s) /\ x \notin ToSet(s)
<1> DEFINE a == SubSeq(s, 1, k - 1)
           b == SubSeq(s, k, Len(s))
           c == <<x>> \o b
<1>1. Len(s) \in Nat /\ k - 1 \in 0 .. Len(s) /\ k \in Nat \ {0} /\ Len(s) \in 0 .. Len(s)
  BY LenProperties
<1>2. /\ a \in Seq(S) /\ Len(a) = k - 1 /\ \A i \in 1 .. k - 1 : a[i] = s[i]
  BY <1>1, Slice
<1>3. /\ b \in Seq(S) /\ Len(b) = Len(s) - k + 1 /\ \A i \in 1 .. Len(s) - k + 1 : b[i] = s[k + i - 1]
  BY <1>1, Slice
<1>4. a \o b = s
  <2>1. 1 \in 1 .. Len(s) + 1 /\ k - 1 \in 1 - 1 .. Len(s) /\ Len(s) \in k - 1 .. Len(s) /\ (k - 1) + 1 = k
    BY <1>1
  <2>2. SubSeq(s, 1, k - 1) \o SubSeq(s, (k - 1) + 1, Len(s)) = SubSeq(s, 1, Len(s))
    BY <2>1, ConcatAdjacentSubSeq
  <2> QED BY <2>1, <2>2, SubSeqFull
<1>5. InsertAt(s, k, x) = a \o c
  <2>1. InsertAt(s, k, x) = a \o <<x>> \o b
    BY DEF InsertAt
  <2>2. <<x>> \in Seq(S)
    OBVIOUS
  <2> HIDE DEF a, b
  <2> QED BY <1>2, <1>3, <2>1, <2>2, ConcatAssociative
<1> HIDE DEF a, b
<1>6. /\ c \in Seq(S) /\ ToSet(c) = ToSet(b) \cup {x}
      /\ IsInjective(c) <=> IsInjective(b) /\ x \notin ToSet(b)
  BY <1>3, PushOne
<1>7. Len(c) = Len(b) + 1 /\ c[1] = x /\ \A i \in 2 .. Len(b) + 1 : c[i] = b[i - 1]
  <2> DEFINE e == <<x>>
  <2>1. e \in Seq(S) /\ Len(e) = 1 /\ e[1] = x /\ c = e \o b /\ Len(b) \in Nat
    BY <1>1, <1>3
  <2> HIDE DEF e, c
  <2>2. /\ Len(e \o b) = Len(e) + Len(b)
        /\ \A i \in 1 .. Len(e) + Len(b) : (e \o b)[i] = IF i <= Len(e) THEN e[i] ELSE b[i - Len(e)]
    BY <1>3, <2>1, ConcatProperties
  <2>3. 1 \in 1 .. 1 + Len(b) /\ \A i \in 2 .. Len(b) + 1 : i \in 1 .. 1 + Len(b) /\ ~(i <= 1)
    BY <2>1
  <2> QED BY <2>1, <2>2, <2>3
<1> HIDE DEF c
<1>8. /\ ToSet(a \o c) = ToSet(a) \cup ToSet(c)
      /\ IsInjective(a \o c) <=> IsInjective(a) /\ IsInjective(c) /\ ToSet(a) \cap ToSet(c) = {}
      /\ a \o c \in Seq(S)
  BY <1>2, <1>6, TwoLists
<1>9. /\ ToSet(s) = ToSet(a) \cup ToSet(b)
      /\ IsInjective(s) <=> IsInjective(a) /\ IsInjective(b) /\ ToSet(a) \cap ToSet(b) = {}
  <2> DEFINE d == a \o b
  <2>1. /\ ToSet(d) = ToSet(a) \cup ToSet(b)
        /\ IsInjective(d) <=> IsInjective(a) /\ IsInjective(b) /\ ToSet(a) \cap ToSet(b) = {}
    BY <1>2, <1>3, TwoLists
  <2>2. d = s
    BY <1>4
  <2> HIDE DEF d
  <2> QED BY <2>1, <2>2
<1>10. /\ Len(a \o c) = Len(a) + Len(c)
       /\ \A i \in 1 .. Len(a) + Len(c) : (a \o c)[i] = IF i <= Len(a) THEN a[i] ELSE c[i - Len(a)]
  BY <1>2, <1>6, ConcatProperties
<1>11. /\ Len(a \o c) = Len(s) + 1
       /\ \A i \in 1 .. k - 1 : (a \o c)[i] = s[i]
       /\ (a \o c)[k] = x
       /\ \A i \in k + 1 .. Len(s) + 1 : (a \o c)[i] = s[i - 1]
  <2>1. Len(a) + Len(c) = Len(s) + 1
    BY <1>1, <1>2, <1>3, <1>7
  <2>2. ASSUME NEW i \in 1 .. Len(s) + 1, i < k PROVE (a \o c)[i] = s[i]
    <3>1. i \in 1 .. k - 1 /\ i <= Len(a)
      BY <1>1, <1>2, <2>2
    <3> QED BY <1>2, <1>10, <2>1, <3>1
  <2>3. (a \o c)[k] = x
    <3>1. ~(k <= Len(a)) /\ k - Len(a) = 1 /\ k \in 1 .. Len(a) + Len(c)
      BY <1>1, <1>2, <2>1
    <3> QED BY <1>7, <1>10, <3>1
  <2>4. ASSUME NEW i \in 1 .. Len(s) + 1, i > k PROVE (a \o c)[i] = s[i - 1]
    <3>1. /\ ~(i <= Len(a)) /\ i - Len(a) = i - k + 1 /\ i - k + 1 \in 2 .. Len(b) + 1
          /\ i \in 1 .. Len(a) + Len(c)
          /\ (i - k + 1) - 1 = i - k /\ i - k \in 1 .. Len(s) - k + 1 /\ k + (i - k) - 1 = i - 1
      BY <1>1, <1>2, <1>3, <2>1, <2>4
    <3>2. (a \o c)[i] = c[i - k + 1] /\ c[i - k + 1] = b[i - k] /\ b[i - k] = s[i - 1]
      BY <1>3, <1>7, <1>10, <3>1
    <3> QED BY <3>2
  <2> QED BY <1>1, <1>10, <2>1, <2>2, <2>3, <2>4
<1> QED BY <1>5, <1>6, <1>8, <1>9, <1>11

\* The element at a place is taken out.
LEMMA RemoveOneAt ==
    ASSUME NEW S, NEW s \in Seq(S), NEW k \in 1 .. Len(s)
    PROVE  /\ RemoveAt(s, k) \in Seq(S)
           /\ Len(RemoveAt(s, k)) = Len(s) - 1
           /\ \A i \in 1 .. k - 1 : RemoveAt(s, k)[i] = s[i]
           /\ \A i \in k .. Len(s) - 1 : RemoveAt(s, k)[i] = s[i + 1]
           /\ ToSet(s) = ToSet(RemoveAt(s, k)) \cup {s[k]}
           /\ IsInjective(s) <=> IsInjective(RemoveAt(s, k)) /\ s[k] \notin ToSet(RemoveAt(s, k))
<1> DEFINE a == SubSeq(s, 1, k - 1)
           b == SubSeq(s, k + 1, Len(s))
           r == a \o b
<1>1. /\ Len(s) \in Nat /\ k - 1 \in 0 .. Len(s) /\ k \in Nat \ {0} /\ k + 1 \in Nat \ {0}
      /\ Len(s) \in 0 .. Len(s) /\ s[k] \in S
  BY LenProperties
<1>2. a \in Seq(S) /\ Len(a) = k - 1 /\ \A i \in 1 .. k - 1 : a[i] = s[i]
  BY <1>1, Slice
<1>3. b \in Seq(S) /\ Len(b) = Len(s) - k /\ \A i \in 1 .. Len(s) - k : b[i] = s[k + i]
  <2>1. /\ b \in Seq(S) /\ Len(b) = (IF k + 1 <= Len(s) THEN Len(s) - (k + 1) + 1 ELSE 0)
        /\ \A i \in 1 .. Len(s) - (k + 1) + 1 : b[i] = s[(k + 1) + i - 1]
    BY <1>1, Slice
  <2> QED BY <1>1, <2>1
<1>4. RemoveAt(s, k) = r
  BY DEF RemoveAt
<1> HIDE DEF a, b
<1>5. /\ r \in Seq(S) /\ Len(r) = Len(a) + Len(b)
      /\ \A i \in 1 .. Len(a) + Len(b) : r[i] = IF i <= Len(a) THEN a[i] ELSE b[i - Len(a)]
  BY <1>2, <1>3, ConcatProperties
<1>6. Len(r) = Len(s) - 1 /\ \A i \in 1 .. Len(s) - 1 : r[i] = IF i < k THEN s[i] ELSE s[i + 1]
  <2>1. Len(a) + Len(b) = Len(s) - 1
    BY <1>1, <1>2, <1>3
  <2>2. ASSUME NEW i \in 1 .. Len(s) - 1, i < k PROVE r[i] = s[i]
    <3>1. i \in 1 .. k - 1 /\ i <= Len(a)
      BY <1>1, <1>2, <2>2
    <3> QED BY <1>2, <1>5, <2>1, <3>1
  <2>3. ASSUME NEW i \in 1 .. Len(s) - 1, ~(i < k) PROVE r[i] = s[i + 1]
    <3>1. ~(i <= Len(a)) /\ i - Len(a) = i - k + 1 /\ i - k + 1 \in 1 .. Len(s) - k /\ k + (i - k + 1) = i + 1
      BY <1>1, <1>2, <2>3
    <3>2. r[i] = b[i - k + 1]
      BY <1>5, <2>1, <3>1
    <3>3. b[i - k + 1] = s[k + (i - k + 1)]
      BY <1>3, <3>1
    <3> QED BY <3>1, <3>2, <3>3
  <2> QED BY <1>5, <2>1, <2>2, <2>3
<1>7. PICK q \in Seq(S) : /\ q = RemoveAt(s, k) /\ Len(q) = Len(s) - 1
                          /\ \A i \in 1 .. Len(s) - 1 : q[i] = IF i < k THEN s[i] ELSE s[i + 1]
  BY <1>4, <1>5, <1>6
<1>8. PICK y \in S : y = s[k]
  BY <1>1
<1>9. k \in 1 .. Len(q) + 1
  BY <1>1, <1>7
<1>11. /\ InsertAt(q, k, y) \in Seq(S)
       /\ Len(InsertAt(q, k, y)) = Len(q) + 1
       /\ \A i \in 1 .. k - 1 : InsertAt(q, k, y)[i] = q[i]
       /\ InsertAt(q, k, y)[k] = y
       /\ \A i \in k + 1 .. Len(q) + 1 : InsertAt(q, k, y)[i] = q[i - 1]
       /\ ToSet(InsertAt(q, k, y)) = ToSet(q) \cup {y}
       /\ IsInjective(InsertAt(q, k, y)) <=> IsInjective(q) /\ y \notin ToSet(q)
  BY <1>9, InsertOne
<1>12. InsertAt(q, k, y) = s
  <2> DEFINE t == InsertAt(q, k, y)
  <2>2. /\ t \in Seq(S) /\ Len(t) = Len(q) + 1
        /\ \A i \in 1 .. k - 1 : t[i] = q[i]
        /\ t[k] = y
        /\ \A i \in k + 1 .. Len(q) + 1 : t[i] = q[i - 1]
    BY <1>11
  <2> HIDE DEF t
  <2>3. Len(t) = Len(s) /\ Len(q) + 1 = Len(s)
    BY <1>1, <1>7, <2>2
  <2>4. ASSUME NEW i \in 1 .. Len(s) PROVE t[i] = s[i]
    <3>1. CASE i < k
      <4>1. i \in 1 .. Len(s) - 1 /\ i \in 1 .. k - 1
        BY <1>1, <3>1
      <4> QED BY <1>7, <2>2, <2>3, <3>1, <4>1
    <3>2. CASE i = k
      BY <1>8, <2>2, <2>3, <3>2
    <3>3. CASE i > k
      <4>1. i - 1 \in 1 .. Len(s) - 1 /\ ~(i - 1 < k) /\ (i - 1) + 1 = i /\ i \in k + 1 .. Len(q) + 1
        BY <1>1, <2>3, <3>3
      <4> QED BY <1>7, <2>2, <2>3, <4>1
    <3> QED BY <1>1, <3>1, <3>2, <3>3
  <2> QED BY <2>2, <2>3, <2>4, SeqEqual DEF t
<1>13. /\ \A i \in 1 .. k - 1 : i \in 1 .. Len(s) - 1 /\ i < k
       /\ \A i \in k .. Len(s) - 1 : i \in 1 .. Len(s) - 1 /\ ~(i < k)
  BY <1>1
<1> QED BY <1>7, <1>8, <1>11, <1>12, <1>13

=============================================================================
