---------------------------- MODULE SelectionProofs ----------------------------
(***************************************************************************)
(* The laws of Only.  The induction they need is that of WFMin, which      *)
(* speaks of sets: a set of sequences that holds the empty one and is      *)
(* closed under Append holds them all.                                     *)
(***************************************************************************)
EXTENDS Selection, SequenceTheorems, WellFoundedInduction, TLAPS

\* A nonempty set of naturals has a least element.
LEMMA Least ==
  ASSUME NEW T \in SUBSET Nat, T # {}
  PROVE  \E n \in T : \A m \in T : n <= m
  <1> DEFINE less == OpToRel(<, Nat)
  <1>1. less = {ss \in Nat \X Nat : ss[1] < ss[2]}
    BY DEF OpToRel
  <1>2. \E n \in T : \A m \in T : ~ (<<m, n>> \in less)
    BY WFMin, NatLessThanWellFounded, Zenon
  <1> HIDE DEF less
  <1>3. \A m, n \in T : m \in Nat /\ n \in Nat /\ (<<m, n>> \in less <=> m < n)
    BY <1>1
  <1>4. PICK n \in T : \A m \in T : ~ (<<m, n>> \in less)
    BY <1>2
  <1>5. ASSUME NEW m \in T PROVE n <= m
    <2>1. n \in Nat /\ m \in Nat /\ ~ (m < n)
      BY <1>3, <1>4
    <2> QED BY <2>1
  <1> QED BY <1>5

\* Induction over sequences.
LEMMA Induction ==
  ASSUME NEW A, NEW P, <<>> \in P,
         \A s \in Seq(A), e \in A : s \in P => Append(s, e) \in P
  PROVE  \A s \in Seq(A) : s \in P
  <1> DEFINE bad == {n \in Nat : \E s \in Seq(A) : Len(s) = n /\ s \notin P}
  <1>1. SUFFICES ASSUME bad # {} PROVE FALSE
    <2> SUFFICES ASSUME NEW s \in Seq(A), s \notin P PROVE FALSE
      OBVIOUS
    <2>1. Len(s) \in bad
      OBVIOUS
    <2> QED BY <1>1, <2>1
  <1>2. PICK n \in bad : \A m \in bad : n <= m
    <2> HIDE DEF bad
    <2>1. bad \in SUBSET Nat
      BY DEF bad
    <2> QED BY <1>1, <2>1, Least
  <1>3. PICK s \in Seq(A) : Len(s) = n /\ s \notin P
    OBVIOUS
  <1>4. PICK r \in Seq(A), e \in A : s = Append(r, e)
    BY <1>3, SequenceEmptyOrAppend
  <1>5. r \notin P
    BY <1>3, <1>4
  <1>6. Len(r) \in bad /\ Len(r) < n
    BY <1>3, <1>4, <1>5
  <1> QED BY <1>2, <1>6

------------------------------------------------------------------------------
(***************************************************************************)
(* The equations of Only: f is its recursive function on s up to n.        *)
(***************************************************************************)
Selects(f, s, S, n) ==
  f = [i \in 0..n |-> IF i = 0 THEN <<>>
                      ELSE IF s[i] \in S THEN Append(f[i - 1], s[i])
                      ELSE f[i - 1]]

LEMMA SelectsAt ==
  ASSUME NEW f, NEW s, NEW S, NEW n \in Nat, Selects(f, s, S, n), NEW i \in 1..n
  PROVE  f[i] = IF s[i] \in S THEN Append(f[i - 1], s[i]) ELSE f[i - 1]
  <1> DEFINE value(k) == IF s[k] \in S THEN Append(f[k - 1], s[k]) ELSE f[k - 1]
             h == [k \in 0..n |-> IF k = 0 THEN <<>> ELSE value(k)]
  <1>1. f = h
    BY DEF Selects
  <1>2. h[i] = value(i)
    <2> HIDE DEF value
    <2> QED OBVIOUS
  <1> HIDE DEF h
  <1> QED BY <1>1, <1>2

LEMMA OnlyChoice ==
  ASSUME NEW s, NEW S
  PROVE  Only(s, S) = (CHOOSE f : Selects(f, s, S, Len(s)))[Len(s)]
  BY DEF Only, Selects

LEMMA SelectsExists ==
  ASSUME NEW A, NEW s \in Seq(A), NEW S
  PROVE  \E f : Selects(f, s, S, Len(s))
  <1> DEFINE P == {t \in Seq(A) : \E f : Selects(f, t, S, Len(t))}
  <1>1. <<>> \in P
    <2>1. Selects([i \in 0..0 |-> <<>>], <<>>, S, 0)
      BY DEF Selects
    <2> QED BY <2>1
  <1>2. ASSUME NEW t \in Seq(A), NEW e \in A, t \in P
        PROVE  Append(t, e) \in P
    <2>1. PICK f : Selects(f, t, S, Len(t))
      BY <1>2
    <2> DEFINE n == Len(t)
               last == IF e \in S THEN Append(f[n], e) ELSE f[n]
               u == Append(t, e)
               g == [i \in 0..n + 1 |-> IF i = n + 1 THEN last ELSE f[i]]
    <2>2. n \in Nat /\ Len(u) = n + 1 /\ u[n + 1] = e /\ \A i \in 1..n : u[i] = t[i]
      OBVIOUS
    <2>3. ASSUME NEW i \in 0..n + 1
          PROVE  g[i] = IF i = 0 THEN <<>>
                        ELSE IF u[i] \in S THEN Append(g[i - 1], u[i])
                        ELSE g[i - 1]
      <3>1. CASE i = n + 1
        BY <2>2, <3>1
      <3>2. CASE i \in 0..n
        <4>1. g[i] = f[i] /\ (i # 0 => g[i - 1] = f[i - 1] /\ u[i] = t[i])
          BY <2>2, <3>2
        <4> HIDE DEF g, u
        <4> QED BY <2>1, <3>2, <4>1 DEF Selects
      <3> QED BY <2>2, <3>1, <3>2
    <2>4. Selects(g, u, S, n + 1)
      <3> HIDE DEF u, last, n
      <3> QED BY <2>3 DEF Selects
    <2> QED BY <2>2, <2>4
  <1> HIDE DEF P
  <1>3. s \in P
    BY <1>1, <1>2, Induction
  <1> QED BY <1>3 DEF P

\* Where two sequences agree, so do their functions.
LEMMA SelectsUnique ==
  ASSUME NEW s, NEW t, NEW S, NEW f, NEW g, NEW n \in Nat, NEW m \in Nat, n <= m,
         Selects(f, s, S, n), Selects(g, t, S, m), \A i \in 1..n : s[i] = t[i]
  PROVE  \A i \in 0..n : f[i] = g[i]
  <1> DEFINE bad == {i \in 0..n : f[i] # g[i]}
  <1>1. SUFFICES ASSUME bad # {} PROVE FALSE
    OBVIOUS
  <1>2. PICK i \in bad : \A j \in bad : i <= j
    <2> HIDE DEF bad
    <2>1. bad \in SUBSET Nat
      BY DEF bad
    <2> QED BY <1>1, <2>1, Least
  <1>3. i # 0
    BY DEF Selects
  <1>4. i \in 1..n /\ i - 1 \in 0..n /\ i - 1 \notin bad
    BY <1>2, <1>3
  <1>5. f[i - 1] = g[i - 1] /\ s[i] = t[i]
    BY <1>4
  <1>6. /\ f[i] = IF s[i] \in S THEN Append(f[i - 1], s[i]) ELSE f[i - 1]
        /\ g[i] = IF t[i] \in S THEN Append(g[i - 1], t[i]) ELSE g[i - 1]
    <2>1. i \in 1..m
      BY <1>4
    <2> HIDE DEF bad
    <2> QED BY <1>4, <2>1, SelectsAt
  <1> QED BY <1>5, <1>6

LEMMA OnlyEmpty == \A S : Only(<<>>, S) = <<>>
  <1> SUFFICES ASSUME NEW S PROVE Only(<<>>, S) = <<>>
    OBVIOUS
  <1>1. Selects([i \in 0..0 |-> <<>>], <<>>, S, Len(<<>>))
    BY DEF Selects
  <1> DEFINE f == CHOOSE f : Selects(f, <<>>, S, Len(<<>>))
  <1>2. Selects(f, <<>>, S, Len(<<>>))
    BY <1>1
  <1> HIDE DEF f
  <1>3. f[0] = <<>>
    BY <1>2 DEF Selects
  <1> QED BY <1>3, OnlyChoice DEF f

LEMMA OnlyAppend ==
  ASSUME NEW A, NEW s \in Seq(A), NEW e \in A, NEW S
  PROVE  Only(Append(s, e), S) = IF e \in S THEN Append(Only(s, S), e) ELSE Only(s, S)
  <1> DEFINE n == Len(s)
             u == Append(s, e)
             f == CHOOSE f : Selects(f, s, S, n)
             g == CHOOSE g : Selects(g, u, S, n + 1)
  <1>1. n \in Nat /\ u \in Seq(A) /\ Len(u) = n + 1 /\ u[n + 1] = e /\ \A i \in 1..n : s[i] = u[i]
    OBVIOUS
  <1>2. Only(s, S) = f[n] /\ Only(u, S) = g[n + 1]
    <2> HIDE DEF u
    <2> QED BY <1>1, OnlyChoice
  <1>3. Selects(f, s, S, n)
    BY SelectsExists
  <1>4. Selects(g, u, S, n + 1)
    <2> HIDE DEF u
    <2>1. \E h : Selects(h, u, S, Len(u))
      BY <1>1, SelectsExists
    <2> QED BY <1>1, <2>1
  <1> HIDE DEF f, g, u, n
  <1>5. f[n] = g[n]
    BY <1>1, <1>3, <1>4, SelectsUnique
  <1>6. g[n + 1] = IF u[n + 1] \in S THEN Append(g[n], u[n + 1]) ELSE g[n]
    <2>1. n + 1 \in Nat /\ n + 1 \in 1..(n + 1) /\ (n + 1) - 1 = n
      BY <1>1
    <2> QED BY <1>4, <2>1, SelectsAt
  <1> QED BY <1>1, <1>2, <1>5, <1>6 DEF u

------------------------------------------------------------------------------
(***************************************************************************)
(* The laws.                                                               *)
(***************************************************************************)
LEMMA OnlyType ==
  ASSUME NEW A, NEW s \in Seq(A), NEW S
  PROVE  Only(s, S) \in Seq(A) /\ Only(s, S) \in Seq(A \intersect S)
  <1> DEFINE B == A \intersect S
             P == {t \in Seq(A) : Only(t, S) \in Seq(B)}
  <1> HIDE DEF B
  <1>1. <<>> \in P
    <2>1. Only(<<>>, S) = <<>> /\ <<>> \in Seq(B) /\ <<>> \in Seq(A)
      BY OnlyEmpty, EmptySeq
    <2> QED BY <2>1
  <1>2. ASSUME NEW t \in Seq(A), NEW e \in A, t \in P
        PROVE  Append(t, e) \in P
    <2>1. Only(Append(t, e), S) = IF e \in S THEN Append(Only(t, S), e) ELSE Only(t, S)
      BY OnlyAppend
    <2>2. e \in S => e \in B
      BY DEF B
    <2>3. Only(Append(t, e), S) \in Seq(B)
      BY <1>2, <2>1, <2>2
    <2> QED BY <2>3
  <1> HIDE DEF P
  <1>3. s \in P
    BY <1>1, <1>2, Induction
  <1>4. Only(s, S) \in Seq(A \intersect S)
    BY <1>3 DEF P, B
  <1> QED BY <1>4, SeqMonotonic

\* What is appended to a concatenation is appended to its second part.
AppendsToSecond(a, b, e) == Append(a \o b, e) = a \o Append(b, e)

LEMMA AppendConcat == \A A : \A a, b \in Seq(A), e \in A : AppendsToSecond(a, b, e)
  BY DEF AppendsToSecond

LEMMA OnlyConcat ==
  ASSUME NEW A, NEW s \in Seq(A), NEW t \in Seq(A), NEW S
  PROVE  Only(s \o t, S) = Only(s, S) \o Only(t, S)
  <1> DEFINE P == {u \in Seq(A) : Only(s \o u, S) = Only(s, S) \o Only(u, S)}
  <1>1. <<>> \in P
    <2>1. Only(s, S) \in Seq(A)
      BY OnlyType
    <2>2. s \o <<>> = s /\ Only(s, S) \o <<>> = Only(s, S)
      BY <2>1, ConcatEmptySeq
    <2>3. Only(<<>>, S) = <<>> /\ <<>> \in Seq(A)
      BY OnlyEmpty, EmptySeq
    <2> QED BY <2>2, <2>3
  <1>2. ASSUME NEW u \in Seq(A), NEW e \in A, u \in P
        PROVE  Append(u, e) \in P
    <2>1. s \o Append(u, e) = Append(s \o u, e) /\ s \o u \in Seq(A)
      OBVIOUS
    <2>2. Only(s \o Append(u, e), S) = IF e \in S THEN Append(Only(s \o u, S), e) ELSE Only(s \o u, S)
      BY <2>1, OnlyAppend
    <2>3. Only(Append(u, e), S) = IF e \in S THEN Append(Only(u, S), e) ELSE Only(u, S)
      BY OnlyAppend
    <2>4. Only(s, S) \in Seq(A) /\ Only(u, S) \in Seq(A)
      BY OnlyType
    <2>5. Append(Only(s, S) \o Only(u, S), e) = Only(s, S) \o Append(Only(u, S), e)
      <3>1. AppendsToSecond(Only(s, S), Only(u, S), e)
        BY <2>4, AppendConcat
      <3> QED BY <3>1 DEF AppendsToSecond
    <2>6. Only(s \o Append(u, e), S) = Only(s, S) \o Only(Append(u, e), S)
      <3>1. Only(s \o u, S) = Only(s, S) \o Only(u, S)
        BY <1>2
      <3> HIDE DEF P
      <3> QED BY <2>2, <2>3, <2>5, <3>1
    <2> QED BY <2>6
  <1> HIDE DEF P
  <1>3. t \in P
    BY <1>1, <1>2, Induction
  <1> QED BY <1>3 DEF P

\* What is selected twice is selected by both sets.
LEMMA OnlyTwice ==
  ASSUME NEW A, NEW s \in Seq(A), NEW S, NEW R
  PROVE  Only(Only(s, S), R) = Only(s, S \intersect R)
  <1> DEFINE P == {u \in Seq(A) : Only(Only(u, S), R) = Only(u, S \intersect R)}
  <1>1. <<>> \in P
    BY OnlyEmpty
  <1>2. ASSUME NEW u \in Seq(A), NEW e \in A, u \in P
        PROVE  Append(u, e) \in P
    <2>1. Only(u, S) \in Seq(A)
      BY OnlyType
    <2>2. Only(Append(Only(u, S), e), R)
            = IF e \in R THEN Append(Only(Only(u, S), R), e) ELSE Only(Only(u, S), R)
      BY <2>1, OnlyAppend
    <2>3. Only(Append(u, e), S) = IF e \in S THEN Append(Only(u, S), e) ELSE Only(u, S)
      BY OnlyAppend
    <2>4. Only(Append(u, e), S \intersect R)
            = IF e \in S \intersect R THEN Append(Only(u, S \intersect R), e) ELSE Only(u, S \intersect R)
      BY OnlyAppend
    <2>5. Only(Only(Append(u, e), S), R) = Only(Append(u, e), S \intersect R)
      <3>1. Only(Only(u, S), R) = Only(u, S \intersect R)
        BY <1>2
      <3> HIDE DEF P
      <3>2. CASE e \in S /\ e \in R
        BY <2>2, <2>3, <2>4, <3>1, <3>2
      <3>3. CASE e \in S /\ e \notin R
        BY <2>2, <2>3, <2>4, <3>1, <3>3
      <3>4. CASE e \notin S
        BY <2>3, <2>4, <3>1, <3>4
      <3> QED BY <3>2, <3>3, <3>4
    <2> QED BY <2>5
  <1> HIDE DEF P
  <1>3. s \in P
    BY <1>1, <1>2, Induction
  <1> QED BY <1>3 DEF P

\* Sets that agree on the elements select the same.
LEMMA OnlySame ==
  ASSUME NEW A, NEW s \in Seq(A), NEW S, NEW R, \A n \in 1..Len(s) : s[n] \in S <=> s[n] \in R
  PROVE  Only(s, S) = Only(s, R)
  <1> DEFINE P == {u \in Seq(A) : (\A n \in 1..Len(u) : u[n] \in S <=> u[n] \in R) => Only(u, S) = Only(u, R)}
  <1>1. <<>> \in P
    BY OnlyEmpty
  <1>2. ASSUME NEW u \in Seq(A), NEW e \in A, u \in P
        PROVE  Append(u, e) \in P
    <2> DEFINE v == Append(u, e)
    <2>1. v \in Seq(A) /\ Len(v) = Len(u) + 1 /\ v[Len(u) + 1] = e /\ \A n \in 1..Len(u) : v[n] = u[n]
      OBVIOUS
    <2>2. Only(v, S) = (IF e \in S THEN Append(Only(u, S), e) ELSE Only(u, S))
      BY OnlyAppend
    <2>3. Only(v, R) = (IF e \in R THEN Append(Only(u, R), e) ELSE Only(u, R))
      BY OnlyAppend
    <2> HIDE DEF v
    <2>4. ASSUME \A n \in 1..Len(v) : v[n] \in S <=> v[n] \in R PROVE Only(v, S) = Only(v, R)
      <3>1. e \in S <=> e \in R
        BY <2>1, <2>4
      <3>2. \A n \in 1..Len(u) : n \in 1..Len(v)
        BY <2>1
      <3>3. Only(u, S) = Only(u, R)
        BY <1>2, <2>1, <2>4, <3>2
      <3> QED BY <2>2, <2>3, <3>1, <3>3
    <2>5. v \in P
      BY <2>1, <2>4
    <2> QED BY <2>5 DEF v
  <1> HIDE DEF P
  <1>3. s \in P
    BY <1>1, <1>2, Induction
  <1> QED BY <1>3 DEF P

LEMMA OnlyAll ==
  ASSUME NEW A, NEW s \in Seq(A), NEW S, \A n \in 1..Len(s) : s[n] \in S
  PROVE  Only(s, S) = s
  <1> DEFINE P == {u \in Seq(A) : Only(u, A) = u}
  <1>1. <<>> \in P
    BY OnlyEmpty
  <1>2. ASSUME NEW u \in Seq(A), NEW e \in A, u \in P
        PROVE  Append(u, e) \in P
    BY <1>2, OnlyAppend
  <1> HIDE DEF P
  <1>3. s \in P
    BY <1>1, <1>2, Induction
  <1>4. \A n \in 1..Len(s) : s[n] \in A
    OBVIOUS
  <1>5. Only(s, S) = Only(s, A)
    BY <1>4, OnlySame
  <1> QED BY <1>3, <1>5 DEF P

LEMMA OnlyNone ==
  ASSUME NEW A, NEW s \in Seq(A), NEW S, \A n \in 1..Len(s) : s[n] \notin S
  PROVE  Only(s, S) = <<>>
  <1>1. Only(s, S) = Only(s, {})
    BY OnlySame
  <1>2. Only(s, {}) \in Seq(A \intersect {})
    BY OnlyType
  <1> QED BY <1>1, <1>2

LEMMA OnlyHead ==
  ASSUME NEW A, NEW s \in Seq(A), s # <<>>, NEW S
  PROVE  Only(s, S) = IF Head(s) \in S THEN <<Head(s)>> \o Only(Tail(s), S) ELSE Only(Tail(s), S)
  <1> DEFINE h == Head(s)
  <1>1. h \in A /\ Tail(s) \in Seq(A) /\ <<h>> \in Seq(A) /\ s = <<h>> \o Tail(s)
    OBVIOUS
  <1>2. <<h>> = Append(<<>>, h) /\ <<>> \in Seq(A)
    OBVIOUS
  <1> HIDE DEF h
  <1>3. Only(<<h>>, S) = IF h \in S THEN <<h>> ELSE <<>>
    <2>1. Only(<<>>, S) = <<>>
      BY OnlyEmpty
    <2> QED BY <1>1, <1>2, <2>1, OnlyAppend
  <1>4. Only(s, S) = Only(<<h>>, S) \o Only(Tail(s), S)
    <2> DEFINE a == <<h>>
               b == Tail(s)
    <2>1. a \in Seq(A) /\ b \in Seq(A) /\ s = a \o b
      BY <1>1
    <2> HIDE DEF a, b
    <2>2. Only(a \o b, S) = Only(a, S) \o Only(b, S)
      BY <2>1, OnlyConcat
    <2> QED BY <2>1, <2>2 DEF a, b
  <1>5. <<>> \o Only(Tail(s), S) = Only(Tail(s), S)
    BY <1>1, OnlyType, ConcatEmptySeq
  <1> QED BY <1>3, <1>4, <1>5 DEF h

\* The elements that are selected.
LEMMA OnlyRange ==
  ASSUME NEW A, NEW s \in Seq(A), NEW S
  PROVE  Range(Only(s, S)) = Range(s) \intersect S
  <1> DEFINE P == {u \in Seq(A) : Range(Only(u, S)) = Range(u) \intersect S}
  <1>1. <<>> \in P
    BY OnlyEmpty DEF Range
  <1>2. ASSUME NEW u \in Seq(A), NEW e \in A
        PROVE  Range(Append(u, e)) = Range(u) \union {e}
    <2>1. Append(u, e) = u \o <<e>> /\ <<e>> \in Seq(A)
      OBVIOUS
    <2>2. Range(<<e>>) = {e}
      BY DEF Range
    <2>3. Range(u \o <<e>>) = Range(u) \union Range(<<e>>)
      BY <2>1, RangeConcatenation
    <2> QED BY <2>1, <2>2, <2>3
  <1>3. ASSUME NEW u \in Seq(A), NEW e \in A, u \in P
        PROVE  Append(u, e) \in P
    <2>1. Only(u, S) \in Seq(A)
      BY OnlyType
    <2>2. Only(Append(u, e), S) = IF e \in S THEN Append(Only(u, S), e) ELSE Only(u, S)
      BY OnlyAppend
    <2>3. Range(Append(Only(u, S), e)) = Range(Only(u, S)) \union {e}
      BY <1>2, <2>1
    <2>4. Range(Append(u, e)) = Range(u) \union {e}
      BY <1>2
    <2>5. Range(Only(Append(u, e), S)) = Range(Append(u, e)) \intersect S
      BY <1>3, <2>2, <2>3, <2>4
    <2> QED BY <2>5
  <1> HIDE DEF P
  <1>4. s \in P
    BY <1>1, <1>3, Induction
  <1> QED BY <1>4 DEF P

\* Selecting does not lengthen.
LEMMA OnlyLen ==
  ASSUME NEW A, NEW s \in Seq(A), NEW S
  PROVE  Len(Only(s, S)) \in Nat /\ Len(Only(s, S)) <= Len(s)
  <1> DEFINE P == {u \in Seq(A) : Len(Only(u, S)) <= Len(u)}
  <1>1. <<>> \in P
    BY OnlyEmpty
  <1>2. ASSUME NEW u \in Seq(A), NEW e \in A, u \in P
        PROVE  Append(u, e) \in P
    <2>1. Only(u, S) \in Seq(A)
      BY OnlyType
    <2>2. Only(Append(u, e), S) = IF e \in S THEN Append(Only(u, S), e) ELSE Only(u, S)
      BY OnlyAppend
    <2>3. Len(Only(Append(u, e), S)) <= Len(u) + 1
      BY <1>2, <2>1, <2>2
    <2> QED BY <2>3
  <1> HIDE DEF P
  <1>3. s \in P
    BY <1>1, <1>2, Induction
  <1>4. Only(s, S) \in Seq(A)
    BY OnlyType
  <1> QED BY <1>3, <1>4 DEF P

------------------------------------------------------------------------------
(***************************************************************************)
(* Sequences of numbers in order.                                          *)
(***************************************************************************)
Rising(s) == \A i, j \in DOMAIN s : i < j => s[i] < s[j]

\* A last element that is above all others keeps the order, and must be above them.
LEMMA RisingAppend ==
  ASSUME NEW s \in Seq(Nat), NEW e \in Nat
  PROVE  Rising(Append(s, e)) <=> Rising(s) /\ \A x \in Range(s) : x < e
  <1> DEFINE u == Append(s, e)
  <1>1. /\ DOMAIN s = 1..Len(s) /\ Len(s) \in Nat /\ DOMAIN u = 1..Len(s) + 1
        /\ u[Len(s) + 1] = e /\ \A i \in 1..Len(s) : u[i] = s[i] /\ s[i] \in Nat
    OBVIOUS
  <1> HIDE DEF u
  <1>2. ASSUME Rising(u) PROVE Rising(s) /\ \A x \in Range(s) : x < e
    <2>1. Rising(s)
      BY <1>1, <1>2 DEF Rising
    <2>2. \A i \in 1..Len(s) : i \in 1..Len(s) + 1 /\ Len(s) + 1 \in 1..Len(s) + 1 /\ i < Len(s) + 1
      BY <1>1
    <2>3. \A i \in 1..Len(s) : s[i] < e
      BY <1>1, <1>2, <2>2 DEF Rising
    <2> QED BY <1>1, <2>1, <2>3 DEF Range
  <1>3. ASSUME Rising(s), \A x \in Range(s) : x < e PROVE Rising(u)
    <2> SUFFICES ASSUME NEW i \in 1..Len(s) + 1, NEW j \in 1..Len(s) + 1, i < j PROVE u[i] < u[j]
      BY <1>1 DEF Rising
    <2>1. i \in 1..Len(s) /\ s[i] \in Range(s)
      BY <1>1 DEF Range
    <2>2. CASE j \in 1..Len(s)
      BY <1>1, <1>3, <2>1, <2>2 DEF Rising
    <2>3. CASE j = Len(s) + 1
      BY <1>1, <1>3, <2>1, <2>3
    <2> QED BY <1>1, <2>2, <2>3
  <1> QED BY <1>2, <1>3 DEF u

\* Selecting keeps the order.
LEMMA OnlyRising ==
  ASSUME NEW s \in Seq(Nat), NEW S, Rising(s)
  PROVE  Rising(Only(s, S))
  <1> DEFINE P == {u \in Seq(Nat) : Rising(u) => Rising(Only(u, S))}
  <1>1. <<>> \in P
    BY OnlyEmpty DEF Rising
  <1>2. ASSUME NEW u \in Seq(Nat), NEW e \in Nat, u \in P
        PROVE  Append(u, e) \in P
    <2> SUFFICES ASSUME Rising(Append(u, e)) PROVE Rising(Only(Append(u, e), S))
      OBVIOUS
    <2>1. Rising(Only(u, S)) /\ \A x \in Range(u) : x < e
      BY <1>2, RisingAppend
    <2>2. Only(u, S) \in Seq(Nat) /\ Range(Only(u, S)) \subseteq Range(u)
      BY OnlyType, OnlyRange
    <2>3. Rising(Append(Only(u, S), e))
      BY <2>1, <2>2, RisingAppend
    <2>4. Only(Append(u, e), S) = IF e \in S THEN Append(Only(u, S), e) ELSE Only(u, S)
      BY OnlyAppend
    <2> QED BY <2>1, <2>3, <2>4
  <1> HIDE DEF P
  <1>3. s \in P
    BY <1>1, <1>2, Induction
  <1> QED BY <1>3 DEF P

\* If what is selected comes last, it is the rest of the sequence after some point.
LEMMA OnlyLast ==
  ASSUME NEW A, NEW s \in Seq(A), NEW S,
         \A i, j \in 1..Len(s) : i < j /\ s[i] \in S => s[j] \in S
  PROVE  \E k \in 0..Len(s) : /\ SubSeq(s, k + 1, Len(s)) = Only(s, S)
                              /\ \A n \in 1..Len(s) : s[n] \in S <=> k < n
  <1> DEFINE T == {n \in 1..Len(s) + 1 : n <= Len(s) => s[n] \in S}
  <1>1. Len(s) \in Nat /\ Len(s) + 1 \in T
    OBVIOUS
  <1>2. PICK m \in T : \A n \in T : m <= n
    <2>1. T \in SUBSET Nat /\ T # {}
      BY <1>1
    <2> HIDE DEF T
    <2> QED BY <2>1, Least
  <1> DEFINE k == m - 1
             first == SubSeq(s, 1, k)
             rest == SubSeq(s, k + 1, Len(s))
  <1>3. m \in 1..Len(s) + 1 /\ k \in 0..Len(s) /\ k \in Nat
    BY <1>1, <1>2
  <1>4. \A n \in 1..Len(s) : s[n] \in S <=> k < n
    <2> SUFFICES ASSUME NEW n \in 1..Len(s) PROVE s[n] \in S <=> k < n
      OBVIOUS
    <2>1. CASE n < m
      <3>1. n \notin T
        BY <1>2, <1>3, <2>1
      <3> QED BY <1>3, <2>1, <3>1
    <2>2. CASE m <= n
      <3>1. m \in 1..Len(s) /\ s[m] \in S
        BY <1>2, <1>3, <2>2
      <3> QED BY <1>3, <2>2, <3>1
    <2> QED BY <1>3, <2>1, <2>2
  <1>5. /\ first \in Seq(A) /\ Len(first) = k /\ \A n \in 1..k : first[n] = s[n]
        /\ rest \in Seq(A) /\ Len(rest) = Len(s) - k /\ \A n \in 1..Len(s) - k : rest[n] = s[k + n]
    BY <1>3
  <1>6. s = first \o rest
    <2> HIDE DEF first, rest, k, T
    <2>1. Len(first \o rest) = Len(s) /\ first \o rest \in Seq(A)
      BY <1>1, <1>3, <1>5
    <2>2. ASSUME NEW n \in 1..Len(s) PROVE (first \o rest)[n] = s[n]
      <3>1. CASE n <= k
        BY <1>3, <1>5, <3>1
      <3>2. CASE k < n
        <4>1. n - k \in 1..Len(s) - k /\ k + (n - k) = n
          BY <1>1, <1>3, <3>2
        <4>2. PICK j \in 1..Len(s) - k : k + j = n
          BY <4>1
        <4>3. (first \o rest)[k + j] = rest[j]
          BY <1>1, <1>3, <1>5
        <4> QED BY <1>5, <4>2, <4>3
      <3>3. n <= k \/ k < n
        BY <1>1, <1>3
      <3> QED BY <3>1, <3>2, <3>3
    <2> QED BY <2>1, <2>2, SeqEqual
  <1> HIDE DEF first, rest, k, T
  <1>7. Only(first, S) = <<>>
    <2>1. \A n \in 1..Len(first) : first[n] \notin S
      BY <1>1, <1>3, <1>4, <1>5
    <2> QED BY <1>5, <2>1, OnlyNone
  <1>8. Only(rest, S) = rest
    <2>1. \A n \in 1..Len(s) - k : k + n \in 1..Len(s) /\ k < k + n
      BY <1>1, <1>3
    <2>2. \A n \in 1..Len(rest) : rest[n] \in S
      BY <1>4, <1>5, <2>1
    <2> QED BY <1>5, <2>2, OnlyAll
  <1>9. Only(s, S) = rest
    <2>1. Only(s, S) = Only(first, S) \o Only(rest, S)
      BY <1>5, <1>6, OnlyConcat
    <2> QED BY <1>5, <1>7, <1>8, <2>1, ConcatEmptySeq
  <1> QED BY <1>3, <1>4, <1>9 DEF rest
================================================================================
