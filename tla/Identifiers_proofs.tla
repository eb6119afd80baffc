-------------------------- MODULE Identifiers_proofs --------------------------
(***************************************************************************)
(* What the tolerant parsers return is canonical, and what their check     *)
(* digits catch, for texts of any length; first, the facts about sequences *)
(* put one after the other that these proofs and those of RecordEntry use. *)
(***************************************************************************)
EXTENDS Identifiers, SumLemmas, SequenceTheorems

-----------------------------------------------------------------------------
(* Sequences put one after the other. *)

\* The recursion of FlattenSeq has a solution, one longer for each sequence.
LEMMA FlattenExists ==
  ASSUME NEW ss, NEW n \in Nat
  PROVE  \E f : f = [i \in 1..n |-> IF i = 1 THEN ss[i] ELSE f[i - 1] \o ss[i]]
<1> DEFINE Step(f, i) == IF i = 1 THEN ss[i] ELSE f[i - 1] \o ss[i]
           Has(k) == \E f : f = [i \in 1..k |-> Step(f, i)]
<1>1. Has(0)
  <2> DEFINE f == [i \in 1..0 |-> ss[i]]
  <2>1. f = [i \in 1..0 |-> Step(f, i)]
    OBVIOUS
  <2> QED BY <2>1
<1>2. ASSUME NEW k \in Nat, Has(k) PROVE Has(k + 1)
  <2>1. PICK f : f = [i \in 1..k |-> Step(f, i)]
    BY <1>2
  <2> DEFINE g == [i \in 1..(k + 1) |-> IF i = k + 1 THEN Step(f, i) ELSE f[i]]
  <2>2. ASSUME NEW i \in 1..(k + 1) PROVE g[i] = Step(g, i)
    <3>1. CASE i = 1 /\ k = 0
      BY <3>1
    <3>2. CASE i = 1 /\ k # 0
      <4>1. i \in 1..k /\ i # k + 1
        BY <3>2
      <4>2. g[i] = f[i] /\ f[i] = Step(f, i)
        BY <4>1, <2>1
      <4> QED BY <4>2, <3>2
    <3>3. CASE i # 1
      <4>1. i - 1 \in 1..k /\ i - 1 # k + 1 /\ i - 1 \in 1..(k + 1)
        BY <3>3
      <4>2. g[i - 1] = f[i - 1]
        BY <4>1
      <4>3. g[i] = Step(f, i)
        <5>1. CASE i = k + 1
          BY <5>1
        <5>2. CASE i # k + 1
          <6>1. i \in 1..k
            BY <5>2
          <6>2. g[i] = f[i] /\ f[i] = Step(f, i)
            BY <6>1, <5>2, <2>1
          <6> QED BY <6>2
        <5> QED BY <5>1, <5>2
      <4> QED BY <4>2, <4>3, <3>3
    <3> QED BY <3>1, <3>2, <3>3
  <2>3. g = [i \in 1..(k + 1) |-> Step(g, i)]
    BY <2>2
  <2> QED BY <2>3
<1> HIDE DEF Has
<1>3. Has(n)
  <2> DEFINE S == {k \in Nat : Has(k)}
  <2>1. 0 \in S /\ \A k \in Nat : k \in S => k + 1 \in S
    BY <1>1, <1>2
  <2> HIDE DEF S
  <2>2. n \in S
    BY <2>1, EveryNatural
  <2> QED BY <2>2 DEF S
<1> QED BY <1>3 DEF Has

\* What a concatenation holds.
Holds(s, x) == \E k \in DOMAIN s : s[k] = x

LEMMA ConcatHolds ==
  ASSUME NEW T, NEW s \in Seq(T), NEW t \in Seq(T), NEW x
  PROVE  Holds(s \o t, x) <=> Holds(s, x) \/ Holds(t, x)
<1> USE DEF Holds
<1>1. /\ DOMAIN (s \o t) = 1..(Len(s) + Len(t))
      /\ DOMAIN s = 1..Len(s) /\ DOMAIN t = 1..Len(t)
      /\ Len(s) \in Nat /\ Len(t) \in Nat
      /\ \A k \in 1..Len(s) : (s \o t)[k] = s[k]
      /\ \A k \in 1..Len(t) : (s \o t)[Len(s) + k] = t[k]
  OBVIOUS
<1>2. ASSUME NEW k \in DOMAIN (s \o t), (s \o t)[k] = x
      PROVE  (\E j \in DOMAIN s : s[j] = x) \/ (\E j \in DOMAIN t : t[j] = x)
  <2>1. CASE k <= Len(s)
    BY <2>1, <1>1, <1>2
  <2>2. CASE k > Len(s)
    <3>1. k - Len(s) \in 1..Len(t) /\ Len(s) + (k - Len(s)) = k
      BY <2>2, <1>1
    <3> QED BY <3>1, <1>1, <1>2
  <2> QED BY <2>1, <2>2, <1>1
<1>3. ASSUME NEW j \in DOMAIN s, s[j] = x
      PROVE  \E k \in DOMAIN (s \o t) : (s \o t)[k] = x
  <2>1. j \in DOMAIN (s \o t) /\ (s \o t)[j] = x
    BY <1>1, <1>3
  <2> QED BY <2>1
<1>4. ASSUME NEW j \in DOMAIN t, t[j] = x
      PROVE  \E k \in DOMAIN (s \o t) : (s \o t)[k] = x
  <2>1. Len(s) + j \in DOMAIN (s \o t) /\ (s \o t)[Len(s) + j] = x
    BY <1>1, <1>4
  <2> QED BY <2>1
<1> QED BY <1>2, <1>3, <1>4

LEMMA HoldsOne == ASSUME NEW y PROVE \A x : Holds(<<y>>, x) <=> x = y
<1>1. DOMAIN <<y>> = {1} /\ <<y>>[1] = y
  OBVIOUS
<1> QED BY <1>1 DEF Holds

LEMMA HoldsNothing ==
  ASSUME NEW T, NEW s \in Seq(T), \A x : ~Holds(s, x)
  PROVE  s = <<>>
<1>1. 1 \notin DOMAIN s
  BY DEF Holds
<1>2. Len(s) = 0
  BY <1>1
<1> QED BY <1>2

LEMMA FlattenIs ==
  ASSUME NEW ss, Len(ss) \in Nat \ {0}
  PROVE  \E f : /\ f = [i \in 1..Len(ss) |-> IF i = 1 THEN ss[i] ELSE f[i - 1] \o ss[i]]
               /\ FlattenSeq(ss) = f[Len(ss)]
<1> DEFINE Solves(f) == f = [i \in 1..Len(ss) |-> IF i = 1 THEN ss[i] ELSE f[i - 1] \o ss[i]]
           flat == CHOOSE f : Solves(f)
<1>1. \E f : Solves(f)
  BY FlattenExists
<1>2. Solves(flat)
  <2> HIDE DEF Solves
  <2> QED BY <1>1
<1>3. FlattenSeq(ss) = flat[Len(ss)]
  BY DEF FlattenSeq
<1> HIDE DEF flat
<1> QED BY <1>2, <1>3

\* What is in one of the sequences is in the whole, and nothing else.
LEMMA FlattenFacts ==
  ASSUME NEW T, NEW ss \in Seq(Seq(T))
  PROVE  /\ FlattenSeq(ss) \in Seq(T)
         /\ \A x : Holds(FlattenSeq(ss), x) <=> \E i \in DOMAIN ss : Holds(ss[i], x)
<1>1. CASE Len(ss) = 0
  BY <1>1 DEF FlattenSeq, Holds
<1>2. CASE Len(ss) # 0
  <2>0. Len(ss) \in Nat \ {0}
    BY <1>2
  <2>1. PICK f : /\ f = [i \in 1..Len(ss) |-> IF i = 1 THEN ss[i] ELSE f[i - 1] \o ss[i]]
                 /\ FlattenSeq(ss) = f[Len(ss)]
    BY <2>0, FlattenIs
  <2> DEFINE FitsUpTo(n) == n \in 1..Len(ss) =>
                          /\ f[n] \in Seq(T)
                          /\ \A x : Holds(f[n], x) <=> \E i \in 1..n : Holds(ss[i], x)
             S == {n \in Nat : FitsUpTo(n)}
  <2>2. FitsUpTo(0)
    OBVIOUS
  <2>3. ASSUME NEW n \in Nat, FitsUpTo(n) PROVE FitsUpTo(n + 1)
    <3> SUFFICES ASSUME n + 1 \in 1..Len(ss) PROVE FitsUpTo(n + 1)
      OBVIOUS
    <3>1. ss[n + 1] \in Seq(T)
      OBVIOUS
    <3>2. CASE n = 0
      <4>1. f[n + 1] = ss[n + 1] /\ 1..(n + 1) = {n + 1}
        BY <2>1, <3>2
      <4> QED BY <3>1, <4>1
    <3>3. CASE n # 0
      <4>1. n \in 1..Len(ss) /\ n + 1 # 1 /\ (n + 1) - 1 = n
        BY <3>3
      <4>2. f[n + 1] = f[n] \o ss[n + 1]
        BY <4>1, <2>1
      <4>3. f[n] \in Seq(T) /\ \A x : Holds(f[n], x) <=> \E i \in 1..n : Holds(ss[i], x)
        BY <4>1, <2>3
      <4>4. \A x : Holds(f[n] \o ss[n + 1], x) <=> Holds(f[n], x) \/ Holds(ss[n + 1], x)
        <5> SUFFICES ASSUME NEW x
                     PROVE  Holds(f[n] \o ss[n + 1], x) <=> Holds(f[n], x) \/ Holds(ss[n + 1], x)
          OBVIOUS
        <5> DEFINE a == f[n]
                   b == ss[n + 1]
        <5>1. a \in Seq(T) /\ b \in Seq(T)
          BY <4>3, <3>1
        <5> HIDE DEF a, b
        <5>2. Holds(a \o b, x) <=> Holds(a, x) \/ Holds(b, x)
          BY <5>1, ConcatHolds
        <5> QED BY <5>2 DEF a, b
      <4>5. 1..(n + 1) = 1..n \cup {n + 1}
        OBVIOUS
      <4> QED BY <4>2, <4>3, <4>4, <4>5, <3>1
    <3> QED BY <3>2, <3>3
  <2> HIDE DEF FitsUpTo
  <2>4. 0 \in S /\ \A n \in Nat : n \in S => n + 1 \in S
    BY <2>2, <2>3
  <2> HIDE DEF S
  <2>5. Len(ss) \in S
    BY <2>0, <2>4, EveryNatural
  <2>6. DOMAIN ss = 1..Len(ss)
    OBVIOUS
  <2>7. FitsUpTo(Len(ss))
    BY <2>5 DEF S
  <2>8. /\ f[Len(ss)] \in Seq(T)
        /\ \A x : Holds(f[Len(ss)], x) <=> \E i \in 1..Len(ss) : Holds(ss[i], x)
    BY <2>0, <2>7 DEF FitsUpTo
  <2>9. FlattenSeq(ss) = f[Len(ss)]
    BY <2>1
  <2> QED BY <2>6, <2>8, <2>9, Zenon
<1> QED BY <1>1, <1>2

\* A sequence of at most one element, put after another.
LEMMA OptionAppended ==
  ASSUME NEW T, NEW b \in Seq(T), NEW e \in Seq(T), Len(e) <= 1
  PROVE  \/ e = <<>> /\ Len(e) = 0 /\ b \o e = b
         \/ e # <<>> /\ Len(e) = 1 /\ e[1] \in T /\ b \o e = Append(b, e[1])
<1>1. CASE Len(e) = 0
  BY <1>1
<1>2. CASE Len(e) = 1
  <2>1. e[1] \in T /\ e = <<e[1]>>
    BY <1>2
  <2>2. e # <<>>
    <3>1. Len(<<>>) # 1
      OBVIOUS
    <3> QED BY <1>2, <3>1, Zenon
  <2>3. b \o <<e[1]>> = Append(b, e[1])
    BY <2>1, AppendIsConcat
  <2>4. b \o e = b \o <<e[1]>>
    BY <2>1
  <2> QED BY <2>1, <1>2, <2>2, <2>3, <2>4
<1>3. Len(e) = 0 \/ Len(e) = 1
  <2> DEFINE n == Len(e)
  <2>1. n \in Nat /\ n <= 1
    OBVIOUS
  <2> HIDE DEF n
  <2>2. n = 0 \/ n = 1
    BY <2>1
  <2> QED BY <2>2 DEF n
<1> QED BY <1>1, <1>2, <1>3

LEMMA AppendExtends ==
  ASSUME NEW ss, NEW n \in Nat, NEW T, NEW b \in Seq(T), b = [i \in 1..n |-> ss[i][1]],
         ss[n + 1][1] \in T
  PROVE  Append(b, ss[n + 1][1]) = [i \in 1..(n + 1) |-> ss[i][1]]
<1>1. Len(b) = n /\ DOMAIN b = 1..n
  BY DOMAIN b = 1..Len(b), DOMAIN b = 1..n
<1> QED BY <1>1

\* Of sequences of at most one element, each counts if it has one; when each
\* has, the whole lists them in their places.
LEMMA FlattenOptions ==
  ASSUME NEW T, NEW ss \in Seq(Seq(T)), \A i \in DOMAIN ss : Len(ss[i]) <= 1
  PROVE  /\ Len(FlattenSeq(ss)) = Cardinality({i \in DOMAIN ss : ss[i] # <<>>})
         /\ (\A i \in DOMAIN ss : ss[i] # <<>>) => FlattenSeq(ss) = [i \in DOMAIN ss |-> ss[i][1]]
<1>1. CASE Len(ss) = 0
  <2>1. ss = <<>> /\ FlattenSeq(ss) = <<>> /\ DOMAIN ss = {}
    BY <1>1 DEF FlattenSeq
  <2>2. {i \in DOMAIN ss : ss[i] # <<>>} = {}
    BY <2>1
  <2>3. Cardinality({i \in DOMAIN ss : ss[i] # <<>>}) = 0
    BY <2>2, FS_EmptySet
  <2> QED BY <2>1, <2>3
<1>2. CASE Len(ss) # 0
  <2>0. Len(ss) \in Nat \ {0} /\ DOMAIN ss = 1..Len(ss)
    BY <1>2
  <2>1. PICK f : /\ f = [i \in 1..Len(ss) |-> IF i = 1 THEN ss[i] ELSE f[i - 1] \o ss[i]]
                 /\ FlattenSeq(ss) = f[Len(ss)]
    BY <2>0, FlattenIs
  <2> DEFINE Taken(n) == {i \in 1..n : ss[i] # <<>>}
             FitsUpTo(n) == n \in 1..Len(ss) =>
                          /\ f[n] \in Seq(T)
                          /\ Len(f[n]) = Cardinality(Taken(n))
                          /\ IsFiniteSet(Taken(n))
                          /\ Taken(n) = 1..n => f[n] = [i \in 1..n |-> ss[i][1]]
             S == {n \in Nat : FitsUpTo(n)}
  <2>2. FitsUpTo(0)
    OBVIOUS
  <2>3. ASSUME NEW n \in Nat, FitsUpTo(n) PROVE FitsUpTo(n + 1)
    <3> SUFFICES ASSUME n + 1 \in 1..Len(ss)
                 PROVE  /\ f[n + 1] \in Seq(T)
                        /\ Len(f[n + 1]) = Cardinality(Taken(n + 1))
                        /\ IsFiniteSet(Taken(n + 1))
                        /\ Taken(n + 1) = 1..(n + 1) =>
                             f[n + 1] = [i \in 1..(n + 1) |-> ss[i][1]]
      OBVIOUS
    <3> DEFINE new == ss[n + 1]
               before == IF n = 0 THEN <<>> ELSE f[n]
    <3>1. new \in Seq(T) /\ Len(new) <= 1
      <4>1. n + 1 \in DOMAIN ss
        BY <2>0
      <4>2. ss[n + 1] \in Seq(T)
        BY <4>1
      <4>3. Len(ss[n + 1]) <= 1
        BY <4>1
      <4> QED BY <4>2, <4>3
    <3>2. f[n + 1] = before \o new
      <4>1. CASE n = 0
        <5>1. f[n + 1] = new /\ before = <<>>
          BY <4>1, <2>1
        <5> HIDE DEF new, before
        <5> QED BY <5>1, <3>1
      <4>2. CASE n # 0
        <5>1. (n + 1) - 1 = n /\ n + 1 # 1
          BY <4>2
        <5>2. f[n + 1] = f[n] \o ss[n + 1]
          BY <5>1, <2>1
        <5> QED BY <4>2, <5>2
      <4> QED BY <4>1, <4>2
    <3>3. /\ before \in Seq(T) /\ Len(before) = Cardinality(Taken(n)) /\ IsFiniteSet(Taken(n))
          /\ Taken(n) = 1..n => before = [i \in 1..n |-> ss[i][1]]
      <4>1. CASE n = 0
        <5>1. Taken(n) = {} /\ before = <<>>
          BY <4>1
        <5>2. IsFiniteSet(Taken(n)) /\ Cardinality(Taken(n)) = 0
          BY <5>1, FS_EmptySet
        <5>3. [i \in 1..n |-> ss[i][1]] = <<>>
          BY <4>1
        <5> HIDE DEF Taken, before
        <5>4. before \in Seq(T) /\ Len(before) = 0
          BY <5>1
        <5> QED BY <5>1, <5>2, <5>3, <5>4, Zenon
      <4>2. CASE n # 0
        <5>1. n \in 1..Len(ss)
          BY <4>2
        <5>2. before = f[n]
          BY <4>2
        <5> HIDE DEF Taken, before
        <5> QED BY <5>1, <5>2, <2>3
      <4> QED BY <4>1, <4>2
    <3>4. Taken(n + 1) = IF new = <<>> THEN Taken(n) ELSE Taken(n) \cup {n + 1}
      <4>1. 1..(n + 1) = 1..n \cup {n + 1}
        OBVIOUS
      <4> QED BY <4>1
    <3>5. n + 1 \notin Taken(n) /\ Taken(n) \subseteq 1..n /\ n + 1 \in 1..(n + 1)
      OBVIOUS
    <3> HIDE DEF before
    <3>6. CASE new = <<>>
      <4>1. f[n + 1] = before /\ Taken(n + 1) = Taken(n)
        BY <3>6, <3>1, <3>2, <3>3, <3>4, OptionAppended
      <4>2. Taken(n + 1) # 1..(n + 1)
        <5> HIDE DEF Taken
        <5> QED BY <4>1, <3>5
      <4> HIDE DEF Taken
      <4> QED BY <4>1, <4>2, <3>3
    <3>7. CASE new # <<>>
      <4>1. /\ f[n + 1] = Append(before, new[1]) /\ new[1] \in T
            /\ Taken(n + 1) = Taken(n) \cup {n + 1}
        <5> HIDE DEF new, Taken
        <5> QED BY <3>7, <3>1, <3>2, <3>3, <3>4, OptionAppended
      <4>2. /\ IsFiniteSet(Taken(n + 1))
            /\ Cardinality(Taken(n + 1)) = Cardinality(Taken(n)) + 1
        <5> HIDE DEF Taken
        <5> QED BY <4>1, <3>3, <3>5, FS_AddElement
      <4>3. f[n + 1] \in Seq(T) /\ Len(f[n + 1]) = Len(before) + 1
        BY <4>1, <3>3, AppendProperties
      <4>4. ASSUME Taken(n + 1) = 1..(n + 1)
            PROVE  f[n + 1] = [i \in 1..(n + 1) |-> ss[i][1]]
        <5>1. Taken(n) = 1..n
          <6>1. ASSUME NEW i \in 1..n PROVE i \in Taken(n)
            <7>1. i \in 1..(n + 1) /\ i # n + 1
              OBVIOUS
            <7> HIDE DEF Taken
            <7> QED BY <7>1, <4>1, <4>4
          <6> QED BY <6>1, <3>5
        <5>2. before = [i \in 1..n |-> ss[i][1]]
          BY <5>1, <3>3
        <5> QED BY <5>2, <4>1, <3>3, AppendExtends
      <4> HIDE DEF Taken
      <4> QED BY <4>2, <4>3, <4>4, <3>3
    <3> QED BY <3>6, <3>7
  <2> HIDE DEF FitsUpTo
  <2>4. 0 \in S /\ \A n \in Nat : n \in S => n + 1 \in S
    BY <2>2, <2>3
  <2> HIDE DEF S
  <2>5. Len(ss) \in S
    BY <2>0, <2>4, EveryNatural
  <2>6. FitsUpTo(Len(ss))
    BY <2>5 DEF S
  <2>7. /\ Len(f[Len(ss)]) = Cardinality(Taken(Len(ss)))
        /\ Taken(Len(ss)) = 1..Len(ss) => f[Len(ss)] = [i \in 1..Len(ss) |-> ss[i][1]]
    BY <2>0, <2>6 DEF FitsUpTo
  <2>8. Taken(Len(ss)) = {i \in DOMAIN ss : ss[i] # <<>>}
    BY <2>0
  <2>9. (\A i \in DOMAIN ss : ss[i] # <<>>) => Taken(Len(ss)) = 1..Len(ss)
    BY <2>0
  <2>10. FlattenSeq(ss) = f[Len(ss)]
    BY <2>1
  <2>11. [i \in 1..Len(ss) |-> ss[i][1]] = [i \in DOMAIN ss |-> ss[i][1]]
    BY <2>0
  <2> HIDE DEF Taken
  <2> QED BY <2>7, <2>8, <2>9, <2>10, <2>11, Zenon
<1> QED BY <1>1, <1>2

-----------------------------------------------------------------------------
(* A text without some of its characters.                                  *)

\* The recursion of FlattenSeq has one solution: two agree as far as their sequences do.
Flattens(f, ss, n) == f = [i \in 1..n |-> IF i = 1 THEN ss[i] ELSE f[i - 1] \o ss[i]]

LEMMA FlattenBy ==
  ASSUME NEW ss, Len(ss) \in Nat \ {0}
  PROVE  \E f : Flattens(f, ss, Len(ss)) /\ FlattenSeq(ss) = f[Len(ss)]
BY FlattenIs, Zenon DEF Flattens

SolveUpTo(f, ss, m, g, tt, k, n) ==
  /\ m \in Nat /\ k \in Nat /\ n \in Nat \ {0} /\ n <= m /\ n <= k
  /\ \A i \in 1..n : ss[i] = tt[i]
  /\ Flattens(f, ss, m) /\ Flattens(g, tt, k)

LEMMA FlattenSame ==
  ASSUME NEW f, NEW ss, NEW m, NEW g, NEW tt, NEW k, NEW n, SolveUpTo(f, ss, m, g, tt, k, n)
  PROVE  f[n] = g[n]
<1> USE DEF Flattens, SolveUpTo
<1> DEFINE Agree(i) == i \in 1..n => f[i] = g[i]
           S == {i \in Nat : Agree(i)}
<1>1. Agree(0)
  OBVIOUS
<1>2. ASSUME NEW i \in Nat, Agree(i) PROVE Agree(i + 1)
  <2> SUFFICES ASSUME i + 1 \in 1..n PROVE f[i + 1] = g[i + 1]
    OBVIOUS
  <2>1. i + 1 \in 1..m /\ i + 1 \in 1..k /\ ss[i + 1] = tt[i + 1]
    OBVIOUS
  <2>2. CASE i = 0
    <3>1. i + 1 = 1
      BY <2>2
    <3>2. f[i + 1] = ss[i + 1]
      BY <2>1, <3>1
    <3>3. g[i + 1] = tt[i + 1]
      BY <2>1, <3>1
    <3> QED BY <3>2, <3>3, <2>1
  <2>3. CASE i # 0
    <3>1. i \in 1..n /\ i + 1 # 1 /\ (i + 1) - 1 = i
      BY <2>3
    <3>2. f[i + 1] = f[i] \o ss[i + 1]
      BY <2>1, <3>1
    <3>3. g[i + 1] = g[i] \o tt[i + 1]
      BY <2>1, <3>1
    <3> QED BY <3>1, <3>2, <3>3, <2>1, <1>2
  <2> QED BY <2>2, <2>3
<1> HIDE DEF Agree
<1>3. 0 \in S /\ \A i \in Nat : i \in S => i + 1 \in S
  BY <1>1, <1>2
<1> HIDE DEF S
<1>4. n \in S
  BY <1>3, EveryNatural
<1> QED BY <1>4 DEF S, Agree

LEMMA FlattenAppend ==
  ASSUME NEW T, NEW ss \in Seq(Seq(T)), NEW x \in Seq(T)
  PROVE  FlattenSeq(Append(ss, x)) = FlattenSeq(ss) \o x
<1> DEFINE n == Len(ss)
           tt == Append(ss, x)
<1>1. /\ n \in Nat /\ Len(tt) = n + 1 /\ tt[n + 1] = x
      /\ \A i \in 1..n : tt[i] = ss[i]
  OBVIOUS
<1> HIDE DEF tt
<1>2. PICK g : Flattens(g, tt, Len(tt)) /\ FlattenSeq(tt) = g[Len(tt)]
  BY <1>1, FlattenBy
<1>3. CASE n = 0
  <2>1. ss = <<>> /\ FlattenSeq(ss) = <<>>
    BY <1>3 DEF FlattenSeq
  <2>2. g[1] = tt[1] /\ tt[1] = x /\ Len(tt) = 1
    BY <1>1, <1>2, <1>3 DEF Flattens
  <2>3. FlattenSeq(tt) = x
    BY <2>2, <1>2
  <2> QED BY <2>1, <2>3 DEF tt
<1>4. CASE n # 0
  <2>1. PICK f : Flattens(f, ss, Len(ss)) /\ FlattenSeq(ss) = f[Len(ss)]
    BY <1>4, <1>1, FlattenBy
  <2>2. f[n] = g[n]
    <3>1. n \in Nat \ {0} /\ \A i \in 1..n : ss[i] = tt[i]
      BY <1>1, <1>4
    <3>2. n <= Len(ss) /\ n <= Len(tt) /\ Len(ss) \in Nat /\ Len(tt) \in Nat
      BY <1>1
    <3> HIDE DEF n
    <3>3. SolveUpTo(f, ss, Len(ss), g, tt, Len(tt), n)
      BY <3>1, <3>2, <1>2, <2>1 DEF SolveUpTo
    <3> QED BY <3>3, FlattenSame
  <2>3. n + 1 \in 1..Len(tt) /\ n + 1 # 1 /\ (n + 1) - 1 = n
    BY <1>1, <1>4
  <2>4. g[n + 1] = g[n] \o tt[n + 1]
    BY <1>2, <2>3 DEF Flattens
  <2>5. FlattenSeq(tt) = f[n] \o x
    BY <2>4, <2>2, <1>1, <1>2
  <2> QED BY <2>5, <2>1 DEF tt
<1> QED BY <1>3, <1>4

\* One sequence after another, and what the proofs below need to know of it.
Join(s, t) == s \o t

LEMMA JoinType ==
  ASSUME NEW T, NEW s \in Seq(T), NEW t \in Seq(T)
  PROVE  Join(s, t) \in Seq(T)
BY ConcatProperties DEF Join

LEMMA JoinAssociates ==
  ASSUME NEW T, NEW s \in Seq(T), NEW t \in Seq(T), NEW u \in Seq(T)
  PROVE  Join(Join(s, t), u) = Join(s, Join(t, u))
BY ConcatAssociative, SMT DEF Join

LEMMA JoinEmpty ==
  ASSUME NEW T, NEW s \in Seq(T)
  PROVE  Join(s, <<>>) = s /\ Join(<<>>, s) = s
BY ConcatEmptySeq DEF Join

LEMMA JoinOne ==
  ASSUME NEW T, NEW s \in Seq(T), NEW c \in T
  PROVE  Append(s, c) = Join(s, << c >>)
BY AppendIsConcat DEF Join

LEMMA JoinAt ==
  ASSUME NEW T, NEW s \in Seq(T), NEW t \in Seq(T)
  PROVE  /\ Len(Join(s, t)) = Len(s) + Len(t) /\ Len(s) \in Nat /\ Len(t) \in Nat
         /\ \A i \in 1..Len(s) : Join(s, t)[i] = s[i]
         /\ \A i \in (Len(s) + 1)..(Len(s) + Len(t)) : Join(s, t)[i] = t[i - Len(s)]
<1> DEFINE u == s \o t
<1>1. /\ Len(u) = Len(s) + Len(t) /\ Len(s) \in Nat /\ Len(t) \in Nat
      /\ \A i \in 1..(Len(s) + Len(t)) : u[i] = IF i <= Len(s) THEN s[i] ELSE t[i - Len(s)]
  BY ConcatProperties
<1> HIDE DEF u
<1>2. \A i \in 1..Len(s) : u[i] = s[i]
  BY <1>1
<1>3. \A i \in (Len(s) + 1)..(Len(s) + Len(t)) : u[i] = t[i - Len(s)]
  BY <1>1
<1> QED BY <1>1, <1>2, <1>3 DEF u, Join

LEMMA AppendToJoin ==
  ASSUME NEW T, NEW s \in Seq(T), NEW t \in Seq(T), NEW c \in T
  PROVE  Append(Join(s, t), c) = Join(s, Append(t, c))
<1> DEFINE one == << c >>
<1>1. one \in Seq(T)
  OBVIOUS
<1>2. Append(Join(s, t), c) = Join(Join(s, t), one) /\ Append(t, c) = Join(t, one)
  BY JoinType, JoinOne
<1> HIDE DEF one
<1> QED BY <1>1, <1>2, JoinAssociates

\* A text character by character.
Single(s, chars) == [i \in DOMAIN s |-> IF s[i] \in chars THEN <<>> ELSE << s[i] >>]

LEMMA SingleType ==
  ASSUME NEW T, NEW s \in Seq(T), NEW chars
  PROVE  /\ Single(s, chars) \in Seq(Seq(T)) /\ Without(s, chars) = FlattenSeq(Single(s, chars))
         /\ DOMAIN Single(s, chars) = DOMAIN s /\ Without(s, chars) \in Seq(T)
         /\ \A x : Holds(Without(s, chars), x) <=> x \notin chars /\ Holds(s, x)
<1>1. Single(s, chars) \in Seq(Seq(T)) /\ DOMAIN Single(s, chars) = DOMAIN s
  <2>1. \A i \in DOMAIN s : (IF s[i] \in chars THEN <<>> ELSE << s[i] >>) \in Seq(T)
    OBVIOUS
  <2>2. DOMAIN s = 1..Len(s) /\ Len(s) \in Nat
    OBVIOUS
  <2> QED BY <2>1, <2>2 DEF Single
<1>2. Without(s, chars) = FlattenSeq(Single(s, chars))
  BY DEF Without, Single
<1>3. /\ Without(s, chars) \in Seq(T)
      /\ \A x : Holds(Without(s, chars), x)
                  <=> \E i \in DOMAIN Single(s, chars) : Holds(Single(s, chars)[i], x)
  BY <1>1, <1>2, FlattenFacts
<1>4. ASSUME NEW x, NEW i \in DOMAIN s
      PROVE  Holds(Single(s, chars)[i], x) <=> x \notin chars /\ s[i] = x
  <2>1. CASE s[i] \in chars
    BY <2>1 DEF Single, Holds
  <2>2. CASE s[i] \notin chars
    <3>1. Single(s, chars)[i] = << s[i] >>
      BY <2>2 DEF Single
    <3> QED BY <2>2, <3>1, HoldsOne
  <2> QED BY <2>1, <2>2
<1>5. \A x : Holds(s, x) <=> \E i \in DOMAIN s : s[i] = x
  BY DEF Holds
<1> QED BY <1>1, <1>2, <1>3, <1>4, <1>5

LEMMA WithoutAppend ==
  ASSUME NEW T, NEW s \in Seq(T), NEW c \in T, NEW chars
  PROVE  Without(Append(s, c), chars) =
           IF c \in chars THEN Without(s, chars) ELSE Append(Without(s, chars), c)
<1> DEFINE one == IF c \in chars THEN <<>> ELSE << c >>
<1>0. Append(s, c) \in Seq(T) /\ one \in Seq(T)
  OBVIOUS
<1>1. Single(Append(s, c), chars) = Append(Single(s, chars), one)
  <2>1. /\ DOMAIN Append(s, c) = 1..(Len(s) + 1) /\ Len(s) \in Nat
        /\ \A i \in 1..Len(s) : Append(s, c)[i] = s[i]
        /\ Append(s, c)[Len(s) + 1] = c
    OBVIOUS
  <2>2. Single(s, chars) \in Seq(Seq(T)) /\ Len(Single(s, chars)) = Len(s)
    <3>1. Single(s, chars) \in Seq(Seq(T)) /\ DOMAIN Single(s, chars) = 1..Len(s)
      BY SingleType
    <3> QED BY <3>1
  <2>3. \A i \in 1..Len(s) : Single(s, chars)[i] = IF s[i] \in chars THEN <<>> ELSE << s[i] >>
    BY DEF Single
  <2> DEFINE a == Single(Append(s, c), chars)
             b == Append(Single(s, chars), one)
  <2>4. a = [i \in 1..(Len(s) + 1) |->
               IF Append(s, c)[i] \in chars THEN <<>> ELSE << Append(s, c)[i] >>]
    BY <2>1 DEF Single
  <2>5. /\ b \in Seq(Seq(T)) /\ Len(b) = Len(s) + 1 /\ b[Len(s) + 1] = one
        /\ \A i \in 1..Len(s) : b[i] = Single(s, chars)[i]
    BY <2>2, <1>0
  <2>6. ASSUME NEW i \in 1..(Len(s) + 1) PROVE a[i] = b[i]
    <3>1. CASE i = Len(s) + 1
      BY <3>1, <2>1, <2>4, <2>5
    <3>2. CASE i # Len(s) + 1
      <4>1. i \in 1..Len(s)
        BY <3>2
      <4> HIDE DEF b, one
      <4> QED BY <4>1, <2>1, <2>3, <2>4, <2>5
    <3> QED BY <3>1, <3>2
  <2>7. b = [i \in 1..(Len(s) + 1) |-> b[i]]
    <3> HIDE DEF b
    <3> QED BY <2>5
  <2> HIDE DEF b
  <2>8. a = b
    BY <2>4, <2>6, <2>7
  <2> QED BY <2>8 DEF b
<1>2. Without(Append(s, c), chars) = FlattenSeq(Single(s, chars)) \o one
  <2>1. Single(s, chars) \in Seq(Seq(T))
    BY SingleType
  <2>2. Without(Append(s, c), chars) = FlattenSeq(Single(Append(s, c), chars))
    <3> DEFINE u == Append(s, c)
    <3>1. u \in Seq(T)
      BY <1>0
    <3> HIDE DEF u
    <3>2. Without(u, chars) = FlattenSeq(Single(u, chars))
      BY <3>1, SingleType
    <3> QED BY <3>2 DEF u
  <2> HIDE DEF one
  <2> QED BY <2>1, <2>2, <1>0, <1>1, FlattenAppend
<1>3. Without(s, chars) = FlattenSeq(Single(s, chars)) /\ Without(s, chars) \in Seq(T)
  BY SingleType
<1>4. Without(s, chars) \o <<>> = Without(s, chars)
  BY <1>3
<1>5. Without(s, chars) \o << c >> = Append(Without(s, chars), c)
  BY <1>3, AppendIsConcat
<1> QED BY <1>2, <1>3, <1>4, <1>5

\* What is left of two texts put one after the other.
LEMMA WithoutJoin ==
  ASSUME NEW T, NEW s \in Seq(T), NEW t \in Seq(T), NEW chars
  PROVE  Without(Join(s, t), chars) = Join(Without(s, chars), Without(t, chars))
<1> DEFINE W(u) == Without(u, chars)
           Parts(n) == \A u \in Seq(T) : Len(u) = n => W(Join(s, u)) = Join(W(s), W(u))
           S == {n \in Nat : Parts(n)}
<1>0. \A u \in Seq(T) : W(u) \in Seq(T)
  BY SingleType
<1>1. Parts(0)
  <2> SUFFICES ASSUME NEW u \in Seq(T), Len(u) = 0 PROVE W(Join(s, u)) = Join(W(s), W(u))
    OBVIOUS
  <2>1. u = <<>> /\ Join(s, u) = s
    BY JoinEmpty
  <2>2. W(<<>>) = <<>>
    BY DEF Without, FlattenSeq
  <2> HIDE DEF W
  <2>3. Join(W(s), <<>>) = W(s)
    BY <1>0, JoinEmpty
  <2> QED BY <2>1, <2>2, <2>3
<1>2. ASSUME NEW n \in Nat, Parts(n) PROVE Parts(n + 1)
  <2> SUFFICES ASSUME NEW u \in Seq(T), Len(u) = n + 1 PROVE W(Join(s, u)) = Join(W(s), W(u))
    OBVIOUS
  <2> DEFINE v == SubSeq(u, 1, n)
             c == u[n + 1]
  <2>1. v \in Seq(T) /\ Len(v) = n /\ c \in T /\ u = Append(v, c)
    OBVIOUS
  <2> HIDE DEF v, c
  <2>2. Join(s, u) = Append(Join(s, v), c) /\ Join(s, v) \in Seq(T)
    BY <2>1, AppendToJoin, JoinType
  <2>3. W(Join(s, v)) = Join(W(s), W(v))
    BY <2>1, <1>2
  <2>4. W(Join(s, u)) = IF c \in chars THEN W(Join(s, v)) ELSE Append(W(Join(s, v)), c)
    BY <2>1, <2>2, WithoutAppend
  <2>5. W(u) = IF c \in chars THEN W(v) ELSE Append(W(v), c)
    BY <2>1, WithoutAppend
  <2>6. W(s) \in Seq(T) /\ W(v) \in Seq(T)
    BY <1>0, <2>1
  <2> HIDE DEF W
  <2>7. Append(Join(W(s), W(v)), c) = Join(W(s), Append(W(v), c))
    BY <2>1, <2>6, AppendToJoin
  <2> QED BY <2>3, <2>4, <2>5, <2>7
<1> HIDE DEF Parts
<1>3. 0 \in S /\ \A n \in Nat : n \in S => n + 1 \in S
  BY <1>1, <1>2
<1> HIDE DEF S
<1>4. Len(t) \in S
  BY <1>3, EveryNatural
<1> QED BY <1>4 DEF S, Parts

\* Nothing is left of a text made of such characters, and all of one free of them.
LEMMA WithoutAll ==
  ASSUME NEW T, NEW s \in Seq(T), NEW chars, \A i \in DOMAIN s : s[i] \in chars
  PROVE  Without(s, chars) = <<>>
<1>1. /\ Without(s, chars) \in Seq(T)
      /\ \A x : Holds(Without(s, chars), x) => x \notin chars /\ Holds(s, x)
  BY SingleType
<1>2. \A x : Holds(s, x) => x \in chars
  BY DEF Holds
<1> QED BY <1>1, <1>2, HoldsNothing

LEMMA WithoutOne ==
  ASSUME NEW T, NEW c \in T, NEW chars
  PROVE  Without(<< c >>, chars) = IF c \in chars THEN <<>> ELSE << c >>
<1>1. Without(<<>>, chars) = <<>>
  BY DEF Without, FlattenSeq
<1> DEFINE e == <<>>
<1>2. e \in Seq(T) /\ Append(e, c) = << c >>
  OBVIOUS
<1> HIDE DEF e
<1>3. Without(Append(e, c), chars) =
        IF c \in chars THEN Without(e, chars) ELSE Append(Without(e, chars), c)
  BY <1>2, WithoutAppend
<1>4. Without(e, chars) = e /\ e = <<>>
  BY <1>1 DEF e
<1> QED BY <1>2, <1>3, <1>4

LEMMA WithoutNone ==
  ASSUME NEW T, NEW s \in Seq(T), NEW chars, \A i \in DOMAIN s : s[i] \notin chars
  PROVE  Without(s, chars) = s
<1>1. Single(s, chars) \in Seq(Seq(T)) /\ Without(s, chars) = FlattenSeq(Single(s, chars))
      /\ DOMAIN Single(s, chars) = DOMAIN s
  BY SingleType
<1>2. \A i \in DOMAIN s : Single(s, chars)[i] = << s[i] >>
  BY DEF Single
<1>3. \A i \in DOMAIN Single(s, chars) :
        Len(Single(s, chars)[i]) <= 1 /\ Single(s, chars)[i] # <<>>
  <2>1. \A i \in DOMAIN s : Len(<< s[i] >>) <= 1 /\ << s[i] >> # <<>>
    OBVIOUS
  <2> QED BY <2>1, <1>1, <1>2
<1>4. FlattenSeq(Single(s, chars)) = [i \in DOMAIN Single(s, chars) |-> Single(s, chars)[i][1]]
  BY <1>1, <1>3, FlattenOptions
<1>5. \A i \in DOMAIN s : << s[i] >>[1] = s[i]
  OBVIOUS
<1>6. [i \in DOMAIN s |-> Single(s, chars)[i][1]] = [i \in DOMAIN s |-> s[i]]
  BY <1>2, <1>5
<1>7. s = [i \in DOMAIN s |-> s[i]]
  OBVIOUS
<1> QED BY <1>1, <1>4, <1>6, <1>7
-----------------------------------------------------------------------------
(* Trimming and the letters' case leave the same characters.               *)

LEMMA LeastPlace ==
  ASSUME NEW S, S \subseteq Nat, S # {}
  PROVE  Min(S) \in S /\ \A x \in S : Min(S) <= x
<1>1. \E m \in S : \A x \in S : m <= x
  BY LeastNatural
<1>2. Min(S) = CHOOSE m \in S : \A x \in S : m <= x
  BY DEF Min
<1> QED BY <1>1, <1>2

LEMMA GreatestPlace ==
  ASSUME NEW n \in Nat, NEW S, S \subseteq 1..n, S # {}
  PROVE  Max(S) \in S /\ \A x \in S : Max(S) >= x
<1>1. \E m \in S : \A x \in S : m >= x
  <2> DEFINE R == {n - x : x \in S}
  <2>1. R \subseteq Nat /\ R # {}
    <3>1. \A x \in S : n - x \in Nat
      OBVIOUS
    <3> QED BY <3>1
  <2>2. PICK r \in R : \A y \in R : r <= y
    <3> HIDE DEF R
    <3> QED BY <2>1, LeastNatural
  <2>3. PICK m \in S : r = n - m
    BY <2>2
  <2>4. ASSUME NEW x \in S PROVE m >= x
    <3>1. n - x \in R
      OBVIOUS
    <3>2. r <= n - x
      BY <2>2, <3>1
    <3>3. m \in 1..n /\ x \in 1..n
      BY <2>3
    <3> QED BY <3>2, <3>3, <2>3
  <2> QED BY <2>3, <2>4
<1>2. Max(S) = CHOOSE m \in S : \A x \in S : m >= x
  BY DEF Max
<1> QED BY <1>1, <1>2

\* A text is its spaces in front, what Trim keeps, and its spaces behind.
LEMMA TrimParts ==
  ASSUME NEW T, NEW s \in Seq(T)
  PROVE  \E a \in Seq(T), b \in Seq(T) :
           /\ Trim(s) \in Seq(T) /\ s = Join(Join(a, Trim(s)), b)
           /\ \A i \in DOMAIN a : a[i] = Space
           /\ \A i \in DOMAIN b : b[i] = Space
<1> DEFINE inked == {i \in DOMAIN s : s[i] # Space}
           lo == Min(inked)
           hi == Max(inked)
           n == Len(s)
<1>0. n \in Nat /\ DOMAIN s = 1..n /\ inked \subseteq 1..n /\ inked \subseteq Nat
  OBVIOUS
<1>1. CASE inked = {}
  <2>1. Trim(s) = <<>>
    BY <1>1 DEF Trim
  <2> DEFINE e == <<>>
  <2>2. e \in Seq(T) /\ DOMAIN e = {}
    OBVIOUS
  <2> HIDE DEF e
  <2>3. s = Join(Join(s, e), e)
    BY <2>2, JoinEmpty DEF e
  <2>4. \A i \in DOMAIN s : s[i] = Space
    BY <1>1
  <2> QED BY <2>1, <2>2, <2>3, <2>4 DEF e
<1>2. CASE inked # {}
  <2>1. Trim(s) = SubSeq(s, lo, hi)
    BY <1>2 DEF Trim
  <2> HIDE DEF inked
  <2>2. lo \in inked /\ \A x \in inked : lo <= x
    BY <1>0, <1>2, LeastPlace
  <2>3. hi \in inked /\ \A x \in inked : hi >= x
    BY <1>0, <1>2, GreatestPlace
  <2> HIDE DEF lo, hi
  <2>4. lo \in 1..n /\ hi \in 1..n /\ lo <= hi
    BY <1>0, <2>2, <2>3
  <2> DEFINE a == SubSeq(s, 1, lo - 1)
             c == SubSeq(s, lo, hi)
             b == SubSeq(s, hi + 1, n)
             d == SubSeq(s, 1, hi)
  <2>5. a \in Seq(T) /\ b \in Seq(T) /\ c \in Seq(T) /\ d \in Seq(T)
    BY <2>4, <1>0, SubSeqProperties
  <2>6. Join(a, c) = d
    <3>1. 1 \in 1..(Len(s) + 1) /\ lo - 1 \in (1 - 1)..Len(s) /\ hi \in (lo - 1)..Len(s)
      BY <2>4, <1>0
    <3>2. SubSeq(s, 1, lo - 1) \o SubSeq(s, (lo - 1) + 1, hi) = SubSeq(s, 1, hi)
      BY <3>1, ConcatAdjacentSubSeq, Zenon
    <3>3. (lo - 1) + 1 = lo
      BY <2>4
    <3> QED BY <3>2, <3>3 DEF Join
  <2>7. Join(d, b) = SubSeq(s, 1, n)
    <3>1. 1 \in 1..(Len(s) + 1) /\ hi \in (1 - 1)..Len(s) /\ Len(s) \in hi..Len(s)
      BY <2>4, <1>0
    <3>2. SubSeq(s, 1, hi) \o SubSeq(s, hi + 1, Len(s)) = SubSeq(s, 1, Len(s))
      BY <3>1, ConcatAdjacentSubSeq, Zenon
    <3> QED BY <3>2 DEF Join
  <2>8. SubSeq(s, 1, n) = s
    BY SubSeqFull
  <2>9. \A i \in DOMAIN a : a[i] = Space
    <3>1. DOMAIN a = 1..(lo - 1) /\ \A i \in 1..(lo - 1) : a[i] = s[i]
      BY <2>4, <1>0
    <3>2. \A i \in 1..(lo - 1) : i \notin inked /\ i \in DOMAIN s
      BY <2>2, <2>4, <1>0
    <3> QED BY <3>1, <3>2 DEF inked
  <2>10. \A i \in DOMAIN b : b[i] = Space
    <3>1. DOMAIN b = 1..(n - hi) /\ \A i \in 1..(n - hi) : b[i] = s[hi + i]
      BY <2>4, <1>0
    <3>2. \A i \in 1..(n - hi) : hi + i \notin inked /\ hi + i \in DOMAIN s
      BY <2>3, <2>4, <1>0
    <3> QED BY <3>1, <3>2 DEF inked
  <2> HIDE DEF a, b, c, d
  <2> QED BY <2>1, <2>5, <2>6, <2>7, <2>8, <2>9, <2>10 DEF c
<1> QED BY <1>1, <1>2

LEMMA UppercaseType ==
  ASSUME NEW s \in Seq(Characters)
  PROVE  Uppercase(s) \in Seq(Characters) /\ Len(Uppercase(s)) = Len(s)
<1>1. DOMAIN s = 1..Len(s) /\ Len(s) \in Nat
  OBVIOUS
<1>2. \A i \in 1..Len(s) : (IF s[i] \in Lower THEN s[i] - 26 ELSE s[i]) \in Characters
  <2> SUFFICES ASSUME NEW i \in 1..Len(s)
               PROVE  (IF s[i] \in Lower THEN s[i] - 26 ELSE s[i]) \in Characters
    OBVIOUS
  <2>1. s[i] \in Characters
    OBVIOUS
  <2> QED BY <2>1 DEF Lower, Characters
<1> QED BY <1>1, <1>2 DEF Uppercase

LEMMA UppercaseJoin ==
  ASSUME NEW s \in Seq(Characters), NEW t \in Seq(Characters)
  PROVE  Uppercase(Join(s, t)) = Join(Uppercase(s), Uppercase(t))
<1> DEFINE up(c) == IF c \in Lower THEN c - 26 ELSE c
           st == Join(s, t)
           a == Uppercase(s)
           b == Uppercase(t)
           c == Uppercase(st)
           ab == Join(a, b)
<1>1. /\ st \in Seq(Characters) /\ Len(st) = Len(s) + Len(t)
      /\ \A i \in 1..Len(s) : st[i] = s[i]
      /\ \A i \in (Len(s) + 1)..(Len(s) + Len(t)) : st[i] = t[i - Len(s)]
      /\ Len(s) \in Nat /\ Len(t) \in Nat
  BY JoinType, JoinAt
<1>2. a \in Seq(Characters) /\ b \in Seq(Characters) /\ Len(a) = Len(s) /\ Len(b) = Len(t)
  BY UppercaseType
<1> HIDE DEF st
<1>3. c \in Seq(Characters) /\ Len(c) = Len(st)
  BY <1>1, UppercaseType
<1>4. /\ \A i \in 1..Len(s) : a[i] = up(s[i])
      /\ \A i \in 1..Len(t) : b[i] = up(t[i])
      /\ \A i \in 1..Len(st) : c[i] = up(st[i])
  BY <1>1 DEF Uppercase
<1> HIDE DEF up, a, b, c
<1>5. /\ ab \in Seq(Characters) /\ Len(ab) = Len(s) + Len(t)
      /\ \A i \in 1..Len(s) : ab[i] = a[i]
      /\ \A i \in (Len(s) + 1)..(Len(s) + Len(t)) : ab[i] = b[i - Len(s)]
  <2>1. /\ Len(ab) = Len(a) + Len(b)
        /\ \A i \in 1..Len(a) : ab[i] = a[i]
        /\ \A i \in (Len(a) + 1)..(Len(a) + Len(b)) : ab[i] = b[i - Len(a)]
    BY <1>2, JoinAt
  <2>2. ab \in Seq(Characters)
    BY <1>2, JoinType
  <2> HIDE DEF ab
  <2> QED BY <2>1, <2>2, <1>2
<1> HIDE DEF ab
<1>6. ASSUME NEW i \in 1..Len(st) PROVE c[i] = ab[i]
  <2>1. CASE i \in 1..Len(s)
    BY <2>1, <1>1, <1>4, <1>5
  <2>2. CASE i \notin 1..Len(s)
    <3>1. i \in (Len(s) + 1)..(Len(s) + Len(t)) /\ i - Len(s) \in 1..Len(t)
      BY <2>2, <1>1
    <3> QED BY <3>1, <1>1, <1>4, <1>5
  <2> QED BY <2>1, <2>2
<1>7. c = ab
  BY <1>1, <1>3, <1>5, <1>6, SeqEqual
<1> QED BY <1>7 DEF a, b, c, ab, st

\* What a parser keeps of a text, in capitals, without the separators.
Letters(s, chars) == Without(Uppercase(s), chars)

LEMMA LettersType ==
  ASSUME NEW s \in Seq(Characters), NEW chars
  PROVE  Letters(s, chars) \in Seq(Characters)
BY UppercaseType, SingleType DEF Letters

LEMMA LettersJoin ==
  ASSUME NEW s \in Seq(Characters), NEW t \in Seq(Characters), NEW chars
  PROVE  Letters(Join(s, t), chars) = Join(Letters(s, chars), Letters(t, chars))
BY UppercaseType, UppercaseJoin, WithoutJoin DEF Letters

LEMMA LettersOfSpaces ==
  ASSUME NEW s \in Seq(Characters), \A i \in DOMAIN s : s[i] = Space, NEW chars, Space \in chars
  PROVE  Letters(s, chars) = <<>>
<1>1. ASSUME NEW i \in DOMAIN s PROVE Uppercase(s)[i] = Space
  <2>1. Uppercase(s)[i] = IF s[i] \in Lower THEN s[i] - 26 ELSE s[i]
    BY DEF Uppercase
  <2>2. s[i] = Space /\ Space \notin Lower
    BY DEF Lower, Space
  <2> QED BY <2>1, <2>2
<1>2. Uppercase(s) \in Seq(Characters) /\ DOMAIN Uppercase(s) = DOMAIN s
  BY UppercaseType DEF Uppercase
<1>3. \A i \in DOMAIN Uppercase(s) : Uppercase(s)[i] \in chars
  BY <1>1, <1>2
<1> QED BY <1>2, <1>3, WithoutAll DEF Letters

LEMMA LettersOfTrimmed ==
  ASSUME NEW s \in Seq(Characters), NEW chars, Space \in chars
  PROVE  Letters(Trim(s), chars) = Letters(s, chars) /\ Trim(s) \in Seq(Characters)
<1>1. PICK a \in Seq(Characters), b \in Seq(Characters) :
        /\ Trim(s) \in Seq(Characters) /\ s = Join(Join(a, Trim(s)), b)
        /\ \A i \in DOMAIN a : a[i] = Space
        /\ \A i \in DOMAIN b : b[i] = Space
  BY TrimParts
<1>2. Letters(a, chars) = <<>> /\ Letters(b, chars) = <<>>
  BY <1>1, LettersOfSpaces
<1>3. Letters(s, chars) = Join(Join(Letters(a, chars), Letters(Trim(s), chars)), Letters(b, chars))
  BY <1>1, LettersJoin, JoinType
<1>4. Letters(Trim(s), chars) \in Seq(Characters)
  BY <1>1, LettersType
<1> QED BY <1>1, <1>2, <1>3, <1>4, JoinEmpty
-----------------------------------------------------------------------------
(* A slip in a text, and what it does to what the parser keeps.            *)

\* Two sequences that are the same but for at most one element in the middle.
Slip(s, t, x, p, q, y) ==
  /\ s = Join(Join(x, p), y) /\ t = Join(Join(x, q), y)
  /\ Len(p) <= 1 /\ Len(q) <= 1

LEMMA PlaceParts ==
  ASSUME NEW T, NEW s \in Seq(T), NEW i \in DOMAIN s
  PROVE  /\ SubSeq(s, 1, i - 1) \in Seq(T) /\ << s[i] >> \in Seq(T)
         /\ SubSeq(s, i + 1, Len(s)) \in Seq(T)
         /\ s = Join(Join(SubSeq(s, 1, i - 1), << s[i] >>), SubSeq(s, i + 1, Len(s)))
<1>0. Len(s) \in Nat /\ i \in 1..Len(s) /\ s[i] \in T
  OBVIOUS
<1> DEFINE a == SubSeq(s, 1, i - 1)
           b == SubSeq(s, i + 1, Len(s))
           d == SubSeq(s, 1, i)
<1>1. a \in Seq(T) /\ b \in Seq(T) /\ d \in Seq(T)
  BY <1>0, SubSeqProperties
<1>2. d = Join(a, << s[i] >>)
  <2>1. 1 \in 1..Len(s) /\ i \in 1..Len(s)
    BY <1>0
  <2>2. SubSeq(s, 1, i) = SubSeq(s, 1, i - 1) \o << s[i] >>
    BY <2>1, SubSeqRecursiveSecond, Zenon
  <2> QED BY <2>2 DEF Join
<1>3. Join(d, b) = SubSeq(s, 1, Len(s))
  <2>1. 1 \in 1..(Len(s) + 1) /\ i \in (1 - 1)..Len(s) /\ Len(s) \in i..Len(s)
    BY <1>0
  <2>2. SubSeq(s, 1, i) \o SubSeq(s, i + 1, Len(s)) = SubSeq(s, 1, Len(s))
    BY <2>1, ConcatAdjacentSubSeq, Zenon
  <2> QED BY <2>2 DEF Join
<1>4. SubSeq(s, 1, Len(s)) = s
  BY SubSeqFull
<1>5. << s[i] >> \in Seq(T)
  BY <1>0
<1> HIDE DEF a, b, d
<1> QED BY <1>1, <1>2, <1>3, <1>4, <1>5 DEF a, b

LEMMA SlipOfReplaced ==
  ASSUME NEW T, NEW s \in Seq(T), NEW i \in DOMAIN s, NEW c \in T
  PROVE  \E x \in Seq(T), p \in Seq(T), q \in Seq(T), y \in Seq(T) :
           Slip(s, [s EXCEPT ![i] = c], x, p, q, y)
<1> DEFINE t == [s EXCEPT ![i] = c]
           x == SubSeq(s, 1, i - 1)
           y == SubSeq(s, i + 1, Len(s))
           p == << s[i] >>
           q == << c >>
<1>0. Len(s) \in Nat /\ i \in 1..Len(s)
  OBVIOUS
<1>1. x \in Seq(T) /\ p \in Seq(T) /\ y \in Seq(T) /\ s = Join(Join(x, p), y)
  BY PlaceParts
<1>2. t \in Seq(T) /\ Len(t) = Len(s) /\ t[i] = c /\ \A j \in 1..Len(s) : j # i => t[j] = s[j]
  BY <1>0, ExceptSeq
<1> HIDE DEF t
<1>3. i \in DOMAIN t
  BY <1>0, <1>2
<1>4. t = Join(Join(SubSeq(t, 1, i - 1), << t[i] >>), SubSeq(t, i + 1, Len(t)))
  BY <1>2, <1>3, PlaceParts
<1>5. SubSeq(t, 1, i - 1) = x
  <2>1. /\ SubSeq(t, 1, i - 1) = [j \in 1..(i - 1) |-> t[j]]
        /\ SubSeq(s, 1, i - 1) = [j \in 1..(i - 1) |-> s[j]]
    BY <1>0, <1>2
  <2>2. \A j \in 1..(i - 1) : t[j] = s[j]
    BY <1>0, <1>2
  <2> QED BY <2>1, <2>2
<1>6. SubSeq(t, i + 1, Len(t)) = y
  <2>1. /\ SubSeq(t, i + 1, Len(s)) = [j \in 1..(Len(s) - i) |-> t[j + i]]
        /\ SubSeq(s, i + 1, Len(s)) = [j \in 1..(Len(s) - i) |-> s[j + i]]
    BY <1>0, <1>2
  <2>2. ASSUME NEW j \in 1..(Len(s) - i) PROVE t[j + i] = s[j + i]
    <3>1. j + i \in 1..Len(s) /\ j + i # i
      BY <1>0
    <3> QED BY <3>1, <1>2
  <2> QED BY <2>1, <2>2, <1>2
<1>7. q \in Seq(T) /\ Len(p) <= 1 /\ Len(q) <= 1
  OBVIOUS
<1>8. t = Join(Join(x, q), y)
  BY <1>2, <1>4, <1>5, <1>6
<1> HIDE DEF x, y, p, q
<1>9. Slip(s, t, x, p, q, y)
  BY <1>1, <1>7, <1>8 DEF Slip
<1> QED BY <1>1, <1>7, <1>9 DEF t

LEMMA SlipOfRemoved ==
  ASSUME NEW T, NEW s \in Seq(T), NEW i \in DOMAIN s
  PROVE  \E x \in Seq(T), p \in Seq(T), q \in Seq(T), y \in Seq(T) :
           Slip(s, RemoveAt(s, i), x, p, q, y)
<1> DEFINE x == SubSeq(s, 1, i - 1)
           y == SubSeq(s, i + 1, Len(s))
           p == << s[i] >>
           q == <<>>
<1>1. x \in Seq(T) /\ p \in Seq(T) /\ y \in Seq(T) /\ s = Join(Join(x, p), y)
  BY PlaceParts
<1>2. q \in Seq(T) /\ Len(p) <= 1 /\ Len(q) <= 1
  OBVIOUS
<1>3. RemoveAt(s, i) = Join(x, y)
  BY DEF RemoveAt, Join
<1>4. Join(x, q) = x
  BY <1>1, JoinEmpty
<1> HIDE DEF x, y, p, q
<1>5. Slip(s, RemoveAt(s, i), x, p, q, y)
  BY <1>1, <1>2, <1>3, <1>4 DEF Slip
<1> QED BY <1>1, <1>2, <1>5

LEMMA NoneOrOne == \A n \in Nat : n <= 1 => n = 0 \/ n = 1
OBVIOUS

LEMMA WithoutOfFew ==
  ASSUME NEW u \in Seq(Characters), Len(u) <= 1, NEW chars
  PROVE  Without(u, chars) \in Seq(Characters) /\ Len(Without(u, chars)) <= 1
<1>1. Without(u, chars) \in Seq(Characters)
  BY SingleType
<1>4. Len(u) \in Nat
  OBVIOUS
<1>5. CASE Len(u) = 0
  <2>1. \A i \in DOMAIN u : u[i] \in chars
    BY <1>4, <1>5
  <2>2. Without(u, chars) = <<>>
    BY <1>4, <2>1, WithoutAll
  <2> QED BY <2>2, <1>1
<1>6. CASE Len(u) = 1
  <2>1. u = << u[1] >> /\ u[1] \in Characters
    BY <1>4, <1>6
  <2>2. Without(<< u[1] >>, chars) = IF u[1] \in chars THEN <<>> ELSE << u[1] >>
    BY <2>1, WithoutOne
  <2>3. Len(<<>>) <= 1 /\ Len(<< u[1] >>) <= 1
    OBVIOUS
  <2> QED BY <2>1, <2>2, <2>3, <1>1
<1> QED BY <1>4, <1>5, <1>6, NoneOrOne, Zenon

LEMMA LettersOfFew ==
  ASSUME NEW p \in Seq(Characters), Len(p) <= 1, NEW chars
  PROVE  Letters(p, chars) \in Seq(Characters) /\ Len(Letters(p, chars)) <= 1
<1>1. Uppercase(p) \in Seq(Characters) /\ Len(Uppercase(p)) <= 1
  BY UppercaseType
<1> QED BY <1>1, WithoutOfFew DEF Letters

LEMMA SlipOfLetters ==
  ASSUME NEW s, NEW t, NEW x \in Seq(Characters), NEW p \in Seq(Characters),
         NEW q \in Seq(Characters), NEW y \in Seq(Characters),
         Slip(s, t, x, p, q, y), NEW chars
  PROVE  Slip(Letters(s, chars), Letters(t, chars), Letters(x, chars), Letters(p, chars),
              Letters(q, chars), Letters(y, chars))
<1>1. /\ Letters(Join(Join(x, p), y), chars)
           = Join(Join(Letters(x, chars), Letters(p, chars)), Letters(y, chars))
      /\ Letters(Join(Join(x, q), y), chars)
           = Join(Join(Letters(x, chars), Letters(q, chars)), Letters(y, chars))
  BY LettersJoin, JoinType
<1>2. Len(p) <= 1 /\ Len(q) <= 1
  BY DEF Slip
<1>3. Len(Letters(p, chars)) <= 1 /\ Len(Letters(q, chars)) <= 1
  BY <1>2, LettersOfFew
<1> QED BY <1>1, <1>3 DEF Slip

\* The two texts that a user means and types.
IsSlip(s, t) ==
  \E x \in Seq(Characters), p \in Seq(Characters), q \in Seq(Characters), y \in Seq(Characters) :
    Slip(s, t, x, p, q, y)

\* Of the same length and not the same, they differ in one place.
OneApart(s, t, j) ==
  j \in DOMAIN s /\ s[j] # t[j] /\ \A i \in DOMAIN s \ {j} : s[i] = t[i]

LEMMA SlipIsOneApart ==
  ASSUME NEW s, NEW t, IsSlip(s, t), s # t, Len(s) = Len(t)
  PROVE  s \in Seq(Characters) /\ t \in Seq(Characters) /\ \E j : OneApart(s, t, j)
<1>0. PICK x \in Seq(Characters), p \in Seq(Characters), q \in Seq(Characters), y \in Seq(Characters) :
        Slip(s, t, x, p, q, y)
  BY DEF IsSlip
<1> DEFINE xp == Join(x, p)
           xq == Join(x, q)
           n == Len(x)
<1>1. /\ xp \in Seq(Characters) /\ xq \in Seq(Characters) /\ s = Join(xp, y) /\ t = Join(xq, y)
      /\ Len(xp) = n + Len(p) /\ Len(xq) = n + Len(q)
      /\ n \in Nat /\ Len(p) \in Nat /\ Len(q) \in Nat /\ Len(y) \in Nat
      /\ Len(p) <= 1 /\ Len(q) <= 1
      /\ \A i \in 1..n : xp[i] = x[i] /\ xq[i] = x[i]
      /\ \A i \in (n + 1)..(n + Len(p)) : xp[i] = p[i - n]
      /\ \A i \in (n + 1)..(n + Len(q)) : xq[i] = q[i - n]
  BY <1>0, JoinType, JoinAt DEF Slip
<1> HIDE DEF xp, xq, n
<1>2. /\ s \in Seq(Characters) /\ t \in Seq(Characters)
      /\ Len(s) = Len(xp) + Len(y) /\ Len(t) = Len(xq) + Len(y)
      /\ \A i \in 1..Len(xp) : s[i] = xp[i]
      /\ \A i \in 1..Len(xq) : t[i] = xq[i]
      /\ \A i \in (Len(xp) + 1)..(Len(xp) + Len(y)) : s[i] = y[i - Len(xp)]
      /\ \A i \in (Len(xq) + 1)..(Len(xq) + Len(y)) : t[i] = y[i - Len(xq)]
  <2>1. s \in Seq(Characters) /\ t \in Seq(Characters)
    BY <1>1, JoinType
  <2>2. /\ Len(s) = Len(xp) + Len(y)
        /\ \A i \in 1..Len(xp) : s[i] = xp[i]
        /\ \A i \in (Len(xp) + 1)..(Len(xp) + Len(y)) : s[i] = y[i - Len(xp)]
    <3>1. xp \in Seq(Characters) /\ s = Join(xp, y)
      BY <1>1
    <3> QED BY <3>1, JoinAt
  <2>3. /\ Len(t) = Len(xq) + Len(y)
        /\ \A i \in 1..Len(xq) : t[i] = xq[i]
        /\ \A i \in (Len(xq) + 1)..(Len(xq) + Len(y)) : t[i] = y[i - Len(xq)]
    <3>1. xq \in Seq(Characters) /\ t = Join(xq, y)
      BY <1>1
    <3> QED BY <3>1, JoinAt
  <2> QED BY <2>1, <2>2, <2>3
<1>3. Len(p) = Len(q)
  BY <1>1, <1>2
<1>4. CASE Len(p) = 0
  <2>1. ASSUME NEW i \in 1..Len(s) PROVE s[i] = t[i]
    <3>1. Len(xp) = n /\ Len(xq) = n
      BY <1>1, <1>3, <1>4
    <3>2. CASE i <= n
      <4>1. i \in 1..n
        BY <3>2, <1>1
      <4> QED BY <4>1, <3>1, <1>1, <1>2
    <3>3. CASE ~(i <= n)
      <4>1. i \in (n + 1)..(n + Len(y))
        BY <3>1, <3>3, <1>1, <1>2
      <4> QED BY <4>1, <3>1, <1>2
    <3> QED BY <3>2, <3>3
  <2>2. s = t
    BY <1>2, <2>1, SeqEqual
  <2> QED BY <2>2
<1>5. CASE Len(p) = 1
  <2>0. Len(xp) = n + 1 /\ Len(xq) = n + 1 /\ Len(s) = (n + 1) + Len(y)
    BY <1>1, <1>2, <1>3, <1>5
  <2>1. ASSUME NEW i \in 1..Len(s), i # n + 1 PROVE s[i] = t[i]
    <3>1. CASE i <= n
      <4>1. i \in 1..n /\ i \in 1..(n + 1)
        BY <3>1, <1>1
      <4> QED BY <4>1, <2>0, <1>1, <1>2
    <3>2. CASE ~(i <= n)
      <4>1. i \in ((n + 1) + 1)..((n + 1) + Len(y))
        BY <2>0, <2>1, <3>2, <1>1
      <4> QED BY <4>1, <2>0, <1>2
    <3> QED BY <3>1, <3>2
  <2>2. s[n + 1] # t[n + 1]
    <3>1. ASSUME s[n + 1] = t[n + 1] PROVE FALSE
      <4>1. \A i \in 1..Len(s) : s[i] = t[i]
        BY <2>1, <3>1
      <4>2. s = t
        BY <1>2, <4>1, SeqEqual
      <4> QED BY <4>2
    <3> QED BY <3>1
  <2>3. DOMAIN s = 1..Len(s) /\ n + 1 \in 1..Len(s)
    BY <1>1, <1>2, <2>0
  <2>4. OneApart(s, t, n + 1)
    BY <2>1, <2>2, <2>3 DEF OneApart
  <2> QED BY <1>2, <2>4
<1> QED BY <1>1, <1>4, <1>5, NoneOrOne, Zenon
-----------------------------------------------------------------------------
(* What the parsers keep, and when it is canonical.                        *)

\* What a pattern captures of a text is its letters, in the pattern's classes.
Fits(k, classes) == Len(k) = Len(classes) /\ \A i \in DOMAIN k : k[i] \in classes[i]

LEMMA PatternKeeps ==
  ASSUME NEW pattern, NEW capacity, NEW s \in Seq(Characters),
         ParsePattern(pattern, s, capacity) # None
  PROVE  LET k == Letters(s, Separators)
         IN  /\ ParsePattern(pattern, s, capacity) = Some(k) /\ k \in Seq(Characters)
             /\ Fits(k, pattern.classes) /\ Bytes(k) <= capacity
<1> DEFINE u == Uppercase(Trim(s))
           found == Match(pattern, u)
           k == Letters(s, Separators)
           kept == Without(u, Separators)
<1>1. found # None /\ Bounded(found[1], capacity) # None
      /\ ParsePattern(pattern, s, capacity) = Bounded(found[1], capacity)
  BY DEF ParsePattern, None
<1>2. found = Some(kept) /\ Fits(kept, pattern.classes)
  <2>1. found # None
    BY <1>1
  <2> QED BY <2>1 DEF Match, Fits
<1>3. kept = k
  <2>1. Space \in Separators
    BY DEF Separators
  <2>2. Letters(Trim(s), Separators) = Letters(s, Separators)
    BY <2>1, LettersOfTrimmed
  <2> QED BY <2>2 DEF Letters
<1> HIDE DEF found, kept
<1>4. found[1] = kept
  BY <1>2 DEF Some
<1>5. Bytes(kept) <= capacity /\ Bounded(kept, capacity) = Some(kept)
  BY <1>1, <1>4 DEF Bounded
<1>6. k \in Seq(Characters)
  BY LettersType
<1> QED BY <1>1, <1>2, <1>3, <1>4, <1>5, <1>6

LEMMA BytesAtLeast ==
  ASSUME NEW s \in Seq(Characters)
  PROVE  /\ Bytes(s) \in Nat /\ Len(s) <= Bytes(s)
         /\ Bytes(s) = Len(s) <=> \A i \in DOMAIN s : s[i] # WideDigit
<1> DEFINE wide == {i \in DOMAIN s : s[i] = WideDigit}
<1>1. Len(s) \in Nat /\ DOMAIN s = 1..Len(s)
  OBVIOUS
<1>2. IsFiniteSet(wide)
  <2>1. IsFiniteSet(1..Len(s))
    BY <1>1, FS_Interval
  <2>2. wide \subseteq 1..Len(s)
    BY <1>1
  <2> QED BY <2>1, <2>2, FS_Subset
<1>3. Cardinality(wide) \in Nat /\ (Cardinality(wide) = 0 <=> wide = {})
  BY <1>2, FS_CardinalityType, FS_EmptySet
<1>4. Bytes(s) = Len(s) + Cardinality(wide)
  BY DEF Bytes
<1>5. wide = {} <=> \A i \in DOMAIN s : s[i] # WideDigit
  OBVIOUS
<1> HIDE DEF wide
<1> QED BY <1>1, <1>3, <1>4, <1>5

\* A text of few enough bytes for its length has no wide digit.
LEMMA NoWideDigit ==
  ASSUME NEW s \in Seq(Characters), Bytes(s) <= Len(s)
  PROVE  Bytes(s) = Len(s) /\ \A i \in DOMAIN s : s[i] # WideDigit
<1>1. Bytes(s) \in Nat /\ Len(s) \in Nat /\ Len(s) <= Bytes(s)
  BY BytesAtLeast
<1>2. Bytes(s) = Len(s)
  BY <1>1
<1> QED BY <1>2, BytesAtLeast

LEMMA ClassesLen ==
  /\ Len(IsniPattern.classes) = 16
  /\ \A i \in 1..15 : IsniPattern.classes[i] = AnyDigit
  /\ IsniPattern.classes[16] = AnyDigit \cup {LetterX}
<1> DEFINE a == Times(15, AnyDigit)
           b == << AnyDigit \cup {LetterX} >>
           T == SUBSET (AnyDigit \cup {LetterX})
<1>1. /\ a \in Seq(T) /\ Len(a) = 15 /\ \A i \in 1..15 : a[i] = AnyDigit
      /\ b \in Seq(T) /\ Len(b) = 1 /\ b[1] = AnyDigit \cup {LetterX}
  <2>1. a = [i \in 1..15 |-> AnyDigit]
    BY DEF Times
  <2> HIDE DEF a
  <2>2. AnyDigit \in T /\ AnyDigit \cup {LetterX} \in T
    OBVIOUS
  <2> HIDE DEF T
  <2> QED BY <2>1, <2>2
<1>2. IsniPattern.classes = Join(a, b)
  BY DEF IsniPattern, Pattern, Join
<1> HIDE DEF a, b, T
<1>3. /\ Len(Join(a, b)) = 15 + 1
      /\ \A i \in 1..15 : Join(a, b)[i] = a[i]
      /\ \A i \in (15 + 1)..(15 + 1) : Join(a, b)[i] = b[i - 15]
  <2>1. /\ Len(Join(a, b)) = Len(a) + Len(b)
        /\ \A i \in 1..Len(a) : Join(a, b)[i] = a[i]
        /\ \A i \in (Len(a) + 1)..(Len(a) + Len(b)) : Join(a, b)[i] = b[i - Len(a)]
    <3>1. a \in Seq(T) /\ b \in Seq(T)
      BY <1>1
    <3> QED BY <3>1, JoinAt, Zenon
  <2>2. Len(a) = 15 /\ Len(b) = 1
    BY <1>1
  <2> QED BY <2>1, <2>2
<1>4. 16 \in (15 + 1)..(15 + 1) /\ 16 - 15 = 1
  OBVIOUS
<1> QED BY <1>1, <1>2, <1>3, <1>4

LEMMA IsniKept ==
  ASSUME NEW s \in Seq(Characters), ParseIsni(s) # None
  PROVE  LET k == Letters(s, Separators)
         IN  /\ ParseIsni(s) = Some(k) /\ k \in Seq(Characters)
             /\ ValidateIsni(k) = Ok /\ Len(k) = 16
<1> DEFINE k == Letters(s, Separators)
<1>1. /\ ParsePattern(IsniPattern, s, 16) = Some(k) /\ k \in Seq(Characters)
      /\ Fits(k, IsniPattern.classes) /\ Bytes(k) <= 16
  BY PatternKeeps DEF ParseIsni
<1> HIDE DEF k
<1>2. Len(k) = 16 /\ DOMAIN k = 1..16
  BY <1>1, ClassesLen DEF Fits
<1>3. Bytes(k) = 16 /\ \A i \in DOMAIN k : k[i] # WideDigit
  BY <1>1, <1>2, NoWideDigit
<1>4. \A i \in 1..15 : k[i] \in Digits
  <2> TAKE i \in 1..15
  <2>1. i \in DOMAIN k
    BY <1>2
  <2>2. k[i] \in IsniPattern.classes[i]
    <3>1. \A m \in DOMAIN k : k[m] \in IsniPattern.classes[m]
      BY <1>1 DEF Fits
    <3> QED BY <2>1, <3>1, Zenon
  <2>3. k[i] \in AnyDigit
    BY <2>2, ClassesLen, Zenon
  <2> QED BY <2>1, <2>3, <1>3 DEF AnyDigit
<1>5. k[16] \in Digits \cup {LetterX}
  <2>1. k[16] \in AnyDigit \cup {LetterX} /\ k[16] # WideDigit
    <3>1. 16 \in DOMAIN k
      BY <1>2
    <3>2. k[16] \in IsniPattern.classes[16]
      <4>1. \A i \in DOMAIN k : k[i] \in IsniPattern.classes[i]
        BY <1>1 DEF Fits
      <4> QED BY <3>1, <4>1, Zenon
    <3>3. k[16] \in AnyDigit \cup {LetterX}
      BY <3>2, ClassesLen, Zenon
    <3> QED BY <3>1, <3>3, <1>3
  <2> QED BY <2>1 DEF AnyDigit
<1>6. AllIn(k, 1, 15, Digits) /\ AllIn(k, 16, 16, Digits \cup {LetterX})
  <2>1. DOMAIN k \cap 1..15 \subseteq 1..15 /\ DOMAIN k \cap 16..16 \subseteq {16}
    BY <1>2
  <2> QED BY <2>1, <1>4, <1>5 DEF AllIn
<1>7. ValidateIsni(k) = Ok
  BY <1>3, <1>6 DEF ValidateIsni
<1> QED BY <1>1, <1>2, <1>7 DEF ParseIsni, k

LEMMA UpcKept ==
  ASSUME NEW s \in Seq(Characters), ParseUpc(s) # None
  PROVE  LET k == Without(s, {Space, Dash})
         IN  ParseUpc(s) = Some(k) /\ k \in Seq(Characters) /\ ValidateUpc(k) = Ok
<1>1. Without(s, {Space, Dash}) \in Seq(Characters)
  BY SingleType
<1> QED BY <1>1 DEF ParseUpc

\* A canonical UPC: twelve or thirteen digits.
LEMMA UpcDigits ==
  ASSUME NEW k \in Seq(Characters), ValidateUpc(k) = Ok
  PROVE  Len(k) \in {12, 13} /\ \A i \in 1..Len(k) : k[i] \in Digits
<1>1. Bytes(k) \in {12, 13} /\ AllIn(k, 1, Len(k), Digits)
  BY DEF ValidateUpc, ValidateDigits, Ok, OutOfBounds, InvalidCharset
<1>2. Len(k) \in Nat /\ DOMAIN k = 1..Len(k)
  OBVIOUS
<1>3. \A i \in 1..Len(k) : k[i] \in Digits
  BY <1>1, <1>2 DEF AllIn
<1>4. \A i \in DOMAIN k : k[i] # WideDigit
  BY <1>2, <1>3 DEF Digits, WideDigit
<1>5. Bytes(k) = Len(k)
  BY <1>4, BytesAtLeast
<1> QED BY <1>1, <1>3, <1>5

LEMMA IsniDigits ==
  ASSUME NEW k \in Seq(Characters), ValidateIsni(k) = Ok, Len(k) = 16
  PROVE  (\A i \in 1..15 : k[i] \in Digits) /\ k[16] \in Digits \cup {LetterX}
<1>1. AllIn(k, 1, 15, Digits) /\ AllIn(k, 16, 16, Digits \cup {LetterX})
  BY DEF ValidateIsni, Ok, OutOfBounds, InvalidCharset
<1>2. DOMAIN k = 1..16
  OBVIOUS
<1> QED BY <1>1, <1>2 DEF AllIn

-----------------------------------------------------------------------------
(* UPC: the weights 1 and 3 have inverses modulo ten.                      *)

Odd3(n, i) == IF (n - 1 - i) % 2 = 0 THEN 3 ELSE 1
Weighed(k) == [i \in 1..(Len(k) - 1) |-> k[i] * Odd3(Len(k), i)]

LEMMA WeighedType ==
  ASSUME NEW n \in {12, 13}, NEW k \in Seq(Characters), Len(k) = n,
         \A i \in 1..n : k[i] \in Digits
  PROVE  /\ Weighed(k) \in [1..(n - 1) -> Int] /\ IsFiniteSet(1..(n - 1))
         /\ \A i \in 1..(n - 1) : Weighed(k)[i] = k[i] * Odd3(n, i) /\ Odd3(n, i) \in {1, 3}
<1>1. ASSUME NEW i \in 1..(n - 1) PROVE k[i] * Odd3(n, i) \in Int /\ Odd3(n, i) \in {1, 3}
  <2>1. i \in 1..n /\ k[i] \in 0..9
    BY DEF Digits
  <2>2. Odd3(n, i) \in {1, 3}
    BY DEF Odd3
  <2>3. CASE Odd3(n, i) = 1
    BY <2>1, <2>3
  <2>4. CASE Odd3(n, i) = 3
    BY <2>1, <2>4
  <2> QED BY <2>2, <2>3, <2>4
<1>2. Weighed(k) = [i \in 1..(n - 1) |-> k[i] * Odd3(n, i)]
  BY DEF Weighed
<1>3. IsFiniteSet(1..(n - 1))
  <2>1. n - 1 \in Int
    OBVIOUS
  <2> QED BY <2>1, FS_Interval
<1> QED BY <1>1, <1>2, <1>3

LEMMA VerifyUpcIs ==
  ASSUME NEW k \in Seq(Characters), ValidateUpc(k) = Ok
  PROVE  VerifyUpc(k) = Checked(k[Len(k)], Complement10(SumFunction(Weighed(k))))
BY DEF VerifyUpc, Weighed, Odd3, Last

\* Two digits that differ, weighed the same, differ modulo ten.
LEMMA TenApart ==
  ASSUME NEW a \in Digits, NEW b \in Digits, a # b, NEW w \in {1, 3}, NEW s \in Int
  PROVE  Complement10(s) # Complement10(s - a * w + b * w)
<1>1. a \in 0..9 /\ b \in 0..9
  BY DEF Digits
<1>2. CASE w = 1
  BY <1>1, <1>2, SMTT(30) DEF Complement10
<1>3. CASE w = 3
  BY <1>1, <1>3, SMTT(30) DEF Complement10
<1> QED BY <1>2, <1>3

\* One digit of a UPC that changes makes its check digit wrong.
LEMMA UpcSlipFails ==
  ASSUME NEW k \in Seq(Characters), NEW m \in Seq(Characters),
         ValidateUpc(k) = Ok, ValidateUpc(m) = Ok, Len(k) = Len(m),
         NEW j, OneApart(k, m, j), VerifyUpc(k) = "Pass"
  PROVE  VerifyUpc(m) = "Fail"
<1> DEFINE n == Len(k)
           wk == Weighed(k)
           wm == Weighed(m)
<1>1. /\ n \in {12, 13} /\ Len(m) = n
      /\ \A i \in 1..n : k[i] \in Digits
      /\ \A i \in 1..n : m[i] \in Digits
  BY UpcDigits
<1>2. j \in 1..n /\ k[j] # m[j] /\ \A i \in 1..n : i # j => k[i] = m[i]
  <2>1. DOMAIN k = 1..n
    OBVIOUS
  <2>2. j \in DOMAIN k /\ k[j] # m[j] /\ \A i \in DOMAIN k \ {j} : k[i] = m[i]
    BY DEF OneApart
  <2> HIDE DEF n
  <2> QED BY <2>1, <2>2
<1> HIDE DEF n
<1>3. /\ VerifyUpc(k) = Checked(k[n], Complement10(SumFunction(wk)))
      /\ VerifyUpc(m) = Checked(m[n], Complement10(SumFunction(wm)))
  BY <1>1, VerifyUpcIs DEF n
<1>4. k[n] = Complement10(SumFunction(wk))
  BY <1>3 DEF Checked
<1> SUFFICES m[n] # Complement10(SumFunction(wm))
  BY <1>3 DEF Checked
<1>5. Len(k) = n /\ Len(m) = n
  BY <1>1 DEF n
<1>6. /\ wk \in [1..(n - 1) -> Int] /\ wm \in [1..(n - 1) -> Int] /\ IsFiniteSet(1..(n - 1))
      /\ \A i \in 1..(n - 1) : wk[i] = k[i] * Odd3(n, i) /\ Odd3(n, i) \in {1, 3}
      /\ \A i \in 1..(n - 1) : wm[i] = m[i] * Odd3(n, i)
  BY <1>1, <1>5, WeighedType
<1> HIDE DEF wk, wm
<1>7. CASE j = n
  <2>1. \A i \in 1..(n - 1) : wm[i] = wk[i]
    <3>1. \A i \in 1..(n - 1) : k[i] = m[i]
      BY <1>1, <1>2, <1>7
    <3> QED BY <3>1, <1>6
  <2>2. wm = wk
    <3>1. wk = [i \in 1..(n - 1) |-> wk[i]] /\ wm = [i \in 1..(n - 1) |-> wm[i]]
      BY <1>6
    <3>2. [i \in 1..(n - 1) |-> wk[i]] = [i \in 1..(n - 1) |-> wm[i]]
      BY <2>1
    <3> QED BY <3>1, <3>2, Zenon
  <2> QED BY <2>2, <1>2, <1>4, <1>7
<1>8. CASE j # n
  <2>1. j \in 1..(n - 1) /\ k[j] \in Digits /\ m[j] \in Digits /\ m[n] = k[n]
    BY <1>1, <1>2, <1>8
  <2>2. \A i \in (1..(n - 1)) \ {j} : wm[i] = wk[i]
    <3>1. \A i \in (1..(n - 1)) \ {j} : k[i] = m[i]
      BY <1>1, <1>2
    <3> QED BY <3>1, <1>6
  <2>3. SumFunction(wk) \in Int /\ SumFunction(wm) = SumFunction(wk) - wk[j] + wm[j]
    <3> DEFINE S == 1..(n - 1)
    <3>1. /\ IsFiniteSet(S) /\ j \in S /\ wk \in [S -> Int] /\ wm \in [S -> Int]
          /\ \A i \in S \ {j} : wm[i] = wk[i]
      BY <1>6, <2>1, <2>2
    <3> HIDE DEF S
    <3> QED BY <3>1, SumUpdate, ZenonT(30)
  <2>4. wk[j] = k[j] * Odd3(n, j) /\ wm[j] = m[j] * Odd3(n, j) /\ Odd3(n, j) \in {1, 3}
    BY <1>6, <2>1
  <2>5. Complement10(SumFunction(wk)) # Complement10(SumFunction(wk) - k[j] * Odd3(n, j) + m[j] * Odd3(n, j))
    BY <1>2, <2>1, <2>3, <2>4, TenApart
  <2> QED BY <1>4, <2>1, <2>3, <2>4, <2>5
<1> QED BY <1>7, <1>8

-----------------------------------------------------------------------------
(* ISNI: doubling modulo eleven has an inverse.                            *)

Doubled(a, d) == ((a + d) * 2) % 11
IsniRun(r, s) == r = [i \in 0..15 |-> IF i = 0 THEN 0 ELSE Doubled(r[i - 1], s[i])]

LEMMA ElevenApart ==
  ASSUME NEW a \in 0..10, NEW b \in 0..10, NEW d \in 0..9, NEW e \in 0..9,
         (a = b /\ d # e) \/ (a # b /\ d = e)
  PROVE  Doubled(a, d) # Doubled(b, e)
<1>1. CASE a = b /\ d # e
  BY <1>1, SMTT(30) DEF Doubled
<1>2. CASE a # b /\ d = e
  BY <1>2, SMTT(30) DEF Doubled
<1> QED BY <1>1, <1>2

LEMMA DoubledType == \A a \in Nat, d \in Nat : Doubled(a, d) \in 0..10
BY DEF Doubled

LEMMA IsniRunExists ==
  ASSUME NEW s
  PROVE  \E r : IsniRun(r, s)
<1> DEFINE Step(r, i) == IF i = 0 THEN 0 ELSE Doubled(r[i - 1], s[i])
           Has(k) == \E r : r = [i \in 0..k |-> Step(r, i)]
<1>1. Has(0)
  <2> DEFINE r == [i \in 0..0 |-> 0]
  <2>1. r = [i \in 0..0 |-> Step(r, i)]
    OBVIOUS
  <2> QED BY <2>1
<1>2. ASSUME NEW k \in Nat, Has(k) PROVE Has(k + 1)
  <2>1. PICK f : f = [i \in 0..k |-> Step(f, i)]
    BY <1>2
  <2> DEFINE g == [i \in 0..(k + 1) |-> IF i = k + 1 THEN Step(f, i) ELSE f[i]]
  <2>2. ASSUME NEW i \in 0..(k + 1) PROVE g[i] = Step(g, i)
    <3>1. CASE i = 0
      <4>1. 0 # k + 1 /\ 0 \in 0..k /\ g[i] = f[0]
        BY <3>1
      <4>2. f[0] = Step(f, 0)
        BY <4>1, <2>1
      <4> QED BY <3>1, <4>1, <4>2
    <3>2. CASE i # 0
      <4>1. i - 1 \in 0..k /\ i - 1 \in 0..(k + 1) /\ i - 1 # k + 1
        BY <3>2
      <4>2. g[i - 1] = f[i - 1]
        BY <4>1
      <4>3. Step(f, i) = Step(g, i)
        BY <4>2
      <4>4. CASE i = k + 1
        BY <4>3, <4>4
      <4>5. CASE i # k + 1
        <5>1. i \in 0..k /\ g[i] = f[i]
          BY <4>5
        <5>2. f[i] = Step(f, i)
          BY <5>1, <2>1
        <5> QED BY <4>3, <5>1, <5>2
      <4> QED BY <4>4, <4>5
    <3> QED BY <3>1, <3>2
  <2>3. g = [i \in 0..(k + 1) |-> Step(g, i)]
    <3>1. [i \in 0..(k + 1) |-> g[i]] = [i \in 0..(k + 1) |-> Step(g, i)]
      BY <2>2
    <3>2. g = [i \in 0..(k + 1) |-> g[i]]
      OBVIOUS
    <3> QED BY <3>1, <3>2, Zenon
  <2> QED BY <2>3
<1> DEFINE All == {k \in Nat : Has(k)}
<1> HIDE DEF Has
<1>3. 0 \in All /\ \A k \in Nat : k \in All => k + 1 \in All
  BY <1>1, <1>2
<1>4. 15 \in All
  <2> HIDE DEF All
  <2>1. Nat \subseteq All
    BY <1>3, EveryNatural
  <2> QED BY <2>1
<1>5. Has(15)
  BY <1>4
<1> QED BY <1>5 DEF Has, IsniRun

LEMMA IsniCheckIs ==
  ASSUME NEW s
  PROVE  \E r : IsniRun(r, s) /\ IsniCheck(s) = (12 - r[15]) % 11
<1> DEFINE r == CHOOSE r : r = [i \in 0..15 |-> IF i = 0 THEN 0 ELSE ((r[i - 1] + s[i]) * 2) % 11]
<1>1. r = [i \in 0..15 |-> IF i = 0 THEN 0 ELSE ((r[i - 1] + s[i]) * 2) % 11]
  BY IsniRunExists DEF IsniRun, Doubled
<1>2. IsniCheck(s) = (12 - r[15]) % 11
  BY DEF IsniCheck
<1> HIDE DEF r
<1>3. IsniRun(r, s)
  BY <1>1 DEF IsniRun, Doubled
<1> QED BY <1>2, <1>3

LEMMA IsniRunType ==
  ASSUME NEW s, NEW r, IsniRun(r, s), \A i \in 1..15 : s[i] \in Digits
  PROVE  /\ \A i \in 0..15 : r[i] \in 0..10
         /\ r[0] = 0 /\ \A i \in 1..15 : r[i] = Doubled(r[i - 1], s[i])
<1>1. r[0] = 0 /\ \A i \in 1..15 : r[i] = Doubled(r[i - 1], s[i])
  BY DEF IsniRun
<1> DEFINE All == {k \in Nat : k \in 0..15 => r[k] \in 0..10}
<1>2. 0 \in All
  BY <1>1
<1>3. ASSUME NEW k \in Nat, k \in All PROVE k + 1 \in All
  <2> SUFFICES ASSUME k + 1 \in 0..15 PROVE r[k + 1] \in 0..10
    OBVIOUS
  <2>1. k \in 0..15 /\ k + 1 \in 1..15 /\ (k + 1) - 1 = k
    OBVIOUS
  <2>2. r[k] \in Nat /\ s[k + 1] \in Nat
    BY <1>3, <2>1 DEF Digits
  <2> QED BY <1>1, <2>1, <2>2, DoubledType
<1> HIDE DEF All
<1>4. Nat \subseteq All
  BY <1>2, <1>3, EveryNatural
<1>5. \A i \in 0..15 : i \in All
  BY <1>4
<1> QED BY <1>1, <1>5 DEF All

DigitsRun(r, s) == IsniRun(r, s) /\ \A i \in 1..15 : s[i] \in Digits

ChangedAt(s, t, j) == (\A i \in 1..15 : i # j => s[i] = t[i]) /\ (j <= 15 => s[j] # t[j])

\* Once apart, the remainders stay apart.
LEMMA IsniRunsApart ==
  ASSUME NEW s, NEW t, NEW r, NEW q, DigitsRun(r, s), DigitsRun(q, t),
         NEW j \in 1..16, ChangedAt(s, t, j)
  PROVE  IF j = 16 THEN r[15] = q[15] ELSE r[15] # q[15]
<1>0. /\ IsniRun(r, s) /\ IsniRun(q, t)
      /\ \A i \in 1..15 : s[i] \in Digits
      /\ \A i \in 1..15 : t[i] \in Digits
      /\ \A i \in 1..15 : i # j => s[i] = t[i]
      /\ j <= 15 => s[j] # t[j]
  BY DEF DigitsRun, ChangedAt
<1>1. /\ \A i \in 0..15 : r[i] \in 0..10
      /\ r[0] = 0 /\ \A i \in 1..15 : r[i] = Doubled(r[i - 1], s[i])
  BY <1>0, IsniRunType
<1>2. /\ \A i \in 0..15 : q[i] \in 0..10
      /\ q[0] = 0 /\ \A i \in 1..15 : q[i] = Doubled(q[i - 1], t[i])
  BY <1>0, IsniRunType
<1> DEFINE Same(k) == IF k < j THEN r[k] = q[k] ELSE r[k] # q[k]
           All == {k \in Nat : k \in 0..15 => Same(k)}
<1>3. 0 \in All
  BY <1>1, <1>2
<1>4. ASSUME NEW k \in Nat, k \in All PROVE k + 1 \in All
  <2> SUFFICES ASSUME k + 1 \in 0..15 PROVE Same(k + 1)
    OBVIOUS
  <2>1. k \in 0..15 /\ k + 1 \in 1..15 /\ (k + 1) - 1 = k /\ Same(k)
    BY <1>4
  <2>2. /\ r[k + 1] = Doubled(r[k], s[k + 1]) /\ q[k + 1] = Doubled(q[k], t[k + 1])
        /\ r[k] \in 0..10 /\ q[k] \in 0..10
        /\ s[k + 1] \in 0..9 /\ t[k + 1] \in 0..9
    BY <1>0, <1>1, <1>2, <2>1 DEF Digits
  <2>3. CASE k + 1 < j
    <3>1. r[k] = q[k] /\ s[k + 1] = t[k + 1]
      BY <1>0, <2>1, <2>3
    <3> QED BY <2>2, <2>3, <3>1
  <2>4. CASE k + 1 = j
    <3>1. r[k] = q[k] /\ s[k + 1] # t[k + 1]
      BY <1>0, <2>1, <2>4
    <3>2. r[k + 1] # q[k + 1]
      BY <2>2, <3>1, ElevenApart
    <3> QED BY <2>4, <3>2
  <2>5. CASE j < k + 1
    <3>1. r[k] # q[k] /\ s[k + 1] = t[k + 1]
      BY <1>0, <2>1, <2>5
    <3>2. r[k + 1] # q[k + 1]
      BY <2>2, <3>1, ElevenApart
    <3> QED BY <2>5, <3>2
  <2> QED BY <2>3, <2>4, <2>5
<1> HIDE DEF All, Same
<1>5. Nat \subseteq All
  BY <1>3, <1>4, EveryNatural
<1>6. Same(15)
  BY <1>5 DEF All
<1> QED BY <1>6 DEF Same

LEMMA ElevenComplement ==
  ASSUME NEW a \in 0..10, NEW b \in 0..10, a # b
  PROVE  (12 - a) % 11 # (12 - b) % 11
BY SMTT(30)

IsniValue(k) == IF k[16] = LetterX THEN 10 ELSE k[16]

\* One character of an ISNI that changes makes its check digit wrong.
LEMMA IsniSlipFails ==
  ASSUME NEW k \in Seq(Characters), NEW m \in Seq(Characters), Len(k) = 16, Len(m) = 16,
         ValidateIsni(k) = Ok, ValidateIsni(m) = Ok,
         NEW j, OneApart(k, m, j), VerifyIsni(k) = "Pass"
  PROVE  VerifyIsni(m) = "Fail"
<1>1. /\ \A i \in 1..15 : k[i] \in Digits
      /\ \A i \in 1..15 : m[i] \in Digits
      /\ k[16] \in Digits \cup {LetterX} /\ m[16] \in Digits \cup {LetterX}
  BY IsniDigits
<1>2. DOMAIN k = 1..16
  OBVIOUS
<1>3. j \in 1..16 /\ k[j] # m[j] /\ \A i \in 1..16 : i # j => k[i] = m[i]
  BY <1>2 DEF OneApart
<1>4. PICK r : IsniRun(r, k) /\ IsniCheck(k) = (12 - r[15]) % 11
  BY IsniCheckIs
<1>5. PICK q : IsniRun(q, m) /\ IsniCheck(m) = (12 - q[15]) % 11
  BY IsniCheckIs
<1>6. r[15] \in 0..10 /\ q[15] \in 0..10
  <2>1. (\A i \in 0..15 : r[i] \in 0..10) /\ (\A i \in 0..15 : q[i] \in 0..10)
    BY <1>1, <1>4, <1>5, IsniRunType
  <2> QED BY <2>1
<1>7. IF j = 16 THEN r[15] = q[15] ELSE r[15] # q[15]
  <2>1. ChangedAt(k, m, j)
    BY <1>3 DEF ChangedAt
  <2>2. j \in 1..16 /\ DigitsRun(r, k) /\ DigitsRun(q, m)
    BY <1>1, <1>3, <1>4, <1>5 DEF DigitsRun
  <2> QED BY <2>1, <2>2, IsniRunsApart
<1>8. VerifyIsni(k) = Checked(IsniValue(k), IsniCheck(k)) /\ VerifyIsni(m) = Checked(IsniValue(m), IsniCheck(m))
  BY DEF VerifyIsni, IsniValue
<1>9. IsniValue(k) = IsniCheck(k)
  BY <1>8 DEF Checked
<1>10. IsniValue(m) # IsniCheck(m)
  <2>1. CASE j = 16
    <3>1. IsniCheck(k) = IsniCheck(m)
      BY <1>4, <1>5, <1>7, <2>1
    <3>2. IsniValue(k) # IsniValue(m)
      <4>1. k[16] # m[16]
        BY <1>3, <2>1
      <4>2. \A d \in Digits : d # 10 /\ d # LetterX
        BY DEF Digits, LetterX
      <4>3. IsniValue(k) = (IF k[16] = LetterX THEN 10 ELSE k[16])
            /\ IsniValue(m) = (IF m[16] = LetterX THEN 10 ELSE m[16])
        BY DEF IsniValue
      <4> QED BY <4>1, <4>2, <4>3, <1>1
    <3> QED BY <1>9, <3>1, <3>2
  <2>2. CASE j # 16
    <3>1. IsniValue(k) = IsniValue(m)
      BY <1>3, <2>2 DEF IsniValue
    <3>2. IsniCheck(k) # IsniCheck(m)
      <4>1. r[15] # q[15]
        BY <1>7, <2>2
      <4> QED BY <4>1, <1>4, <1>5, <1>6, ElevenComplement
    <3> QED BY <1>9, <3>1, <3>2
  <2> QED BY <2>1, <2>2
<1> QED BY <1>8, <1>10 DEF Checked

-----------------------------------------------------------------------------
(* A slip in the typed text, whatever it is written with.                  *)

LEMMA SlipOfWithout ==
  ASSUME NEW s, NEW t, NEW x \in Seq(Characters), NEW p \in Seq(Characters),
         NEW q \in Seq(Characters), NEW y \in Seq(Characters),
         Slip(s, t, x, p, q, y), NEW chars
  PROVE  Slip(Without(s, chars), Without(t, chars), Without(x, chars), Without(p, chars),
              Without(q, chars), Without(y, chars))
<1>1. /\ Without(Join(Join(x, p), y), chars)
           = Join(Join(Without(x, chars), Without(p, chars)), Without(y, chars))
      /\ Without(Join(Join(x, q), y), chars)
           = Join(Join(Without(x, chars), Without(q, chars)), Without(y, chars))
  BY WithoutJoin, JoinType
<1>2. Len(p) <= 1 /\ Len(q) <= 1
  BY DEF Slip
<1>3. Len(Without(p, chars)) <= 1 /\ Len(Without(q, chars)) <= 1
  BY <1>2, WithoutOfFew
<1> QED BY <1>1, <1>3 DEF Slip

\* An ISNI mistyped in one place that still reads as another ISNI fails.
THEOREM IsniSlipCaught ==
  ASSUME NEW s \in Seq(Characters), NEW t \in Seq(Characters), IsSlip(s, t),
         ParseIsni(s) # None, ParseIsni(t) # None, ParseIsni(s) # ParseIsni(t),
         VerifyIsni(ParseIsni(s)[1]) = "Pass"
  PROVE  VerifyIsni(ParseIsni(t)[1]) = "Fail"
<1> DEFINE k == Letters(s, Separators)
           m == Letters(t, Separators)
<1>1. /\ ParseIsni(s) = Some(k) /\ k \in Seq(Characters) /\ ValidateIsni(k) = Ok /\ Len(k) = 16
      /\ ParseIsni(t) = Some(m) /\ m \in Seq(Characters) /\ ValidateIsni(m) = Ok /\ Len(m) = 16
  BY IsniKept, Zenon
<1>2. PICK x \in Seq(Characters), p \in Seq(Characters), q \in Seq(Characters), y \in Seq(Characters) :
        Slip(s, t, x, p, q, y)
  BY DEF IsSlip
<1> DEFINE l(u) == Letters(u, Separators)
<1>3. Slip(k, m, l(x), l(p), l(q), l(y))
  BY <1>2, SlipOfLetters
<1>4. l(x) \in Seq(Characters) /\ l(p) \in Seq(Characters) /\ l(q) \in Seq(Characters) /\ l(y) \in Seq(Characters)
  BY LettersType
<1> HIDE DEF l
<1> HIDE DEF k, m
<1>5. k # m /\ ParseIsni(s)[1] = k /\ ParseIsni(t)[1] = m
  BY <1>1 DEF Some
<1>6. Len(k) = Len(m)
  BY <1>1
<1>7. PICK j : OneApart(k, m, j)
  <2>1. k # m
    BY <1>5
  <2>2. IsSlip(k, m)
    BY <1>3, <1>4 DEF IsSlip
  <2> QED BY <1>6, <2>1, <2>2, SlipIsOneApart
<1> QED BY <1>1, <1>5, <1>7, IsniSlipFails

\* A UPC mistyped in one place that still reads as a UPC as long fails.
THEOREM UpcSlipCaught ==
  ASSUME NEW s \in Seq(Characters), NEW t \in Seq(Characters), IsSlip(s, t),
         ParseUpc(s) # None, ParseUpc(t) # None, ParseUpc(s) # ParseUpc(t),
         Len(ParseUpc(s)[1]) = Len(ParseUpc(t)[1]),
         VerifyUpc(ParseUpc(s)[1]) = "Pass"
  PROVE  VerifyUpc(ParseUpc(t)[1]) = "Fail"
<1> DEFINE sep == {Space, Dash}
           k == Without(s, sep)
           m == Without(t, sep)
<1>1. /\ ParseUpc(s) = Some(k) /\ k \in Seq(Characters) /\ ValidateUpc(k) = Ok
      /\ ParseUpc(t) = Some(m) /\ m \in Seq(Characters) /\ ValidateUpc(m) = Ok
  BY UpcKept, Zenon
<1>2. PICK x \in Seq(Characters), p \in Seq(Characters), q \in Seq(Characters), y \in Seq(Characters) :
        Slip(s, t, x, p, q, y)
  BY DEF IsSlip
<1> HIDE DEF sep
<1>3. Slip(k, m, Without(x, sep), Without(p, sep), Without(q, sep), Without(y, sep))
  BY <1>2, SlipOfWithout
<1>4. /\ Without(x, sep) \in Seq(Characters) /\ Without(p, sep) \in Seq(Characters)
      /\ Without(q, sep) \in Seq(Characters) /\ Without(y, sep) \in Seq(Characters)
  BY SingleType
<1> HIDE DEF k, m
<1>5. k # m /\ ParseUpc(s)[1] = k /\ ParseUpc(t)[1] = m
  BY <1>1 DEF Some
<1>6. Len(k) = Len(m)
  BY <1>5
<1>7. PICK j : OneApart(k, m, j)
  <2>1. k # m
    BY <1>5
  <2>2. IsSlip(k, m)
    BY <1>3, <1>4 DEF IsSlip
  <2> QED BY <1>6, <2>1, <2>2, SlipIsOneApart
<1> QED BY <1>1, <1>5, <1>6, <1>7, UpcSlipFails

-----------------------------------------------------------------------------
(* A canonical text parses to itself.                                      *)

\* Digits and capitals: what a stored identifier is made of.
Inked == Digits \cup Upper

LEMMA PlainTrimmed ==
  ASSUME NEW k \in Seq(Inked), k # <<>>
  PROVE  Trim(k) = k
<1> DEFINE inked == {i \in DOMAIN k : k[i] # Space}
           n == Len(k)
<1>1. n \in Nat \ {0} /\ DOMAIN k = 1..n
  <2>1. n # 0
    BY EmptySeq
  <2> QED BY <2>1
<1>2. inked = 1..n
  <2>1. \A i \in 1..n : k[i] \in Inked
    OBVIOUS
  <2>2. Space \notin Inked
    BY DEF Space, Inked, Digits, Upper
  <2> QED BY <1>1, <2>1, <2>2
<1>3. Trim(k) = IF inked = {} THEN <<>> ELSE SubSeq(k, Min(inked), Max(inked))
  BY DEF Trim
<1> HIDE DEF inked, n
<1>4. 1 \in inked /\ n \in inked /\ inked \subseteq Nat
  BY <1>1, <1>2
<1>5. Min(inked) \in inked /\ \A x \in inked : Min(inked) <= x
  BY <1>4, LeastPlace
<1>6. Max(inked) \in inked /\ \A x \in inked : Max(inked) >= x
  BY <1>1, <1>2, <1>4, GreatestPlace
<1>7. Min(inked) = 1 /\ Max(inked) = n
  BY <1>1, <1>2, <1>4, <1>5, <1>6
<1>8. SubSeq(k, 1, n) = k
  BY SubSeqFull DEF n
<1> QED BY <1>3, <1>4, <1>7, <1>8

LEMMA PlainUppercase ==
  ASSUME NEW k \in Seq(Inked)
  PROVE  Uppercase(k) = k
<1>1. \A i \in DOMAIN k : k[i] \notin Lower
  <2>1. \A i \in DOMAIN k : k[i] \in Inked
    OBVIOUS
  <2>2. \A c \in Inked : c \notin Lower
    BY DEF Lower, Inked, Digits, Upper
  <2> QED BY <2>1, <2>2
<1>2. [i \in DOMAIN k |-> IF k[i] \in Lower THEN k[i] - 26 ELSE k[i]] = [i \in DOMAIN k |-> k[i]]
  BY <1>1
<1>3. k = [i \in DOMAIN k |-> k[i]]
  OBVIOUS
<1> QED BY <1>2, <1>3 DEF Uppercase

LEMMA PlainKept ==
  ASSUME NEW k \in Seq(Inked)
  PROVE  /\ \A i \in DOMAIN k : k[i] \notin Separators /\ k[i] # WideDigit
         /\ Without(k, Separators) = k /\ Without(k, {Space, Dash}) = k
<1>1. \A i \in DOMAIN k : k[i] \in Inked
  OBVIOUS
<1>2. \A c \in Inked : c \notin Separators /\ c # WideDigit /\ c \notin {Space, Dash}
  BY DEF Inked, Digits, Upper, Separators, Space, Dash, Dot, WideDigit
<1>3. \A i \in DOMAIN k : k[i] \notin Separators /\ k[i] # WideDigit /\ k[i] \notin {Space, Dash}
  BY <1>1, <1>2
<1>4. Without(k, Separators) = k
  BY <1>3, WithoutNone
<1>5. Without(k, {Space, Dash}) = k
  <2> DEFINE chars == {Space, Dash}
  <2>1. \A i \in DOMAIN k : k[i] \notin chars
    BY <1>3
  <2> HIDE DEF chars
  <2>2. Without(k, chars) = k
    BY <2>1, WithoutNone
  <2> QED BY <2>2 DEF chars
<1> QED BY <1>3, <1>4, <1>5

LEMMA InkedCharacters == ASSUME NEW k \in Seq(Inked) PROVE k \in Seq(Characters)
<1>1. Inked \subseteq Characters
  BY DEF Inked, Digits, Upper, Characters
<1> QED BY <1>1

LEMMA PlainBytes ==
  ASSUME NEW k \in Seq(Inked)
  PROVE  Bytes(k) = Len(k)
BY InkedCharacters, PlainKept, BytesAtLeast

\* A text without separators that fits a pattern is what the pattern captures.
LEMMA PatternOfPlain ==
  ASSUME NEW pattern, NEW k \in Seq(Inked), k # <<>>, Fits(k, pattern.classes),
         NEW capacity, Bytes(k) <= capacity
  PROVE  ParsePattern(pattern, k, capacity) = Some(k)
<1>1. Uppercase(Trim(k)) = k
  BY PlainTrimmed, PlainUppercase
<1>2. Match(pattern, k) = Some(k)
  <2>1. Without(k, Separators) = k /\ \A i \in DOMAIN k : k[i] \notin Separators
    BY PlainKept
  <2>2. DOMAIN k \ {i \in DOMAIN k : k[i] \notin Separators} = {}
    BY <2>1
  <2>3. Len(k) = Len(pattern.classes) /\ \A i \in DOMAIN k : k[i] \in pattern.classes[i]
    BY DEF Fits
  <2> QED BY <2>1, <2>2, <2>3 DEF Match
<1>3. Some(k) # None /\ Some(k)[1] = k
  BY DEF Some, None
<1>4. Bounded(k, capacity) = Some(k)
  BY DEF Bounded
<1> QED BY <1>1, <1>2, <1>3, <1>4 DEF ParsePattern

PlainPattern(pattern, n) ==
  /\ Len(pattern.classes) = n
  /\ \A i \in 1..n : pattern.classes[i] \subseteq Inked \cup {WideDigit}

KeptBy(pattern, s, n, k) ==
  /\ ParsePattern(pattern, s, n) = Some(k) /\ ParsePattern(pattern, k, n) = Some(k)
  /\ Fits(k, pattern.classes) /\ Len(k) = n /\ Bytes(k) = n

\* What a pattern keeps, if its capacity is its length: never a wide digit.
LEMMA PatternKeepsPlain ==
  ASSUME NEW pattern, NEW s \in Seq(Characters), NEW n \in Nat \ {0}, PlainPattern(pattern, n),
         ParsePattern(pattern, s, n) # None
  PROVE  \E k \in Seq(Inked) : KeptBy(pattern, s, n, k)
<1>0. Len(pattern.classes) = n /\ \A i \in 1..n : pattern.classes[i] \subseteq Inked \cup {WideDigit}
  BY DEF PlainPattern
<1> DEFINE k == Letters(s, Separators)
<1>1. /\ ParsePattern(pattern, s, n) = Some(k) /\ k \in Seq(Characters)
      /\ Fits(k, pattern.classes) /\ Bytes(k) <= n
  BY PatternKeeps
<1> HIDE DEF k
<1>2. Len(k) = n /\ DOMAIN k = 1..n
  BY <1>0, <1>1 DEF Fits
<1>3. Bytes(k) = n /\ \A i \in DOMAIN k : k[i] # WideDigit
  BY <1>1, <1>2, NoWideDigit
<1>4. ASSUME NEW i \in DOMAIN k PROVE k[i] \in Inked
  <2>1. k[i] \in pattern.classes[i]
    BY <1>1 DEF Fits
  <2>2. pattern.classes[i] \subseteq Inked \cup {WideDigit}
    BY <1>0, <1>2
  <2> QED BY <2>1, <2>2, <1>3
<1>5. k \in Seq(Inked) /\ k # <<>>
  <2>1. k \in Seq(Inked)
    BY <1>1, <1>2, <1>4
  <2>2. Len(k) # 0
    BY <1>2
  <2> QED BY <2>1, <2>2
<1>6. ParsePattern(pattern, k, n) = Some(k)
  BY <1>1, <1>3, <1>5, PatternOfPlain
<1> QED BY <1>1, <1>2, <1>3, <1>5, <1>6 DEF KeptBy

LEMMA TimesIs ==
  ASSUME NEW T, NEW c \in T, NEW n \in Nat
  PROVE  Times(n, c) \in Seq(T) /\ Len(Times(n, c)) = n /\ \A i \in 1..n : Times(n, c)[i] = c
<1>1. Times(n, c) = [i \in 1..n |-> c]
  BY DEF Times
<1> QED BY <1>1

LEMMA IswcClasses ==
  /\ Len(IswcPattern.classes) = 11 /\ IswcPattern.classes[1] = {LetterT}
  /\ \A i \in 2..11 : IswcPattern.classes[i] = AnyDigit
<1> DEFINE T == SUBSET Characters
           d == AnyDigit
           a == << {LetterT} >>
           b == Times(10, d)
<1>1. {LetterT} \in T /\ d \in T
  BY DEF AnyDigit, Digits, WideDigit, LetterT, Characters
<1>2. a \in Seq(T) /\ Len(a) = 1 /\ a[1] = {LetterT}
  BY <1>1
<1> HIDE DEF T, d
<1>3. b \in Seq(T) /\ Len(b) = 10 /\ \A i \in 1..10 : b[i] = d
  BY <1>1, TimesIs
<1>4. IswcPattern.classes = Join(a, b)
  BY DEF IswcPattern, Pattern, Join, d
<1> HIDE DEF a, b
<1>5. /\ Len(Join(a, b)) = Len(a) + Len(b)
      /\ \A i \in 1..Len(a) : Join(a, b)[i] = a[i]
      /\ \A i \in (Len(a) + 1)..(Len(a) + Len(b)) : Join(a, b)[i] = b[i - Len(a)]
  <2>1. a \in Seq(T) /\ b \in Seq(T)
    BY <1>2, <1>3
  <2> QED BY <2>1, JoinAt, Zenon
<1>6. /\ Len(Join(a, b)) = 11 /\ Join(a, b)[1] = a[1]
      /\ \A i \in 2..11 : Join(a, b)[i] = b[i - 1]
  BY <1>2, <1>3, <1>5
<1>7. \A i \in 2..11 : i - 1 \in 1..10
  OBVIOUS
<1> QED BY <1>2, <1>3, <1>4, <1>6, <1>7 DEF d

LEMMA IsrcClasses ==
  /\ Len(IsrcPattern.classes) = 12
  /\ \A i \in 1..2 : IsrcPattern.classes[i] = Upper
  /\ \A i \in 3..5 : IsrcPattern.classes[i] = Upper \cup Digits
  /\ \A i \in 6..12 : IsrcPattern.classes[i] = AnyDigit
<1> DEFINE T == SUBSET Characters
           d == AnyDigit
           u == Upper
           w == Upper \cup Digits
           a == Times(2, u)
           b == Times(3, w)
           c == Times(7, d)
           ab == Join(a, b)
<1>1. u \in T /\ w \in T /\ d \in T
  BY DEF AnyDigit, Digits, Upper, WideDigit, Characters
<1>2. IsrcPattern.classes = Join(ab, c)
  BY DEF IsrcPattern, Pattern, Join
<1> HIDE DEF T, d, u, w
<1>3. a \in Seq(T) /\ Len(a) = 2 /\ \A i \in 1..2 : a[i] = u
  BY <1>1, TimesIs
<1>4. b \in Seq(T) /\ Len(b) = 3 /\ \A i \in 1..3 : b[i] = w
  BY <1>1, TimesIs
<1>5. c \in Seq(T) /\ Len(c) = 7 /\ \A i \in 1..7 : c[i] = d
  BY <1>1, TimesIs
<1> HIDE DEF a, b, c
<1>6. /\ Len(ab) = Len(a) + Len(b)
      /\ \A i \in 1..Len(a) : ab[i] = a[i]
      /\ \A i \in (Len(a) + 1)..(Len(a) + Len(b)) : ab[i] = b[i - Len(a)]
  <2>1. a \in Seq(T) /\ b \in Seq(T)
    BY <1>3, <1>4
  <2> QED BY <2>1, JoinAt, Zenon
<1>7. ab \in Seq(T)
  BY <1>3, <1>4, JoinType
<1> HIDE DEF ab
<1>8. Len(ab) = 5 /\ (\A i \in 1..2 : ab[i] = u) /\ \A i \in 3..5 : ab[i] = w
  <2>1. Len(ab) = 5 /\ \A i \in 1..2 : ab[i] = u
    BY <1>3, <1>4, <1>6
  <2>2. \A i \in 3..5 : i \in (2 + 1)..(2 + 3) /\ i - 2 \in 1..3
    OBVIOUS
  <2>3. \A i \in (2 + 1)..(2 + 3) : ab[i] = b[i - 2]
    BY <1>3, <1>4, <1>6
  <2> QED BY <2>1, <2>2, <2>3, <1>4
<1>9. /\ Len(Join(ab, c)) = Len(ab) + Len(c)
      /\ \A i \in 1..Len(ab) : Join(ab, c)[i] = ab[i]
      /\ \A i \in (Len(ab) + 1)..(Len(ab) + Len(c)) : Join(ab, c)[i] = c[i - Len(ab)]
  <2>1. ab \in Seq(T) /\ c \in Seq(T)
    BY <1>5, <1>7
  <2> QED BY <2>1, JoinAt, Zenon
<1>10. /\ Len(Join(ab, c)) = 12
       /\ \A i \in 1..5 : Join(ab, c)[i] = ab[i]
       /\ \A i \in (5 + 1)..(5 + 7) : Join(ab, c)[i] = c[i - 5]
  BY <1>5, <1>8, <1>9
<1>11. \A i \in 6..12 : Join(ab, c)[i] = d
  <2>1. \A i \in 6..12 : i \in (5 + 1)..(5 + 7) /\ i - 5 \in 1..7
    OBVIOUS
  <2> QED BY <2>1, <1>5, <1>10
<1>12. (\A i \in 1..2 : i \in 1..5) /\ \A i \in 3..5 : i \in 1..5
  OBVIOUS
<1> QED BY <1>2, <1>8, <1>10, <1>11, <1>12 DEF d, u, w

\* What a parser returns: a text that is valid and parses to itself.
Canonical(kind, s) ==
  \E k \in Seq(Inked) :
    Parse(kind, s) = Some(k) /\ Validate(kind, k) = Ok /\ Parse(kind, k) = Some(k)

LEMMA IswcCanonical ==
  ASSUME NEW s \in Seq(Characters), ParseIswc(s) # None
  PROVE  Canonical("iswc", s)
<1>1. PlainPattern(IswcPattern, 11)
  <2>1. {LetterT} \subseteq Inked \cup {WideDigit} /\ AnyDigit \subseteq Inked \cup {WideDigit}
    BY DEF LetterT, Inked, Digits, Upper, AnyDigit
  <2>2. \A i \in 1..11 : i = 1 \/ i \in 2..11
    OBVIOUS
  <2> QED BY <2>1, <2>2, IswcClasses DEF PlainPattern
<1>0. PICK k \in Seq(Inked) : KeptBy(IswcPattern, s, 11, k)
  <2>1. 11 \in Nat \ {0} /\ ParsePattern(IswcPattern, s, 11) # None
    BY DEF ParseIswc
  <2> QED BY <1>1, <2>1, PatternKeepsPlain
<1>2. /\ ParsePattern(IswcPattern, s, 11) = Some(k) /\ ParsePattern(IswcPattern, k, 11) = Some(k)
      /\ Fits(k, IswcPattern.classes) /\ Len(k) = 11 /\ Bytes(k) = 11
  BY <1>0 DEF KeptBy
<1>3. \A i \in DOMAIN k : k[i] \in IswcPattern.classes[i] /\ k[i] # WideDigit
  BY <1>2, PlainKept DEF Fits
<1>4. DOMAIN k = 1..11
  BY <1>2
<1>5. k[1] = LetterT /\ \A i \in 2..11 : k[i] \in Digits
  <2>1. 1 \in DOMAIN k /\ \A i \in 2..11 : i \in DOMAIN k
    BY <1>4
  <2>2. k[1] \in {LetterT}
    BY <2>1, <1>3, IswcClasses
  <2>3. \A i \in 2..11 : k[i] \in AnyDigit /\ k[i] # WideDigit
    BY <2>1, <1>3, IswcClasses
  <2> QED BY <2>2, <2>3 DEF AnyDigit
<1>6. ValidateIswc(k) = Ok
  BY <1>2, <1>5 DEF ValidateIswc, AllIn
<1> QED BY <1>2, <1>6 DEF Canonical, Parse, Validate, ParseIswc

LEMMA IsniCanonical ==
  ASSUME NEW s \in Seq(Characters), ParseIsni(s) # None
  PROVE  Canonical("isni", s)
<1>1. PlainPattern(IsniPattern, 16)
  <2>1. AnyDigit \cup {LetterX} \subseteq Inked \cup {WideDigit} /\ AnyDigit \subseteq Inked \cup {WideDigit}
    BY DEF LetterX, Inked, Digits, Upper, AnyDigit
  <2>2. \A i \in 1..16 : i = 16 \/ i \in 1..15
    OBVIOUS
  <2> QED BY <2>1, <2>2, ClassesLen DEF PlainPattern
<1>0. PICK k \in Seq(Inked) : KeptBy(IsniPattern, s, 16, k)
  <2>1. 16 \in Nat \ {0} /\ ParsePattern(IsniPattern, s, 16) # None
    BY DEF ParseIsni
  <2> QED BY <1>1, <2>1, PatternKeepsPlain
<1>2. /\ ParsePattern(IsniPattern, s, 16) = Some(k) /\ ParsePattern(IsniPattern, k, 16) = Some(k)
      /\ Fits(k, IsniPattern.classes) /\ Len(k) = 16 /\ Bytes(k) = 16
  BY <1>0 DEF KeptBy
<1>3. ParseIsni(s) = Some(k) /\ ValidateIsni(k) = Ok
  <2>1. Some(Letters(s, Separators)) = Some(k) /\ ValidateIsni(Letters(s, Separators)) = Ok
    BY <1>2, IsniKept, Zenon DEF ParseIsni
  <2>2. Letters(s, Separators) = k
    BY <2>1 DEF Some
  <2> QED BY <2>1, <2>2, <1>2 DEF ParseIsni
<1> QED BY <1>2, <1>3 DEF Canonical, Parse, Validate, ParseIsni

LEMMA IsrcCanonical ==
  ASSUME NEW s \in Seq(Characters), ParseIsrc(s) # None
  PROVE  Canonical("isrc", s)
<1>1. PlainPattern(IsrcPattern, 12)
  <2>1. /\ Upper \subseteq Inked \cup {WideDigit} /\ Upper \cup Digits \subseteq Inked \cup {WideDigit}
        /\ AnyDigit \subseteq Inked \cup {WideDigit}
    BY DEF Inked, AnyDigit
  <2>2. \A i \in 1..12 : i \in 1..2 \/ i \in 3..5 \/ i \in 6..12
    OBVIOUS
  <2> QED BY <2>1, <2>2, IsrcClasses DEF PlainPattern
<1>0. PICK k \in Seq(Inked) : KeptBy(IsrcPattern, s, 12, k)
  <2>1. 12 \in Nat \ {0} /\ ParsePattern(IsrcPattern, s, 12) # None
    BY DEF ParseIsrc
  <2> QED BY <1>1, <2>1, PatternKeepsPlain
<1>2. /\ ParsePattern(IsrcPattern, s, 12) = Some(k) /\ ParsePattern(IsrcPattern, k, 12) = Some(k)
      /\ Fits(k, IsrcPattern.classes) /\ Len(k) = 12 /\ Bytes(k) = 12
  BY <1>0 DEF KeptBy
<1>3. \A i \in DOMAIN k : k[i] \in IsrcPattern.classes[i] /\ k[i] # WideDigit
  BY <1>2, PlainKept DEF Fits
<1>4. DOMAIN k = 1..12
  BY <1>2
<1>5. /\ \A i \in 1..2 : k[i] \in Upper
      /\ \A i \in 3..5 : k[i] \in Upper \cup Digits
      /\ \A i \in 6..12 : k[i] \in Digits
  <2>1. /\ \A i \in 1..2 : i \in DOMAIN k
        /\ \A i \in 3..5 : i \in DOMAIN k
        /\ \A i \in 6..12 : i \in DOMAIN k
    BY <1>4
  <2>2. \A i \in 6..12 : k[i] \in AnyDigit /\ k[i] # WideDigit
    BY <2>1, <1>3, IsrcClasses
  <2> QED BY <2>1, <2>2, <1>3, IsrcClasses DEF AnyDigit
<1>6. ValidateIsrc(k) = Ok
  BY <1>2, <1>5 DEF ValidateIsrc, AllIn
<1> QED BY <1>2, <1>6 DEF Canonical, Parse, Validate, ParseIsrc

LEMMA DigitsInked == ASSUME NEW k \in Seq(Digits) PROVE k \in Seq(Inked)
<1>1. Digits \subseteq Inked
  BY DEF Inked
<1> QED BY <1>1

LEMMA DigitsAllIn ==
  ASSUME NEW k \in Seq(Digits), NEW chars, Digits \subseteq chars
  PROVE  AllIn(k, 1, Len(k), chars)
BY DEF AllIn

LEMMA UpcCanonical ==
  ASSUME NEW s \in Seq(Characters), ParseUpc(s) # None
  PROVE  Canonical("upc", s)
<1> DEFINE k == Without(s, {Space, Dash})
<1>1. ParseUpc(s) = Some(k) /\ k \in Seq(Characters) /\ ValidateUpc(k) = Ok
  BY UpcKept
<1> HIDE DEF k
<1>2. k \in Seq(Digits)
  <2>1. \A i \in 1..Len(k) : k[i] \in Digits
    BY <1>1, UpcDigits
  <2> QED BY <1>1, <2>1
<1>3. k \in Seq(Inked)
  BY <1>2, DigitsInked
<1>4. Without(k, {Space, Dash}) = k
  BY <1>3, PlainKept
<1>5. ParseUpc(k) = Some(k)
  BY <1>1, <1>4 DEF ParseUpc
<1> QED BY <1>1, <1>3, <1>5 DEF Canonical, Parse, Validate

\* No character but the ASCII ones, as far as the parsers are concerned.
Ascii(s) == \A i \in DOMAIN s : s[i] # WideDigit

LEMMA ZerosBefore ==
  ASSUME NEW s \in Seq(Digits), NEW n \in Nat
  PROVE  LET z == [i \in 1..n |-> 0] \o s
         IN  z \in Seq(Digits) /\ Len(z) = n + Len(s)
<1> DEFINE z == [i \in 1..n |-> 0]
<1>1. z \in Seq(Digits) /\ Len(z) = n
  <2>1. 0 \in Digits
    BY DEF Digits
  <2> QED BY <2>1
<1> HIDE DEF z
<1>2. Join(z, s) \in Seq(Digits) /\ Len(Join(z, s)) = Len(z) + Len(s)
  BY <1>1, JoinType, JoinAt
<1> QED BY <1>1, <1>2 DEF Join, z

LEMMA BoundedDigits ==
  ASSUME NEW k \in Seq(Digits)
  PROVE  /\ Bytes(k) = Len(k) /\ Bounded(k, 11) = IF Len(k) <= 11 THEN Some(k) ELSE None
BY DigitsInked, PlainBytes DEF Bounded

\* Padding leaves a number long enough for the chain, and alone if it is so already.
Padded(s, shortest) ==
  \E k \in Seq(Digits) :
    /\ PadDigits(s, shortest) = Some(k) /\ PadDigits(k, shortest) = Some(k)
    /\ Len(k) \in shortest..11

LEMMA PaddedLengths ==
  \A n \in Nat : \A m \in {9, 11} :
    /\ n \in m..11 => n \in 1..11 /\ ~(n < m) /\ n <= 11 /\ n # 0
    /\ n \in 1..11 => 11 - n \in Nat /\ n <= 11 /\ (11 - n) + n = 11
    /\ n \in 1..11 /\ ~(n < m) => n \in m..11
    /\ 11 \in m..11
OBVIOUS

LEMMA LenNat == ASSUME NEW T, NEW s \in Seq(T) PROVE Len(s) \in Nat
OBVIOUS

LEMMA PadOfLong ==
  ASSUME NEW k \in Seq(Digits), NEW shortest \in {9, 11}, Len(k) \in shortest..11
  PROVE  PadDigits(k, shortest) = Some(k)
<1>1. Len(k) \in 1..11 /\ ~(Len(k) < shortest) /\ Len(k) <= 11
  BY LenNat, PaddedLengths, Zenon
<1>2. AllIn(k, 1, Len(k), AnyDigit)
  <2>1. Digits \subseteq AnyDigit
    BY DEF AnyDigit
  <2> QED BY <2>1, DigitsAllIn
<1>3. Bytes(k) = Len(k) /\ Bounded(k, 11) = Some(k)
  BY <1>1, BoundedDigits
<1> QED BY <1>1, <1>2, <1>3 DEF PadDigits

LEMMA PadKeeps ==
  ASSUME NEW s \in Seq(Characters), Ascii(s), NEW shortest \in {9, 11},
         PadDigits(s, shortest) # None
  PROVE  Padded(s, shortest)
<1>1. Len(s) \in 1..11 /\ AllIn(s, 1, Len(s), AnyDigit)
  BY DEF PadDigits
<1>2. s \in Seq(Digits)
  <2>1. \A i \in 1..Len(s) : s[i] \in AnyDigit /\ s[i] # WideDigit
    BY <1>1 DEF AllIn, Ascii
  <2>2. \A i \in 1..Len(s) : s[i] \in Digits
    BY <2>1 DEF AnyDigit
  <2> QED BY <2>2
<1>3. Bytes(s) = Len(s) /\ Bounded(s, 11) = Some(s)
  <2>1. Len(s) <= 11
    BY <1>1, LenNat, PaddedLengths, Zenon
  <2> QED BY <1>2, <2>1, BoundedDigits, Zenon
<1>4. CASE Len(s) < shortest
  <2> DEFINE k == [i \in 1..(11 - Len(s)) |-> 0] \o s
  <2>1. 11 - Len(s) \in Nat /\ (11 - Len(s)) + Len(s) = 11 /\ 11 \in shortest..11
    BY <1>1, LenNat, PaddedLengths, Zenon
  <2>2. k \in Seq(Digits) /\ Len(k) = (11 - Len(s)) + Len(s)
    BY <1>2, <2>1, ZerosBefore
  <2>3. PadDigits(s, shortest) = Bounded(k, 11)
    BY <1>1, <1>3, <1>4 DEF PadDigits
  <2> HIDE DEF k
  <2>4. Len(k) = 11 /\ Len(k) \in shortest..11
    BY <2>1, <2>2, Zenon
  <2>5. PadDigits(s, shortest) = Some(k)
    <3>1. Len(k) <= 11
      BY <2>4
    <3> QED BY <2>2, <2>3, <3>1, BoundedDigits, Zenon
  <2>6. PadDigits(k, shortest) = Some(k)
    BY <2>2, <2>4, PadOfLong
  <2> QED BY <2>2, <2>4, <2>5, <2>6 DEF Padded
<1>5. CASE ~(Len(s) < shortest)
  <2>1. Len(s) \in shortest..11
    BY <1>1, <1>5, LenNat, PaddedLengths, Zenon
  <2>2. PadDigits(s, shortest) = Some(s)
    BY <1>2, <2>1, PadOfLong
  <2> QED BY <1>2, <2>1, <2>2 DEF Padded
<1> QED BY <1>4, <1>5

LEMMA AsciiTrimmed ==
  ASSUME NEW s \in Seq(Characters), Ascii(s)
  PROVE  Trim(s) \in Seq(Characters) /\ Ascii(Trim(s))
<1>1. PICK a \in Seq(Characters), b \in Seq(Characters) :
        Trim(s) \in Seq(Characters) /\ s = Join(Join(a, Trim(s)), b)
  BY TrimParts
<1> DEFINE c == Trim(s)
           d == Join(a, c)
<1>2. /\ d \in Seq(Characters) /\ Len(d) = Len(a) + Len(c)
      /\ \A i \in (Len(a) + 1)..(Len(a) + Len(c)) : d[i] = c[i - Len(a)]
  BY <1>1, JoinType, JoinAt
<1>3. c \in Seq(Characters) /\ s = Join(d, b)
  BY <1>1
<1> HIDE DEF c, d
<1>4. Len(s) = Len(d) + Len(b) /\ \A i \in 1..Len(d) : s[i] = d[i]
  <2>1. Len(Join(d, b)) = Len(d) + Len(b) /\ \A i \in 1..Len(d) : Join(d, b)[i] = d[i]
    BY <1>1, <1>2, JoinAt
  <2> QED BY <2>1, <1>3
<1>5. ASSUME NEW i \in 1..Len(c) PROVE c[i] # WideDigit
  <2>1. Len(a) \in Nat /\ Len(b) \in Nat /\ Len(c) \in Nat
    BY <1>1, <1>3
  <2>2. Len(a) + i \in (Len(a) + 1)..(Len(a) + Len(c)) /\ (Len(a) + i) - Len(a) = i
    BY <2>1
  <2>3. d[Len(a) + i] = c[i]
    BY <1>2, <2>2
  <2>4. Len(a) + i \in 1..Len(d) /\ Len(a) + i \in 1..Len(s)
    BY <1>2, <1>4, <2>1
  <2>5. s[Len(a) + i] # WideDigit
    BY <2>4 DEF Ascii
  <2> QED BY <1>4, <2>3, <2>4, <2>5
<1>6. DOMAIN c = 1..Len(c)
  BY <1>3
<1> QED BY <1>3, <1>5, <1>6 DEF Ascii, c

LEMMA AsciiUppercase ==
  ASSUME NEW s \in Seq(Characters), Ascii(s)
  PROVE  Ascii(Uppercase(s))
<1>1. \A c \in Characters : c # WideDigit => (IF c \in Lower THEN c - 26 ELSE c) # WideDigit
  BY DEF Characters, WideDigit, Lower
<1>2. \A i \in DOMAIN s : s[i] \in Characters /\ s[i] # WideDigit
  BY DEF Ascii
<1>3. DOMAIN Uppercase(s) = DOMAIN s
      /\ \A i \in DOMAIN s : Uppercase(s)[i] = IF s[i] \in Lower THEN s[i] - 26 ELSE s[i]
  BY DEF Uppercase
<1> QED BY <1>1, <1>2, <1>3 DEF Ascii

LEMMA PaddedValid ==
  ASSUME NEW k \in Seq(Digits), NEW sizes, Len(k) \in sizes
  PROVE  ValidateDigits(k, sizes) = Ok
<1>1. Bytes(k) = Len(k) /\ AllIn(k, 1, Len(k), Digits)
  BY BoundedDigits, DigitsAllIn
<1> QED BY <1>1 DEF ValidateDigits

LEMMA IpnCanonical ==
  ASSUME NEW s \in Seq(Characters), Ascii(s), ParseIpn(s) # None
  PROVE  Canonical("ipn", s)
<1>1. Trim(s) \in Seq(Characters) /\ Ascii(Trim(s))
  BY AsciiTrimmed
<1>2. Padded(Trim(s), 11)
  <2>1. PadDigits(Trim(s), 11) # None
    BY DEF ParseIpn
  <2> QED BY <1>1, <2>1, PadKeeps
<1>3. PICK k \in Seq(Digits) :
        PadDigits(Trim(s), 11) = Some(k) /\ PadDigits(k, 11) = Some(k) /\ Len(k) \in 11..11
  BY <1>2 DEF Padded
<1>4. k \in Seq(Inked) /\ k # <<>> /\ Len(k) \in {11}
  <2>1. 11 \in {9, 11} /\ 11..11 \subseteq {11}
    OBVIOUS
  <2>2. Len(k) # 0 /\ Len(k) \in {11}
    BY <1>3, <2>1, LenNat, PaddedLengths, Zenon
  <2> QED BY <2>2, DigitsInked
<1>5. Trim(k) = k
  BY <1>4, PlainTrimmed
<1>6. ValidateIpn(k) = Ok
  BY <1>4, PaddedValid, Zenon DEF ValidateIpn
<1> QED BY <1>3, <1>4, <1>5, <1>6 DEF Canonical, Parse, Validate, ParseIpn

LEMMA IpiCanonical ==
  ASSUME NEW s \in Seq(Characters), Ascii(s), ParseIpi(s) # None
  PROVE  Canonical("ipi", s)
<1> DEFINE upper == Uppercase(Trim(s))
           body == IF IsPrefix(<<LetterI, Dash>>, upper) THEN SubSeq(upper, 3, Len(upper)) ELSE upper
<1>1. upper \in Seq(Characters) /\ Ascii(upper)
  BY AsciiTrimmed, AsciiUppercase, UppercaseType
<1>2. ParseIpi(s) = PadDigits(body, 9)
  BY DEF ParseIpi
<1> HIDE DEF upper
<1>3. body \in Seq(Characters) /\ Ascii(body)
  <2>1. CASE IsPrefix(<<LetterI, Dash>>, upper)
    <3> DEFINE rest == SubSeq(upper, 3, Len(upper))
    <3>1. Len(upper) \in Nat /\ Len(upper) >= 2
      <4>1. Len(<<LetterI, Dash>>) = 2
        OBVIOUS
      <4> QED BY <1>1, <2>1, <4>1 DEF IsPrefix
    <3>2. rest \in Seq(Characters) /\ rest = [i \in 1..(Len(upper) - 2) |-> upper[i + 2]]
      BY <1>1, <3>1
    <3>3. Ascii(rest)
      BY <1>1, <3>1, <3>2 DEF Ascii
    <3> QED BY <2>1, <3>2, <3>3
  <2>2. CASE ~IsPrefix(<<LetterI, Dash>>, upper)
    BY <2>2, <1>1
  <2> QED BY <2>1, <2>2
<1> HIDE DEF body
<1>4. Padded(body, 9)
  BY <1>2, <1>3, PadKeeps
<1>5. PICK k \in Seq(Digits) :
        PadDigits(body, 9) = Some(k) /\ PadDigits(k, 9) = Some(k) /\ Len(k) \in 9..11
  BY <1>4 DEF Padded
<1>6. k \in Seq(Inked) /\ k # <<>> /\ Len(k) # 0
  <2>1. 9 \in {9, 11}
    OBVIOUS
  <2>2. Len(k) # 0
    BY <1>5, <2>1, LenNat, PaddedLengths, Zenon
  <2> QED BY <2>2, DigitsInked
<1>7. Uppercase(Trim(k)) = k
  BY <1>6, PlainTrimmed, PlainUppercase
<1>8. ~IsPrefix(<<LetterI, Dash>>, k)
  <2> DEFINE p == <<LetterI, Dash>>
  <2>1. p \in Seq(Characters) /\ Len(p) = 2 /\ p[1] = LetterI
    BY DEF LetterI, Dash, Characters
  <2> SUFFICES ASSUME SubSeq(p, 1, 2) = SubSeq(k, 1, 2) PROVE FALSE
    BY <2>1 DEF IsPrefix
  <2> HIDE DEF p
  <2>2. SubSeq(p, 1, 2)[1] = p[1] /\ SubSeq(k, 1, 2)[1] = k[1] /\ k[1] \in Digits
    <3>1. SubSeq(p, 1, 2)[1] = p[1]
      BY <2>1
    <3>2. SubSeq(k, 1, 2)[1] = k[1] /\ k[1] \in Digits
      BY <1>5, <1>6
    <3> QED BY <3>1, <3>2
  <2> QED BY <2>1, <2>2 DEF Digits, LetterI
<1>9. ParseIpi(k) = Some(k)
  BY <1>5, <1>7, <1>8 DEF ParseIpi
<1>10. ValidateIpi(k) = Ok
  BY <1>5, PaddedValid DEF ValidateIpi
<1> QED BY <1>2, <1>5, <1>6, <1>9, <1>10 DEF Canonical, Parse, Validate

\* Every parser, for texts in ASCII; only the two padded numbers need that.
THEOREM ParsersCanonical ==
  ASSUME NEW k \in IdKinds, NEW s \in Seq(Characters), k \in {"ipi", "ipn"} => Ascii(s),
         Parse(k, s) # None
  PROVE  Canonical(k, s)
<1>1. CASE k = "iswc"
  BY <1>1, IswcCanonical DEF Parse
<1>2. CASE k = "isni"
  BY <1>2, IsniCanonical DEF Parse
<1>3. CASE k = "ipi"
  BY <1>3, IpiCanonical DEF Parse
<1>4. CASE k = "ipn"
  BY <1>4, IpnCanonical DEF Parse
<1>5. CASE k = "isrc"
  BY <1>5, IsrcCanonical DEF Parse
<1>6. CASE k = "upc"
  BY <1>6, UpcCanonical DEF Parse
<1> QED BY <1>1, <1>2, <1>3, <1>4, <1>5, <1>6 DEF IdKinds
=============================================================================
