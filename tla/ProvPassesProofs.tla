-------------------------- MODULE ProvPassesProofs --------------------------
(***************************************************************************)
(* Theorems about the passes.                                              *)
(***************************************************************************)
EXTENDS ProvPassesProps, FiniteSetTheorems, SequenceTheorems, WellFoundedInduction, TLAPS

-----------------------------------------------------------------------------
(* Induction over numbers and sequences.  It is stated of sets: no theorem *)
(* here takes an operator.                                                 *)

LEMMA Concat ==
    ASSUME NEW S, NEW s \in Seq(S), NEW t \in Seq(S)
    PROVE  /\ s \o t \in Seq(S) /\ Len(s \o t) = Len(s) + Len(t)
           /\ Len(s) \in Nat /\ Len(t) \in Nat
           /\ DOMAIN s = 1 .. Len(s) /\ DOMAIN t = 1 .. Len(t)
           /\ DOMAIN (s \o t) = 1 .. Len(s) + Len(t)
           /\ \A i \in 1 .. Len(s) : (s \o t)[i] = s[i]
           /\ \A i \in 1 .. Len(t) : (s \o t)[Len(s) + i] = t[i]
  OBVIOUS

LEMMA OneElement ==
    ASSUME NEW S, NEW x \in S
    PROVE  <<>> \in Seq(S) /\ <<x>> \in Seq(S) /\ Len(<<x>>) = 1 /\ <<x>>[1] = x
  OBVIOUS

LEMMA TwoElements ==
    ASSUME NEW S, NEW x \in S, NEW y \in S
    PROVE  <<x, y>> \in Seq(S)
  OBVIOUS

\* What a concatenation has for members.
LEMMA ConcatMembers ==
    ASSUME NEW S, NEW s \in Seq(S), NEW t \in Seq(S)
    PROVE  ToSet(s \o t) = ToSet(s) \cup ToSet(t)
  <1>1. /\ s \o t \in Seq(S) /\ Len(s \o t) = Len(s) + Len(t)
        /\ Len(s) \in Nat /\ Len(t) \in Nat
        /\ DOMAIN s = 1 .. Len(s) /\ DOMAIN t = 1 .. Len(t)
        /\ DOMAIN (s \o t) = 1 .. Len(s) + Len(t)
        /\ \A i \in 1 .. Len(s) : (s \o t)[i] = s[i]
        /\ \A i \in 1 .. Len(t) : (s \o t)[Len(s) + i] = t[i]
    BY Concat
  <1>2. ASSUME NEW i \in 1 .. Len(s) + Len(t) PROVE (s \o t)[i] \in ToSet(s) \cup ToSet(t)
    <2>1. CASE i <= Len(s)
      BY <1>1, <2>1 DEF ToSet
    <2>2. CASE i > Len(s)
      <3>1. i - Len(s) \in 1 .. Len(t) /\ Len(s) + (i - Len(s)) = i
        BY <1>1, <2>2
      <3> QED
        BY <1>1, <3>1 DEF ToSet
    <2> QED
      BY <1>1, <2>1, <2>2
  <1>3. ASSUME NEW i \in 1 .. Len(s) PROVE s[i] \in ToSet(s \o t)
    <2>1. i \in DOMAIN (s \o t)
      BY <1>1
    <2> QED
      BY <1>1, <2>1 DEF ToSet
  <1>4. ASSUME NEW i \in 1 .. Len(t) PROVE t[i] \in ToSet(s \o t)
    <2>1. Len(s) + i \in DOMAIN (s \o t)
      BY <1>1
    <2> QED
      BY <1>1, <2>1 DEF ToSet
  <1>5. ToSet(s \o t) \subseteq ToSet(s) \cup ToSet(t)
    BY <1>1, <1>2 DEF ToSet
  <1>6. ToSet(s) \subseteq ToSet(s \o t) /\ ToSet(t) \subseteq ToSet(s \o t)
    <2> DEFINE U == ToSet(s \o t)
    <2>1. (\A i \in 1 .. Len(s) : s[i] \in U) /\ (\A i \in 1 .. Len(t) : t[i] \in U)
      BY <1>3, <1>4
    <2> HIDE DEF U
    <2>2. ToSet(s) \subseteq U /\ ToSet(t) \subseteq U
      BY <1>1, <2>1 DEF ToSet
    <2> QED
      BY <2>2 DEF U
  <1> QED
    BY <1>5, <1>6

\* Every set of numbers that is not empty has a least one.
LEMMA Least ==
    ASSUME NEW T \in SUBSET Nat, T # {}
    PROVE  \E x \in T : \A y \in T : x <= y
  <1> PICK R : R = {ss \in Nat \X Nat : ss[1] < ss[2]}
    OBVIOUS
  <1>1. IsWellFoundedOn(R, Nat)
    BY NatLessThanWellFounded DEF OpToRel
  <1>2. \A x, y \in Nat : <<y, x>> \in R <=> y < x
    OBVIOUS
  <1>3. \E x \in T : \A y \in T : ~(<<y, x>> \in R)
    BY <1>1, WFMin, Zenon
  <1>4. \E x \in T : \A y \in T : ~(y < x)
    BY <1>2, <1>3
  <1> QED
    BY <1>4

\* Induction, over sets instead of operators.
LEMMA Induction ==
    ASSUME NEW G \in SUBSET Nat, 0 \in G, \A n \in Nat : n \in G => n + 1 \in G
    PROVE  G = Nat
  <1> DEFINE T == Nat \ G
  <1> SUFFICES ASSUME T # {} PROVE FALSE
    OBVIOUS
  <1>1. PICK x \in T : \A y \in T : x <= y
    BY Least
  <1>2. x # 0 /\ x \in Nat
    OBVIOUS
  <1>3. x - 1 \in Nat /\ x - 1 < x /\ (x - 1) + 1 = x
    BY <1>2
  <1>4. x - 1 \in G
    BY <1>1, <1>3
  <1> QED
    BY <1>3, <1>4

\* So has every bounded one a greatest.
LEMMA Greatest ==
    ASSUME NEW T \in SUBSET Nat, T # {}, NEW b \in Nat, \A y \in T : y <= b
    PROVE  Max(T) \in T /\ \A y \in T : y <= Max(T)
  <1> DEFINE U == {x \in Nat : \A y \in T : y <= x}
  <1>1. PICK x \in U : \A z \in U : x <= z
    <2>1. U \in SUBSET Nat /\ b \in U
      OBVIOUS
    <2> HIDE DEF U
    <2> QED
      BY <2>1, Least
  <1>2. x \in T
    <2> SUFFICES ASSUME x \notin T PROVE FALSE
      OBVIOUS
    <2>1. PICK y \in T : TRUE
      OBVIOUS
    <2>2. y < x /\ x - 1 \in Nat
      BY <1>1
    <2>3. \A z \in T : z <= x - 1
      BY <1>1
    <2> QED
      BY <1>1, <2>2, <2>3
  <1>3. \E z \in T : \A y \in T : z >= y
    BY <1>1, <1>2
  <1>4. Max(T) \in T /\ \A y \in T : Max(T) >= y
    BY <1>3 DEF Max
  <1> QED
    BY <1>4

\* Finitely many numbers are bounded.
LEMMA Bounded ==
    ASSUME NEW g, NEW n \in Nat, \A k \in 1 .. n : g[k] \in Nat
    PROVE  \E b \in Nat : \A k \in 1 .. n : g[k] <= b
  <1> DEFINE G == {m \in Nat : m <= n => \E b \in Nat : \A k \in 1 .. m : g[k] <= b}
  <1>1. 0 \in G
    OBVIOUS
  <1>2. ASSUME NEW m \in Nat, m \in G PROVE m + 1 \in G
    <2> SUFFICES ASSUME m + 1 <= n PROVE \E b \in Nat : \A k \in 1 .. m + 1 : g[k] <= b
      OBVIOUS
    <2>1. PICK c \in Nat : \A k \in 1 .. m : g[k] <= c
      BY <1>2
    <2>2. m + 1 \in 1 .. n /\ g[m + 1] \in Nat /\ \A k \in 1 .. m : g[k] \in Nat
      OBVIOUS
    <2> HIDE DEF G
    <2>3. CASE g[m + 1] <= c
      BY <2>1, <2>2, <2>3
    <2>4. CASE g[m + 1] > c
      <3> PICK d \in Nat : d = g[m + 1]
        BY <2>2
      <3>1. \A k \in 1 .. m + 1 : k \in 1 .. m \/ k = m + 1
        OBVIOUS
      <3>2. \A k \in 1 .. m + 1 : g[k] <= d
        BY <2>1, <2>2, <2>4, <3>1
      <3> QED
        BY <3>2
    <2> QED
      BY <2>2, <2>3, <2>4
  <1>3. G = Nat
    <2> HIDE DEF G
    <2>1. G \subseteq Nat
      BY DEF G
    <2> QED
      BY <1>1, <1>2, <2>1, Induction
  <1> QED
    BY <1>3

\* f flattens the first n sequences of ss.
Flattens(f, ss, n) ==
    f = [i \in 1 .. n |-> IF i = 1 THEN ss[i] ELSE f[i - 1] \o ss[i]]

LEMMA FlattensAt ==
    ASSUME NEW f, NEW ss, NEW n \in Nat, Flattens(f, ss, n)
    PROVE  /\ n > 0 => f[1] = ss[1]
           /\ \A i \in 1 .. n - 1 : f[i + 1] = f[i] \o ss[i + 1]
  <1>1. ASSUME NEW i \in 1 .. n
        PROVE  f[i] = IF i = 1 THEN ss[i] ELSE f[i - 1] \o ss[i]
    <2> DEFINE g == [j \in 1 .. n |-> IF j = 1 THEN ss[j] ELSE f[j - 1] \o ss[j]]
    <2>1. f = g
      BY DEF Flattens
    <2>2. g[i] = IF i = 1 THEN ss[i] ELSE f[i - 1] \o ss[i]
      OBVIOUS
    <2> HIDE DEF g
    <2> QED
      BY <2>1, <2>2, Zenon
  <1>2. n > 0 => f[1] = ss[1]
    BY <1>1
  <1>3. ASSUME NEW i \in 1 .. n - 1 PROVE f[i + 1] = f[i] \o ss[i + 1]
    <2>1. i + 1 \in 1 .. n /\ i + 1 # 1 /\ (i + 1) - 1 = i
      OBVIOUS
    <2> QED
      BY <1>1, <2>1
  <1> QED
    BY <1>2, <1>3

LEMMA FlattensExists ==
    ASSUME NEW ss, NEW n \in Nat
    PROVE  \E f : Flattens(f, ss, n)
  <1> DEFINE G == {m \in Nat : \E f : Flattens(f, ss, m)}
  <1>1. 0 \in G
    <2> DEFINE f == [i \in 1 .. 0 |-> ss[i]]
    <2>1. Flattens(f, ss, 0)
      BY DEF Flattens
    <2> QED
      BY <2>1
  <1>2. ASSUME NEW m \in Nat, m \in G PROVE m + 1 \in G
    <2>1. PICK f : Flattens(f, ss, m)
      BY <1>2
    <2>2. /\ m > 0 => f[1] = ss[1]
          /\ \A i \in 1 .. m - 1 : f[i + 1] = f[i] \o ss[i + 1]
      BY <2>1, FlattensAt
    <2> DEFINE g == [i \in 1 .. m + 1 |-> IF i <= m THEN f[i]
                                          ELSE IF i = 1 THEN ss[i] ELSE f[m] \o ss[i]]
    <2>3. ASSUME NEW i \in 1 .. m + 1
          PROVE  g[i] = IF i = 1 THEN ss[i] ELSE g[i - 1] \o ss[i]
      <3>1. CASE i = 1
        BY <2>2, <3>1
      <3>2. CASE i # 1 /\ i <= m
        <4>1. i - 1 \in 1 .. m - 1 /\ (i - 1) + 1 = i /\ i - 1 \in 1 .. m + 1 /\ i - 1 <= m
          BY <3>2
        <4>2. g[i] = f[i] /\ g[i - 1] = f[i - 1]
          BY <3>2, <4>1
        <4>3. f[i] = f[i - 1] \o ss[i]
          BY <2>2, <4>1
        <4> HIDE DEF g
        <4> QED
          BY <3>2, <4>2, <4>3
      <3>3. CASE i # 1 /\ i = m + 1
        <4>1. i - 1 = m /\ m \in 1 .. m + 1 /\ m <= m /\ ~(i <= m)
          BY <3>3
        <4>2. g[m] = f[m]
          BY <4>1
        <4>3. g[i] = f[m] \o ss[i]
          BY <3>3, <4>1
        <4> HIDE DEF g
        <4> QED
          BY <3>3, <4>1, <4>2, <4>3
      <3> QED
        BY <3>1, <3>2, <3>3
    <2>4. Flattens(g, ss, m + 1)
      <3> DEFINE h == [i \in 1 .. m + 1 |-> IF i = 1 THEN ss[i] ELSE g[i - 1] \o ss[i]]
      <3>1. DOMAIN g = 1 .. m + 1 /\ DOMAIN h = 1 .. m + 1
        OBVIOUS
      <3>2. \A i \in 1 .. m + 1 : g[i] = h[i]
        <4> HIDE DEF g
        <4> QED
          BY <2>3
      <3>3. g = [i \in 1 .. m + 1 |-> g[i]] /\ h = [i \in 1 .. m + 1 |-> h[i]]
        OBVIOUS
      <3>4. g = h
        <4> HIDE DEF g, h
        <4> QED
          BY <3>2, <3>3
      <3> HIDE DEF g
      <3> QED
        BY <3>4 DEF Flattens
    <2> HIDE DEF g
    <2> QED
      BY <2>4
  <1>3. G = Nat
    <2> HIDE DEF G
    <2>1. G \subseteq Nat
      BY DEF G
    <2> QED
      BY <1>1, <1>2, <2>1, Induction
  <1> QED
    BY <1>3

LEMMA FlattenIs ==
    ASSUME NEW ss, Len(ss) \in Nat, Len(ss) # 0
    PROVE  \E f : FlattenSeq(ss) = f[Len(ss)] /\ Flattens(f, ss, Len(ss))
  <1>1. \E f : Flattens(f, ss, Len(ss))
    BY FlattensExists
  <1>2. FlattenSeq(ss) = (CHOOSE f : Flattens(f, ss, Len(ss)))[Len(ss)]
    BY DEF FlattenSeq, Flattens
  <1> QED
    BY <1>1, <1>2

\* What is flattened from sequences over S is a sequence over S.
LEMMA FlattenType ==
    ASSUME NEW S, NEW ss \in Seq(Seq(S))
    PROVE  FlattenSeq(ss) \in Seq(S)
  <1>0. Len(ss) \in Nat /\ \A i \in 1 .. Len(ss) : ss[i] \in Seq(S)
    OBVIOUS
  <1>1. CASE Len(ss) = 0
    <2>1. ss = <<>>
      BY <1>1, <1>0
    <2> QED
      BY <1>1, <2>1 DEF FlattenSeq
  <1>2. CASE Len(ss) # 0
    <2>1. PICK f : FlattenSeq(ss) = f[Len(ss)] /\ Flattens(f, ss, Len(ss))
      BY <1>0, <1>2, FlattenIs
    <2>2. /\ f[1] = ss[1]
          /\ \A i \in 1 .. Len(ss) - 1 : f[i + 1] = f[i] \o ss[i + 1]
      <3>1. Len(ss) > 0
        BY <1>0, <1>2
      <3> QED
        BY <1>0, <2>1, <3>1, FlattensAt
    <2> DEFINE G == {n \in Nat : n \in 1 .. Len(ss) => f[n] \in Seq(S)}
    <2>3. 0 \in G
      OBVIOUS
    <2>4. ASSUME NEW n \in Nat, n \in G PROVE n + 1 \in G
      <3> SUFFICES ASSUME n + 1 \in 1 .. Len(ss) PROVE f[n + 1] \in Seq(S)
        OBVIOUS
      <3>1. CASE n = 0
        <4>1. n + 1 = 1 /\ 1 \in 1 .. Len(ss)
          BY <3>1
        <4>2. f[1] \in Seq(S)
          BY <1>0, <2>2, <4>1
        <4> QED
          BY <4>1, <4>2
      <3>2. CASE n # 0
        <4>1. n \in 1 .. Len(ss) - 1 /\ n \in 1 .. Len(ss)
          BY <1>0, <3>2
        <4>2. f[n + 1] = f[n] \o ss[n + 1]
          BY <2>2, <4>1
        <4>3. f[n] \in Seq(S) /\ ss[n + 1] \in Seq(S)
          BY <1>0, <2>4, <4>1
        <4> HIDE DEF G
        <4> QED
          BY <4>2, <4>3
      <3> QED
        BY <3>1, <3>2
    <2>5. G = Nat
      <3> HIDE DEF G
      <3>1. G \subseteq Nat
        BY DEF G
      <3> QED
        BY <2>3, <2>4, <3>1, Induction
    <2> QED
      BY <1>0, <1>2, <2>1, <2>5
  <1> QED
    BY <1>1, <1>2

\* It has the members of all of them.
LEMMA FlattenMembers ==
    ASSUME NEW S, NEW ss \in Seq(Seq(S)), NEW i \in 1 .. Len(ss)
    PROVE  ToSet(ss[i]) \subseteq ToSet(FlattenSeq(ss))
  <1>0. Len(ss) \in Nat /\ Len(ss) > 0 /\ \A j \in 1 .. Len(ss) : ss[j] \in Seq(S)
    OBVIOUS
  <1>1. PICK f : FlattenSeq(ss) = f[Len(ss)] /\ Flattens(f, ss, Len(ss))
    BY <1>0, FlattenIs
  <1>2. /\ f[1] = ss[1]
        /\ \A j \in 1 .. Len(ss) - 1 : f[j + 1] = f[j] \o ss[j + 1]
    BY <1>0, <1>1, FlattensAt
  <1> DEFINE G == {n \in Nat : n \in 1 .. Len(ss) =>
                     f[n] \in Seq(S) /\ (i <= n => ToSet(ss[i]) \subseteq ToSet(f[n]))}
  <1>3. 0 \in G
    OBVIOUS
  <1>4. ASSUME NEW n \in Nat, n \in G PROVE n + 1 \in G
    <2> SUFFICES ASSUME n + 1 \in 1 .. Len(ss)
                 PROVE  /\ f[n + 1] \in Seq(S)
                        /\ i <= n + 1 => ToSet(ss[i]) \subseteq ToSet(f[n + 1])
      OBVIOUS
    <2>1. CASE n = 0
      <3>1. n + 1 = 1 /\ 1 \in 1 .. Len(ss) /\ (i <= n + 1 => i = 1)
        BY <2>1
      <3> HIDE DEF G
      <3> QED
        BY <1>0, <1>2, <3>1
    <2>2. CASE n # 0
      <3>1. n \in 1 .. Len(ss) - 1 /\ n \in 1 .. Len(ss)
        BY <1>0, <2>2
      <3>2. f[n + 1] = f[n] \o ss[n + 1]
        BY <1>2, <3>1
      <3>3. f[n] \in Seq(S) /\ ss[n + 1] \in Seq(S)
        BY <1>0, <1>4, <3>1
      <3>4. i <= n => ToSet(ss[i]) \subseteq ToSet(f[n])
        BY <1>4, <3>1
      <3> HIDE DEF G
      <3>5. f[n + 1] \in Seq(S)
        BY <3>2, <3>3
      <3>6. ToSet(f[n]) \subseteq ToSet(f[n + 1]) /\ ToSet(ss[n + 1]) \subseteq ToSet(f[n + 1])
        BY <3>2, <3>3, ConcatMembers
      <3>7. i <= n + 1 => i <= n \/ i = n + 1
        OBVIOUS
      <3> QED
        BY <3>4, <3>5, <3>6, <3>7
    <2> QED
      BY <2>1, <2>2
  <1>5. G = Nat
    <2> HIDE DEF G
    <2>1. G \subseteq Nat
      BY DEF G
    <2> QED
      BY <1>3, <1>4, <2>1, Induction
  <1> QED
    BY <1>0, <1>1, <1>5, SMTT(30)

LEMMA AtPositionsType ==
    ASSUME NEW S, NEW s \in Seq(S), NEW P
    PROVE  AtPositions(s, P) \in Seq({s[k] : k \in (1 .. Len(s)) \cap P})
  <1> DEFINE T == {s[k] : k \in (1 .. Len(s)) \cap P}
             ss == [k \in DOMAIN s |-> IF k \in P THEN <<s[k]>> ELSE <<>>]
  <1>1. DOMAIN s = 1 .. Len(s) /\ Len(s) \in Nat
    OBVIOUS
  <1>2. ASSUME NEW k \in 1 .. Len(s)
        PROVE  (IF k \in P THEN <<s[k]>> ELSE <<>>) \in Seq(T)
    <2>1. CASE k \in P
      <3>1. s[k] \in T
        BY <2>1
      <3> HIDE DEF T
      <3> QED
        BY <2>1, <3>1
    <2>2. CASE k \notin P
      BY <2>2
    <2> QED
      BY <2>1, <2>2
  <1>3. ss \in Seq(Seq(T))
    <2> HIDE DEF T
    <2> QED
      BY <1>1, <1>2
  <1>4. AtPositions(s, P) = FlattenSeq(ss)
    BY DEF AtPositions
  <1> HIDE DEF T, ss
  <1>5. AtPositions(s, P) \in Seq(T)
    BY <1>3, <1>4, FlattenType
  <1> QED
    BY <1>5 DEF T

LEMMA AscendingType ==
    ASSUME NEW numbers, NEW n \in Nat
    PROVE  Ascending(numbers, n) \in Seq(numbers \cap (0 .. n))
  <1> DEFINE s == [k \in 1 .. n + 1 |-> k - 1]
             P == {k \in 1 .. n + 1 : k - 1 \in numbers}
             T == {s[k] : k \in (1 .. Len(s)) \cap P}
  <1>1. s \in Seq(0 .. n) /\ Len(s) = n + 1
    OBVIOUS
  <1>2. Ascending(numbers, n) = AtPositions(s, P)
    BY DEF Ascending
  <1>3. T \subseteq numbers \cap (0 .. n)
    BY <1>1
  <1>4. AtPositions(s, P) \in Seq(T)
    <2> HIDE DEF s, P
    <2> QED
      BY <1>1, AtPositionsType
  <1> HIDE DEF T
  <1> QED
    BY <1>2, <1>3, <1>4, SeqMonotonic

-----------------------------------------------------------------------------
(* The module: a sequence of functions, each a sequence of instructions    *)

IsModule(fs) == \E N, S : fs \in Seq([name : N, body : Seq(S)])

LEMMA ModuleIs ==
    ASSUME NEW fs, IsModule(fs)
    PROVE  /\ Len(fs) \in Nat /\ DOMAIN fs = 1 .. Len(fs)
           /\ \A f \in DOMAIN fs :
                /\ fs[f].body \in Seq(InstructionsOf(fs))
                /\ Len(fs[f].body) \in Nat
                /\ DOMAIN fs[f].body = 1 .. Len(fs[f].body)
                /\ fs[f] = [name |-> fs[f].name, body |-> fs[f].body]
                /\ \A k \in 1 .. Len(fs[f].body) : fs[f].body[k] \in InstructionsOf(fs)
           /\ \A i \in InstructionsOf(fs) : \E f \in DOMAIN fs : \E k \in DOMAIN fs[f].body :
                i = fs[f].body[k]
  <1>1. PICK N, S : fs \in Seq([name : N, body : Seq(S)])
    BY DEF IsModule
  <1>2. Len(fs) \in Nat /\ DOMAIN fs = 1 .. Len(fs)
    BY <1>1
  <1>3. ASSUME NEW f \in DOMAIN fs
        PROVE  /\ fs[f].body \in Seq(S)
               /\ fs[f] = [name |-> fs[f].name, body |-> fs[f].body]
    <2> DEFINE F == [name : N, body : Seq(S)]
    <2>1. fs[f] \in F
      <3> HIDE DEF F
      <3>1. fs \in Seq(F)
        BY <1>1 DEF F
      <3> QED
        BY <1>2, <3>1
    <2> QED
      BY <2>1
  <1>4. ASSUME NEW f \in DOMAIN fs
        PROVE  Len(fs[f].body) \in Nat /\ DOMAIN fs[f].body = 1 .. Len(fs[f].body)
    BY <1>3
  <1>5. ASSUME NEW f \in DOMAIN fs, NEW k \in 1 .. Len(fs[f].body)
        PROVE  fs[f].body[k] \in InstructionsOf(fs)
    BY <1>4 DEF InstructionsOf, ToSet
  <1>6. ASSUME NEW f \in DOMAIN fs PROVE fs[f].body \in Seq(InstructionsOf(fs))
    BY <1>3, <1>4, <1>5
  <1>7. ASSUME NEW i \in InstructionsOf(fs)
        PROVE  \E f \in DOMAIN fs : \E k \in DOMAIN fs[f].body : i = fs[f].body[k]
    BY DEF InstructionsOf, ToSet
  <1> QED
    BY <1>2, <1>3, <1>4, <1>5, <1>6, <1>7

\* The addresses of a module are bounded.
LEMMA AddressesBounded ==
    ASSUME NEW fs, IsModule(fs), \A i \in InstructionsOf(fs) : i.addr \in Nat
    PROVE  \E b \in Nat : \A addr \in Addresses(fs) : addr \in Nat /\ addr <= b
  <1> DEFINE g == [f \in DOMAIN fs |->
                     CHOOSE b \in Nat : \A k \in DOMAIN fs[f].body : fs[f].body[k].addr <= b]
  <1>1. Len(fs) \in Nat /\ DOMAIN fs = 1 .. Len(fs)
    BY ModuleIs
  <1>2. ASSUME NEW f \in DOMAIN fs
        PROVE  g[f] \in Nat /\ \A k \in DOMAIN fs[f].body : fs[f].body[k].addr <= g[f]
    <2> PICK body : body = fs[f].body
      OBVIOUS
    <2>1. /\ DOMAIN body = 1 .. Len(body) /\ Len(body) \in Nat
          /\ \A k \in 1 .. Len(body) : body[k].addr \in Nat
      BY ModuleIs
    <2> PICK h : h = [k \in DOMAIN body |-> body[k].addr]
      OBVIOUS
    <2>2. \A k \in 1 .. Len(body) : h[k] \in Nat
      BY <2>1
    <2>3. \E b \in Nat : \A k \in 1 .. Len(body) : h[k] <= b
      BY <2>1, <2>2, Bounded
    <2>4. \E b \in Nat : \A k \in DOMAIN fs[f].body : fs[f].body[k].addr <= b
      BY <2>1, <2>3
    <2> QED
      BY <2>4
  <1> HIDE DEF g
  <1>3. PICK b \in Nat : \A f \in 1 .. Len(fs) : g[f] <= b
    BY <1>1, <1>2, Bounded
  <1>4. ASSUME NEW i \in InstructionsOf(fs) PROVE i.addr \in Nat /\ i.addr <= b
    <2>1. PICK f \in DOMAIN fs : \E k \in DOMAIN fs[f].body : i = fs[f].body[k]
      BY ModuleIs
    <2>2. i.addr <= g[f] /\ g[f] <= b /\ i.addr \in Nat /\ g[f] \in Nat
      BY <1>1, <1>2, <1>3, <2>1
    <2> QED
      BY <2>2
  <1>5. Addresses(fs) = {i.addr : i \in InstructionsOf(fs)}
    BY DEF Addresses, InstructionsOf
  <1> QED
    BY <1>4, <1>5

\* b with before and new in the place of its element p.
Spliced(b, p, before, new) ==
    SubSeq(b, 1, p - 1) \o before \o <<new>> \o SubSeq(b, p + 1, Len(b))

\* The elements of r are those that b has with before and new in the place of
\* its element p.
IsSpliced(r, b, p, before, new) ==
    /\ Len(r) = Len(b) + Len(before)
    /\ \A k \in 1 .. p - 1 : r[k] = b[k]
    /\ \A k \in 1 .. Len(before) : r[p - 1 + k] = before[k]
    /\ r[p + Len(before)] = new
    /\ \A k \in p + 1 .. Len(b) : r[k + Len(before)] = b[k]

LEMMA Splice ==
    ASSUME NEW S, NEW b \in Seq(S), NEW before \in Seq(S), NEW new \in S,
           NEW p \in 1 .. Len(b)
    PROVE  /\ Spliced(b, p, before, new) \in Seq(S)
           /\ IsSpliced(Spliced(b, p, before, new), b, p, before, new)
  <1> DEFINE r == Spliced(b, p, before, new)
  <1> DEFINE first == SubSeq(b, 1, p - 1)
             last == SubSeq(b, p + 1, Len(b))
  <1>1. /\ first \in Seq(S) /\ Len(first) = p - 1
        /\ \A k \in 1 .. p - 1 : first[k] = b[k]
    OBVIOUS
  <1>2. /\ last \in Seq(S) /\ Len(last) = Len(b) - p
        /\ \A k \in 1 .. Len(b) - p : last[k] = b[p + k]
    OBVIOUS
  <1>3. Len(b) \in Nat /\ Len(before) \in Nat
    OBVIOUS
  <1> HIDE DEF first, last
  <1> DEFINE one == first \o before
             two == one \o <<new>>
  <1>4. /\ one \in Seq(S) /\ Len(one) = p - 1 + Len(before)
        /\ \A k \in 1 .. p - 1 : one[k] = b[k]
        /\ \A k \in 1 .. Len(before) : one[p - 1 + k] = before[k]
    <2>1. /\ one \in Seq(S) /\ Len(one) = Len(first) + Len(before)
          /\ \A k \in 1 .. Len(first) : one[k] = first[k]
          /\ \A k \in 1 .. Len(before) : one[Len(first) + k] = before[k]
      <3>1. first \in Seq(S) /\ before \in Seq(S)
        BY <1>1
      <3> QED
        BY <3>1, Concat
    <2> HIDE DEF one
    <2> QED
      BY <1>1, <2>1
  <1> HIDE DEF one
  <1>5. /\ two \in Seq(S) /\ Len(two) = p + Len(before)
        /\ \A k \in 1 .. p - 1 + Len(before) : two[k] = one[k]
        /\ two[p + Len(before)] = new
    <2>1. <<new>> \in Seq(S) /\ Len(<<new>>) = 1 /\ <<new>>[1] = new
      OBVIOUS
    <2>2. /\ two \in Seq(S) /\ Len(two) = Len(one) + Len(<<new>>)
          /\ \A k \in 1 .. Len(one) : two[k] = one[k]
          /\ \A k \in 1 .. Len(<<new>>) : two[Len(one) + k] = <<new>>[k]
      BY <1>4, <2>1
    <2>3. two[Len(one) + 1] = new
      <3>1. 1 \in 1 .. Len(<<new>>)
        BY <2>1
      <3> QED
        BY <2>1, <2>2, <3>1
    <2>4. Len(one) + 1 = p + Len(before)
      BY <1>3, <1>4
    <2> HIDE DEF two
    <2> QED
      BY <1>3, <1>4, <2>1, <2>2, <2>3, <2>4
  <1> HIDE DEF two
  <1>6. r = two \o last
    BY DEF Spliced, one, two, first, last
  <1> HIDE DEF r
  <1>7. /\ r \in Seq(S) /\ Len(r) = Len(b) + Len(before)
        /\ \A k \in 1 .. p + Len(before) : r[k] = two[k]
        /\ \A k \in 1 .. Len(b) - p : r[p + Len(before) + k] = last[k]
    <2>1. /\ r \in Seq(S) /\ Len(r) = Len(two) + Len(last)
          /\ \A k \in 1 .. Len(two) : r[k] = two[k]
          /\ \A k \in 1 .. Len(last) : r[Len(two) + k] = last[k]
      <3>1. two \in Seq(S) /\ last \in Seq(S)
        BY <1>2, <1>5
      <3> HIDE DEF two
      <3>2. /\ two \o last \in Seq(S) /\ Len(two \o last) = Len(two) + Len(last)
            /\ \A k \in 1 .. Len(two) : (two \o last)[k] = two[k]
            /\ \A k \in 1 .. Len(last) : (two \o last)[Len(two) + k] = last[k]
        BY <3>1, Concat
      <3> QED
        BY <1>6, <3>2
    <2>2. Len(two) = p + Len(before) /\ Len(last) = Len(b) - p
      BY <1>2, <1>5
    <2>3. Len(r) = Len(b) + Len(before)
      BY <1>3, <2>1, <2>2
    <2> QED
      BY <2>1, <2>2, <2>3
  <1>8. ASSUME NEW k \in 1 .. p - 1 PROVE r[k] = b[k]
    <2>1. k \in 1 .. p + Len(before) /\ k \in 1 .. p - 1 + Len(before)
      BY <1>3
    <2> QED
      BY <1>4, <1>5, <1>7, <2>1
  <1>9. ASSUME NEW k \in 1 .. Len(before) PROVE r[p - 1 + k] = before[k]
    <2>1. p - 1 + k \in 1 .. p + Len(before) /\ p - 1 + k \in 1 .. p - 1 + Len(before)
      BY <1>3
    <2> QED
      BY <1>4, <1>5, <1>7, <2>1
  <1>10. r[p + Len(before)] = new
    <2>1. p + Len(before) \in 1 .. p + Len(before)
      BY <1>3
    <2> QED
      BY <1>5, <1>7, <2>1
  <1>11. ASSUME NEW k \in p + 1 .. Len(b) PROVE r[k + Len(before)] = b[k]
    <2>1. k - p \in 1 .. Len(b) - p /\ p + Len(before) + (k - p) = k + Len(before) /\ p + (k - p) = k
      BY <1>3
    <2> QED
      BY <1>2, <1>7, <2>1
  <1> QED
    BY <1>7, <1>8, <1>9, <1>10, <1>11 DEF r, IsSpliced

Positioned ==
    /\ IsModule(functions)
    /\ at[1] \in DOMAIN functions
    /\ at[2] \in 1 .. Len(Body) + 1

\* What a visit does to the module.
LEMMA VisitStep ==
    ASSUME Positioned, at[2] <= Len(Body), NEW B, NEW before \in Seq(B), NEW new,
           Visit(before, new)
    PROVE  /\ Positioned'
           /\ DOMAIN functions' = DOMAIN functions
           /\ at'[1] = at[1] /\ at'[2] = at[2] + Len(before) + 1
           /\ \A f \in DOMAIN functions : functions'[f].name = functions[f].name
           /\ \A f \in DOMAIN functions \ {at[1]} : functions'[f] = functions[f]
           /\ Len(Body') = Len(Body) + Len(before)
           /\ \A k \in 1 .. at[2] - 1 : Body'[k] = Body[k]
           /\ \A k \in 1 .. Len(before) : Body'[at[2] - 1 + k] = before[k]
           /\ Body'[at[2] + Len(before)] = new
           /\ \A k \in at[2] + 1 .. Len(Body) : Body'[k + Len(before)] = Body[k]
           /\ InstructionsOf(functions') \subseteq
                InstructionsOf(functions) \cup ToSet(before) \cup {new}
  <1>1. PICK N, T : functions \in Seq([name : N, body : Seq(T)])
    BY DEF Positioned, IsModule
  <1> DEFINE S == T \cup B \cup {new}
             p == at[2]
             r == Spliced(Body, p, before, new)
  <1>2. /\ functions \in Seq([name : N, body : Seq(S)])
        /\ before \in Seq(S) /\ new \in S
    <2>1. T \subseteq S /\ B \subseteq S /\ new \in S
      OBVIOUS
    <2> HIDE DEF S
    <2>2. before \in Seq(S) /\ Seq(T) \subseteq Seq(S)
      BY <2>1, SeqMonotonic
    <2>3. [name : N, body : Seq(T)] \subseteq [name : N, body : Seq(S)]
      BY <2>2
    <2> DEFINE F == [name : N, body : Seq(T)]
               F2 == [name : N, body : Seq(S)]
    <2>4. functions \in Seq(F) /\ F \subseteq F2
      BY <1>1, <2>3
    <2> HIDE DEF F, F2
    <2>5. functions \in Seq(F2)
      BY <2>4, SeqMonotonic
    <2> QED
      BY <2>1, <2>2, <2>5 DEF F2
  <1>3. /\ at[1] \in 1 .. Len(functions) /\ DOMAIN functions = 1 .. Len(functions)
        /\ Body \in Seq(S) /\ Len(Body) \in Nat /\ p \in 1 .. Len(Body)
    <2>1. at[1] \in 1 .. Len(functions) /\ DOMAIN functions = 1 .. Len(functions)
      BY <1>2 DEF Positioned
    <2> DEFINE F == [name : N, body : Seq(S)]
    <2>2. functions[at[1]] \in F
      <3> HIDE DEF F
      <3>1. functions \in Seq(F)
        BY <1>2 DEF F
      <3> QED
        BY <2>1, <3>1
    <2>3. Body \in Seq(S)
      BY <2>2 DEF Body
    <2> HIDE DEF S
    <2> QED
      BY <2>1, <2>3 DEF Positioned
  <1>4. /\ r \in Seq(S) /\ Len(r) = Len(Body) + Len(before)
        /\ \A k \in 1 .. p - 1 : r[k] = Body[k]
        /\ \A k \in 1 .. Len(before) : r[p - 1 + k] = before[k]
        /\ r[p + Len(before)] = new
        /\ \A k \in p + 1 .. Len(Body) : r[k + Len(before)] = Body[k]
    <2> HIDE DEF S
    <2>1. r = Spliced(Body, p, before, new)
      OBVIOUS
    <2>2. Body \in Seq(S) /\ before \in Seq(S) /\ new \in S /\ p \in 1 .. Len(Body)
      BY <1>2, <1>3
    <2> HIDE DEF r, p
    <2> PICK b : b = Body
      OBVIOUS
    <2>3. b \in Seq(S) /\ before \in Seq(S) /\ new \in S /\ p \in 1 .. Len(b)
      BY <2>2
    <2>4. r = Spliced(b, p, before, new)
      BY <2>1
    <2>5. r \in Seq(S) /\ IsSpliced(r, b, p, before, new)
      BY <2>3, <2>4, Splice
    <2> QED
      BY <2>5 DEF IsSpliced
  <1>5. functions' = [functions EXCEPT ![at[1]].body = r] /\ at' = <<at[1], p + Len(before) + 1>>
    BY DEF Visit, Body, Spliced
  <1> HIDE DEF S, r
  <1>6. /\ DOMAIN functions' = DOMAIN functions
        /\ functions' \in Seq([name : N, body : Seq(S)])
        /\ \A f \in DOMAIN functions : functions'[f].name = functions[f].name
        /\ \A f \in DOMAIN functions \ {at[1]} : functions'[f] = functions[f]
        /\ functions'[at[1]].body = r
    <2> DEFINE F == [name : N, body : Seq(S)]
    <2>0. functions[at[1]] \in F
      <3> HIDE DEF F
      <3>1. functions \in Seq(F)
        BY <1>2 DEF F
      <3> QED
        BY <1>3, <3>1
    <2>1. /\ functions[at[1]] \in F
          /\ functions' = [functions EXCEPT ![at[1]] = [functions[at[1]] EXCEPT !.body = r]]
      BY <1>5, <2>0
    <2>2. PICK g : g = [functions[at[1]] EXCEPT !.body = r]
      OBVIOUS
    <2>3. g \in F /\ g.name = functions[at[1]].name /\ g.body = r
      BY <1>4, <2>1, <2>2
    <2>4. functions' = [functions EXCEPT ![at[1]] = g]
      BY <2>1, <2>2
    <2> HIDE DEF F
    <2>5. /\ functions' \in Seq(F)
          /\ DOMAIN functions' = DOMAIN functions
          /\ functions'[at[1]] = g
          /\ \A f \in DOMAIN functions \ {at[1]} : functions'[f] = functions[f]
      <3>1. functions \in Seq(F)
        BY <1>2 DEF F
      <3> QED
        BY <1>3, <2>3, <2>4, <3>1, ExceptSeq
    <2> QED
      BY <2>3, <2>5 DEF F
  <1>7. at'[1] = at[1] /\ at'[2] = p + Len(before) + 1 /\ Body' = r
    BY <1>5, <1>6 DEF Body
  <1>8. Len(before) \in Nat
    OBVIOUS
  <1>9. Positioned'
    <2>1. IsModule(functions')
      BY <1>6 DEF IsModule
    <2>2. at'[1] \in DOMAIN functions'
      BY <1>3, <1>6, <1>7
    <2>3. at'[2] \in 1 .. Len(Body') + 1
      BY <1>3, <1>4, <1>7, <1>8
    <2> QED
      BY <2>1, <2>2, <2>3 DEF Positioned
  <1>10. ASSUME NEW k \in 1 .. Len(r)
         PROVE  r[k] \in ToSet(Body) \cup ToSet(before) \cup {new}
    <2>0. DOMAIN Body = 1 .. Len(Body) /\ DOMAIN before = 1 .. Len(before)
      BY <1>3
    <2>1. CASE k \in 1 .. p - 1
      <3>1. r[k] = Body[k] /\ k \in DOMAIN Body
        BY <1>3, <1>4, <2>0, <2>1
      <3> QED
        BY <3>1 DEF ToSet
    <2>2. CASE k \in p .. p + Len(before) - 1
      <3>1. k - p + 1 \in 1 .. Len(before) /\ p - 1 + (k - p + 1) = k
        BY <1>3, <1>8, <2>2
      <3> QED
        BY <1>4, <2>0, <3>1, SMTT(30) DEF ToSet
    <2>3. CASE k = p + Len(before)
      BY <1>4, <2>3
    <2>4. CASE k > p + Len(before)
      <3>1. k - Len(before) \in p + 1 .. Len(Body) /\ (k - Len(before)) + Len(before) = k
        BY <1>3, <1>4, <1>8, <2>4
      <3>2. r[k] = Body[k - Len(before)] /\ k - Len(before) \in DOMAIN Body
        BY <1>3, <1>4, <2>0, <3>1, SMTT(30)
      <3> QED
        BY <3>2 DEF ToSet
    <2>5. \/ k \in 1 .. p - 1 \/ k \in p .. p + Len(before) - 1
          \/ k = p + Len(before) \/ k > p + Len(before)
      <3>1. k \in Nat /\ p \in Nat /\ k >= 1
        BY <1>3, <1>4
      <3> HIDE DEF p
      <3> QED
        BY <1>8, <3>1
    <2> QED
      BY <2>1, <2>2, <2>3, <2>4, <2>5
  <1>11. ASSUME NEW i \in InstructionsOf(functions')
         PROVE  i \in InstructionsOf(functions) \cup ToSet(before) \cup {new}
    <2>0. PICK f \in DOMAIN functions : \E k \in DOMAIN functions'[f].body : i = functions'[f].body[k]
      BY <1>6, <1>11 DEF InstructionsOf, ToSet
    <2>1. PICK k \in DOMAIN functions'[f].body : i = functions'[f].body[k]
      BY <2>0
    <2>2. CASE f = at[1]
      <3>1. k \in 1 .. Len(r) /\ i = r[k]
        BY <1>4, <1>6, <2>1, <2>2
      <3>2. ToSet(Body) \subseteq InstructionsOf(functions)
        BY <1>3, SMTT(30) DEF InstructionsOf, Body, ToSet
      <3> QED
        BY <1>10, <3>1, <3>2
    <2>3. CASE f # at[1]
      <3>1. functions'[f] = functions[f]
        BY <1>6, <2>3
      <3> QED
        BY <2>1, <3>1 DEF InstructionsOf, ToSet
    <2> QED
      BY <2>2, <2>3
  <1> QED
    BY <1>4, <1>6, <1>7, <1>9, <1>11
-----------------------------------------------------------------------------
(* The inductive invariant                                                 *)

RecordOf(op, fn, args, meta, tags, addr, src) ==
    [op |-> op, fn |-> fn, args |-> args, meta |-> meta, tags |-> tags, addr |-> addr, src |-> src]

IsRecord(i) == i = RecordOf(i.op, i.fn, i.args, i.meta, i.tags, i.addr, i.src)

\* What is so of every instruction of the module.
IsInstruction(i) ==
    /\ IsRecord(i)
    /\ i.op \in {"call", "invoke", "icall", "cast", "br", "ret"}
    /\ Len(i.args) \in Nat
    /\ i.addr \in Nat
    /\ \A m \in i.meta : m.id \in Nat
    /\ \A t \in i.tags : ToSet(t) \subseteq Nat
    /\ i.meta # {} => IsDirectCall(i) /\ i.addr # 0 /\ i.fn \in DOMAIN Signature

\* What is so of every instruction before the first is inserted.
IsOfProgram(i) ==
    /\ i.addr # 0
    /\ IsDirectCall(i) => i.fn \in DOMAIN Signature

\* Names that no function of a program has.
Reserved == OwnFunctions \cup ToSet(WrapperName)

\* The operands of an instruction are a sequence.
HasOperands(i) == i.args = [k \in 1 .. Len(i.args) |-> i.args[k]]

\* A call passes every parameter that is declared.
PassesDeclared(i) == IsDirectCall(i) => Len(Signature[i.fn].params) <= Len(i.args)

\* What is so of every instruction of the input.
IsOfInput(i) ==
    /\ i.src = i.addr /\ i.meta = {} /\ i.tags = {} /\ i.fn \notin Reserved
    /\ HasOperands(i) /\ PassesDeclared(i)

\* What is so of what a pass inserts, but for the calls of the wrappers.
IsMade(i) == i.meta = {} /\ i.src = 0 /\ (IsDirectCall(i) => i.fn \in OwnFunctions)

OpensOrCloses(i) == i.fn \in {"clam_prov_logging_init", "clam_prov_logging_shutdown"}

\* The passes that begin with the first function.
Beginnings == {"start", "configure", "remove_sources", "configure_logging"}

BeforeLogging == Passes \ {"add_logging", "done", "crashed"}
BeforeTags == {"start", "print", "configure", "add_metadata", "add_sources", "wrap_sinks"}
BeforeSources == {"start", "print", "configure", "add_metadata"}

\* The calls that wait to be wrapped are calls of the current function.
WorkListInv ==
    /\ calls_to_wrap \in Seq(DOMAIN output_param_map)
    /\ \A m, n \in 1 .. Len(calls_to_wrap) : calls_to_wrap[m] = calls_to_wrap[n] => m = n
    /\ \A n \in 1 .. Len(calls_to_wrap) :
         \E k \in DOMAIN Body : Body[k].addr = calls_to_wrap[n] /\ Body[k].meta # {}
    /\ calls_to_wrap # <<>> => pass \in {"wrap_sinks", "crashed"} /\ ~IsWrapper(FunctionName)

OutputsInv == \A addr \in DOMAIN output_param_map : output_param_map[addr] \in Seq(Nat)

\* The log is opened and closed in the first p - 1 instructions of function f
\* as it must be, and not at all in the rest.
Bracketed(f, p) ==
    LET body == functions[f].body IN
    \A k \in DOMAIN body :
      IF k < p
      THEN /\ body[k].fn = "clam_prov_logging_init" <=> k = 1 /\ functions[f].name = "main"
           /\ body[k].fn = "clam_prov_logging_shutdown" <=>
                /\ functions[f].name = "main"
                /\ k + 1 < p /\ body[k + 1].op = "ret"
      ELSE ~OpensOrCloses(body[k])

\* Where AddLogging has got to in function f.
LoggedTo(f) ==
    IF pass = "done" \/ f < at[1] THEN Len(functions[f].body) + 1
    ELSE IF f = at[1] THEN at[2] ELSE 1

LoggingInv ==
    /\ pass \in BeforeLogging =>
         logging = NoLogging /\ \A i \in InstructionsOf(functions) : ~OpensOrCloses(i)
    /\ pass = "add_logging" \/ (pass = "done" /\ LoggingIsOn(logging)) =>
         \A f \in DOMAIN functions : Bracketed(f, LoggedTo(f))

ModuleInv ==
    /\ Positioned
    /\ \A i \in InstructionsOf(functions) : IsInstruction(i)
    /\ pass \in BeforeSources => \A i \in InstructionsOf(functions) : IsOfProgram(i)
    /\ pass \in Beginnings => at = <<1, 1>>
    /\ pass = "start" => functions = arguments.input /\ freed = {}
    /\ DOMAIN input \subseteq DOMAIN functions

\* No two instructions have one address.
Distinct(fs) ==
    \A f, g \in DOMAIN fs : \A k \in DOMAIN fs[f].body, l \in DOMAIN fs[g].body :
      fs[f].body[k].addr = fs[g].body[l].addr /\ fs[f].body[k].addr # 0 => f = g /\ k = l

\* The addresses, while WrapSinks still needs them.
AddressInv ==
    pass \in BeforeTags =>
      /\ Distinct(functions)
      /\ freed \subseteq Nat \ {0}
      /\ freed \cap Addresses(functions) = {}
      /\ \E b \in Nat : \A addr \in freed : addr <= b

\* The names of the wrappers that are not there yet are free.
Unused == {WrapperName[n] : n \in wrappers + 1 .. Len(WrapperName)}
NamesInv == \A f \in DOMAIN functions : functions[f].name \notin Unused

PassesInv ==
    /\ arguments \in Arguments
    /\ pass \in Passes
    /\ call_site_counter \in Nat
    /\ wrappers \in 0 .. Len(WrapperName)
    /\ ModuleInv
    /\ WorkListInv
    /\ OutputsInv
    /\ LoggingInv
    /\ AddressInv
    /\ NamesInv

-----------------------------------------------------------------------------
(* Lemmas about the steps                                                  *)

\* A visit that changes nothing.
LEMMA VisitSame ==
    ASSUME Positioned, at[2] <= Len(Body), Visit(<<>>, Current)
    PROVE  /\ functions' = functions
           /\ at' = <<at[1], at[2] + 1>>
           /\ Positioned'
  <1>1. /\ Len(functions) \in Nat /\ DOMAIN functions = 1 .. Len(functions)
        /\ Body \in Seq(InstructionsOf(functions))
        /\ functions[at[1]] = [name |-> functions[at[1]].name, body |-> Body]
        /\ at[1] \in DOMAIN functions /\ at[2] \in 1 .. Len(Body)
        /\ \E N, S : functions \in Seq([name : N, body : Seq(S)])
    <2>1. at[1] \in DOMAIN functions /\ IsModule(functions)
      BY DEF Positioned
    <2>2. /\ Len(functions) \in Nat /\ DOMAIN functions = 1 .. Len(functions)
          /\ functions[at[1]].body \in Seq(InstructionsOf(functions))
          /\ functions[at[1]] = [name |-> functions[at[1]].name, body |-> functions[at[1]].body]
      BY <2>1, ModuleIs
    <2>3. at[2] \in 1 .. Len(Body)
      BY <2>2 DEF Positioned, Body
    <2> QED
      BY <2>1, <2>2, <2>3 DEF Body, IsModule
  <1>2. SubSeq(Body, 1, at[2] - 1) \o <<>> \o <<Current>> \o SubSeq(Body, at[2] + 1, Len(Body)) = Body
    <2> PICK S : S = InstructionsOf(functions)
      OBVIOUS
    <2> PICK b, p : b = Body /\ p = at[2]
      OBVIOUS
    <2>1. b \in Seq(S) /\ p \in 1 .. Len(b) /\ Current = b[p]
      BY <1>1 DEF Current
    <2>2. b[p] \in S /\ <<>> \in Seq(S) /\ Len(b) \in Nat
      BY <2>1
    <2>3. Spliced(b, p, <<>>, b[p]) \in Seq(S) /\ IsSpliced(Spliced(b, p, <<>>, b[p]), b, p, <<>>, b[p])
      BY <2>1, <2>2, Splice
    <2> PICK r : r = Spliced(b, p, <<>>, b[p])
      OBVIOUS
    <2>4. /\ r \in Seq(S) /\ Len(r) = Len(b) + Len(<<>>)
          /\ \A k \in 1 .. p - 1 : r[k] = b[k]
          /\ r[p + Len(<<>>)] = b[p]
          /\ \A k \in p + 1 .. Len(b) : r[k + Len(<<>>)] = b[k]
      BY <2>3 DEF IsSpliced
    <2>5. Len(r) = Len(b) /\ r[p] = b[p] /\ \A k \in p + 1 .. Len(b) : r[k] = b[k]
      BY <2>1, <2>2, <2>4
    <2>6. \A k \in 1 .. Len(b) : r[k] = b[k]
      BY <2>1, <2>2, <2>4, <2>5
    <2>7. r = b
      BY <2>1, <2>4, <2>5, <2>6
    <2> QED
      BY <2>1, <2>7 DEF Spliced
  <1>3. functions' = [functions EXCEPT ![at[1]].body = Body] /\ at' = <<at[1], at[2] + 1>>
    <2>1. at[2] + Len(<<>>) + 1 = at[2] + 1
      BY <1>1
    <2>2. functions' = [functions EXCEPT ![at[1]].body =
            SubSeq(Body, 1, at[2] - 1) \o <<>> \o <<Current>> \o SubSeq(Body, at[2] + 1, Len(Body))]
      BY DEF Visit, Body
    <2>3. at' = <<at[1], at[2] + Len(<<>>) + 1>>
      BY DEF Visit
    <2> QED
      BY <1>2, <2>1, <2>2, <2>3
  <1>4. functions' = functions
    <2>0. \A x, y : [[name |-> x, body |-> y] EXCEPT !.body = y] = [name |-> x, body |-> y]
      OBVIOUS
    <2>1. [functions[at[1]] EXCEPT !.body = Body] = functions[at[1]]
      BY <1>1, <2>0
    <2>2. functions' = [functions EXCEPT ![at[1]] = [functions[at[1]] EXCEPT !.body = Body]]
      BY <1>3
    <2> QED
      BY <1>1, <2>1, <2>2
  <1>5. Positioned'
    <2>1. IsModule(functions')
      BY <1>4 DEF Positioned
    <2>2. at'[1] = at[1] /\ at'[2] = at[2] + 1 /\ Body' = Body
      BY <1>3, <1>4 DEF Body
    <2>3. Len(Body) \in Nat
      BY <1>1
    <2>4. at'[2] \in 1 .. Len(Body') + 1
      BY <1>1, <2>2, <2>3
    <2> QED
      BY <1>1, <1>4, <2>1, <2>2, <2>4 DEF Positioned
  <1> QED
    BY <1>3, <1>4, <1>5

\* What may be in a module before clam-prov inserts anything.
Clean(fs) ==
    /\ IsModule(fs)
    /\ \A i \in InstructionsOf(fs) :
         IsInstruction(i) /\ ~OpensOrCloses(i) /\ IsOfProgram(i) /\ IsOfInput(i)
    /\ Distinct(fs)
    /\ \A f \in DOMAIN fs : fs[f].name \notin Reserved

LEMMA NamesOfModule ==
    ASSUME NEW fs, NEW f \in DOMAIN fs
    PROVE  fs[f].name \in Named(fs)
  <1>1. fs[f] \in ToSet(fs)
    BY DEF ToSet
  <1>2. {fs[f].name} \cup {i.fn : i \in ToSet(fs[f].body)} \subseteq Named(fs)
    BY <1>1 DEF Named
  <1> QED
    BY <1>2

LEMMA OperandsAreSequence ==
    ASSUME NEW i, NEW n \in Nat, NEW args, i.args = args, args = [k \in 1 .. n |-> args[k]]
    PROVE  HasOperands(i)
  <1>1. Len(args) = n
    OBVIOUS
  <1> QED
    BY <1>1 DEF HasOperands

LEMMA NoOperands ==
    ASSUME NEW i, i.args = <<>>
    PROVE  HasOperands(i)
  <1>1. <<>> = [k \in 1 .. 0 |-> <<>>[k]]
    OBVIOUS
  <1> QED
    BY <1>1, OperandsAreSequence

LEMMA SequenceOperands ==
    ASSUME NEW i, NEW S, i.args \in Seq(S)
    PROVE  HasOperands(i)
  <1> PICK args : args = i.args
    OBVIOUS
  <1>1. Len(args) \in Nat /\ args = [k \in 1 .. Len(args) |-> args[k]]
    OBVIOUS
  <1> QED
    BY <1>1, OperandsAreSequence

LEMMA PassesAll ==
    ASSUME NEW i, NEW n \in Nat, NEW args, i.args = args, Len(args) = n,
           NEW params, Signature[i.fn].params = params, Len(params) = n
    PROVE  PassesDeclared(i)
  <1>1. Len(params) <= Len(args)
    OBVIOUS
  <1> QED
    BY <1>1 DEF PassesDeclared

\* The input of clam-prov.
LEMMA InputIsClean ==
    ASSUME NEW arg \in Arguments
    PROVE  Clean(arg.input) /\ 1 \in DOMAIN arg.input
  <1> DEFINE fs == arg.input
             F == [name : STRING, body : Seq(InputInstruction)]
  <1>1. /\ fs \in Seq(F) /\ fs # <<>>
        /\ Named(fs) \cap (OwnFunctions \cup ToSet(WrapperName)) = {}
    BY ArgumentsAssumption
  <1>2. IsModule(fs)
    BY <1>1 DEF IsModule
  <1>3. ASSUME NEW i \in InstructionsOf(fs)
        PROVE  IsInstruction(i) /\ ~OpensOrCloses(i) /\ IsOfProgram(i) /\ IsOfInput(i)
    <2>1. PICK f \in DOMAIN fs : \E k \in DOMAIN fs[f].body : i = fs[f].body[k]
      BY <1>2, ModuleIs
    <2>2. PICK k \in DOMAIN fs[f].body : i = fs[f].body[k]
      BY <2>1
    <2>3. fs[f] \in F
      <3> HIDE DEF F
      <3> QED
        BY <1>1
    <2>4. i \in InputInstruction
      <3> HIDE DEF fs
      <3>1. fs[f].body \in Seq(InputInstruction)
        BY <2>3
      <3> QED
        BY <2>2, <3>1
    <2>5. IsInstruction(i) /\ i.addr # 0
      <3>1. IsRecord(i)
        BY <2>4 DEF InputInstruction, IsRecord, RecordOf
      <3> QED
        BY <2>4, <3>1 DEF InputInstruction, IsInstruction
    <2>6. i \in ToSet(fs[f].body) /\ fs[f] \in ToSet(fs)
      <3> HIDE DEF fs
      <3> QED
        BY <2>2 DEF ToSet
    <2>7. i.fn \in Named(fs)
      <3> HIDE DEF fs
      <3> QED
        BY <2>6 DEF Named
    <2>8. IsDirectCall(i) => i.fn \in DOMAIN Signature
      BY <2>6, SignatureAssumption
    <2>9. i.src = i.addr
      BY <2>6, ArgumentsAssumption
    <2>10. i.meta = {} /\ i.tags = {}
      BY <2>4 DEF InputInstruction
    <2>12. HasOperands(i)
      BY <2>4, SequenceOperands DEF InputInstruction
    <2>13. PassesDeclared(i)
      BY <2>6, VerifierAssumption DEF PassesDeclared
    <2>11. IsOfInput(i)
      BY <1>1, <2>7, <2>9, <2>10, <2>12, <2>13 DEF IsOfInput, Reserved
    <2> QED
      BY <1>1, <2>5, <2>7, <2>8, <2>11 DEF OwnFunctions, OpensOrCloses, IsOfProgram
  <1>4. 1 \in DOMAIN fs
    <2> HIDE DEF F, fs
    <2> QED
      BY <1>1
  <1>5. Distinct(fs)
    BY ArgumentsAssumption DEF Distinct
  <1>6. \A f \in DOMAIN fs : fs[f].name \notin Reserved
    BY <1>1, NamesOfModule DEF Reserved
  <1> QED
    BY <1>2, <1>3, <1>4, <1>5, <1>6 DEF Clean

LEMMA MembersAreFinite ==
    ASSUME NEW S, NEW s \in Seq(S)
    PROVE  IsFiniteSet(ToSet(s)) /\ Cardinality(ToSet(s)) \in Nat
  <1>1. IsFiniteSet(1 .. Len(s)) /\ DOMAIN s = 1 .. Len(s)
    BY FS_Interval
  <1>2. s \in Surjection(1 .. Len(s), ToSet(s))
    <2>1. s \in [1 .. Len(s) -> ToSet(s)]
      BY <1>1 DEF ToSet
    <2> QED
      BY <1>1, <2>1 DEF Surjection, ToSet
  <1>3. IsFiniteSet(ToSet(s))
    BY <1>1, <1>2, FS_Surjection
  <1> QED
    BY <1>3, FS_CardinalityType

\* What a new main is made for.
GetsMain(arg) == arg \in Arguments /\ arg.add_main /\ "main" \notin Named(arg.input)

\* There is a name for the function of every type.
LEMMA NondetFnIsNamed ==
    ASSUME NEW arg, GetsMain(arg), NEW f \in DOMAIN arg.input,
           NEW k \in DOMAIN Signature[arg.input[f].name].params
    PROVE  NondetFn(arg.input, Signature[arg.input[f].name].params[k]) \in ToSet(NondetName)
  <1> DEFINE fs == arg.input
             ss == [g \in DOMAIN fs |-> Signature[fs[g].name].params]
             types == ParameterTypes(fs)
             type == ss[f][k]
             first == Min({n \in DOMAIN types : types[n] = type})
             used == {types[n] : n \in 1 .. first}
             P == {n \in DOMAIN NondetName : NondetName[n] \notin Named(fs)}
  <1>1. /\ DOMAIN fs = 1 .. Len(fs) /\ Len(fs) \in Nat
        /\ \A g \in DOMAIN fs : fs[g].name \in DOMAIN Signature
        /\ Cardinality(ToSet(types)) <= Len(FreeNames(fs))
    <2>1. IsModule(fs)
      BY InputIsClean DEF Clean, GetsMain
    <2>2. DOMAIN fs = 1 .. Len(fs) /\ Len(fs) \in Nat
      BY <2>1, ModuleIs
    <2>3. \A g \in ToSet(fs) : g.name \in DOMAIN Signature
      BY SignatureAssumption DEF GetsMain
    <2>4. Cardinality(ToSet(types)) <= Len(FreeNames(fs))
      BY SignatureAssumption DEF GetsMain
    <2> HIDE DEF fs
    <2>5. \A g \in DOMAIN fs : fs[g].name \in DOMAIN Signature
      BY <2>3 DEF ToSet
    <2> QED
      BY <2>2, <2>4, <2>5
  <1>2. ss \in Seq(Seq(STRING)) /\ types = FlattenSeq(ss) /\ f \in 1 .. Len(ss) /\ k \in DOMAIN ss[f]
    <2>1. types = FlattenSeq(ss)
      BY DEF ParameterTypes
    <2>2. f \in DOMAIN fs /\ k \in DOMAIN Signature[fs[f].name].params
      OBVIOUS
    <2> HIDE DEF fs
    <2>3. \A g \in DOMAIN fs : Signature[fs[g].name].params \in Seq(STRING)
      BY <1>1, SignatureAssumption
    <2>4. ss \in Seq(Seq(STRING)) /\ Len(ss) = Len(fs) /\ ss[f] = Signature[fs[f].name].params
      BY <1>1, <2>2, <2>3
    <2> QED
      BY <1>1, <2>1, <2>2, <2>4
  <1>3. types \in Seq(STRING) /\ type \in ToSet(types)
    <2>1. type \in ToSet(ss[f])
      <3> HIDE DEF ss, types
      <3> QED
        BY <1>2 DEF ToSet
    <2> HIDE DEF ss, types, type
    <2> QED
      BY <1>2, <2>1, FlattenType, FlattenMembers
  <1>4. first \in DOMAIN types
    <2> HIDE DEF types, type
    <2> DEFINE T == {n \in DOMAIN types : types[n] = type}
    <2>1. T \in SUBSET Nat /\ T # {}
      BY <1>3 DEF ToSet
    <2>2. \E x \in T : \A y \in T : x <= y
      <3> HIDE DEF T
      <3> QED
        BY <2>1, Least
    <2>3. first \in T
      <3> HIDE DEF T
      <3>1. Min(T) \in T
        BY <2>2 DEF Min
      <3> QED
        BY <3>1 DEF T
    <2> QED
      BY <2>3
  <1>5. Cardinality(used) \in 1 .. Len(FreeNames(fs))
    <2> HIDE DEF types, first
    <2>1. IsFiniteSet(ToSet(types)) /\ Cardinality(ToSet(types)) \in Nat
      BY <1>3, MembersAreFinite
    <2>2. used \subseteq ToSet(types) /\ types[first] \in used
      <3>1. first \in 1 .. first /\ \A n \in 1 .. first : n \in DOMAIN types
        BY <1>3, <1>4
      <3>2. \A n \in DOMAIN types : types[n] \in ToSet(types)
        BY DEF ToSet
      <3> QED
        BY <3>1, <3>2
    <2> HIDE DEF used
    <2>3. IsFiniteSet(used) /\ Cardinality(used) \in Nat /\ Cardinality(used) <= Cardinality(ToSet(types))
      BY <2>1, <2>2, FS_Subset, FS_CardinalityType
    <2>4. Cardinality(used) # 0
      BY <2>2, <2>3, FS_EmptySet
    <2>5. Len(FreeNames(fs)) \in Nat
      <3>1. AtPositions(NondetName, P) \in Seq({NondetName[n] : n \in (1 .. Len(NondetName)) \cap P})
        BY NamesAssumption, AtPositionsType
      <3> QED
        BY <3>1 DEF FreeNames
    <2> QED
      BY <1>1, <2>1, <2>3, <2>4, <2>5
  <1>6. FreeNames(fs)[Cardinality(used)] \in ToSet(NondetName)
    <2> DEFINE T == {NondetName[n] : n \in (1 .. Len(NondetName)) \cap P}
    <2>1. FreeNames(fs) = AtPositions(NondetName, P)
      BY DEF FreeNames
    <2>2. T \subseteq ToSet(NondetName)
      BY NamesAssumption DEF ToSet
    <2>3. AtPositions(NondetName, P) \in Seq(T)
      <3> HIDE DEF P
      <3> QED
        BY NamesAssumption, AtPositionsType
    <2> HIDE DEF T, P, used
    <2> QED
      BY <1>5, <2>1, <2>2, <2>3
  <1>7. NondetFn(fs, type) = FreeNames(fs)[Cardinality(used)]
    BY DEF NondetFn
  <1>8. type = Signature[arg.input[f].name].params[k]
    OBVIOUS
  <1> QED
    BY <1>6, <1>7, <1>8

\* gs is fs with other bodies.
HasBodies(gs, fs, B) ==
    /\ DOMAIN gs = DOMAIN fs
    /\ \A f \in DOMAIN fs : gs[f].name = fs[f].name /\ gs[f].body = B[f]

WithBodies(fs, B) == [f \in DOMAIN fs |-> [fs[f] EXCEPT !.body = B[f]]]

LEMMA NewBodies ==
    ASSUME NEW fs, IsModule(fs), NEW E, NEW B \in [DOMAIN fs -> Seq(E)]
    PROVE  IsModule(WithBodies(fs, B)) /\ HasBodies(WithBodies(fs, B), fs, B)
  <1> PICK gs : gs = WithBodies(fs, B)
    OBVIOUS
  <1>1. PICK N, S : fs \in Seq([name : N, body : Seq(S)])
    BY DEF IsModule
  <1> DEFINE F == [name : N, body : Seq(S)]
             G == [name : N, body : Seq(E)]
  <1>2. fs \in Seq(F)
    BY <1>1
  <1>3. ASSUME NEW x \in F, NEW b \in Seq(E)
        PROVE  /\ [x EXCEPT !.body = b] \in G
               /\ [x EXCEPT !.body = b].name = x.name
               /\ [x EXCEPT !.body = b].body = b
    OBVIOUS
  <1> HIDE DEF F, G
  <1>4. DOMAIN fs = 1 .. Len(fs) /\ Len(fs) \in Nat /\ DOMAIN gs = DOMAIN fs
    BY <1>2 DEF WithBodies
  <1>5. ASSUME NEW f \in DOMAIN fs
        PROVE  gs[f] \in G /\ gs[f].name = fs[f].name /\ gs[f].body = B[f]
    <2>1. fs[f] \in F /\ B[f] \in Seq(E) /\ gs[f] = [fs[f] EXCEPT !.body = B[f]]
      BY <1>2, <1>4 DEF WithBodies
    <2> QED
      BY <1>3, <2>1
  <1>6. gs \in Seq(G)
    <2> PICK n : n = Len(fs)
      OBVIOUS
    <2>1. gs = [f \in DOMAIN gs |-> gs[f]]
      BY DEF WithBodies
    <2>2. n \in Nat /\ gs = [f \in 1 .. n |-> gs[f]] /\ \A f \in 1 .. n : gs[f] \in G
      BY <1>4, <1>5, <2>1
    <2>3. gs \in [1 .. n -> G]
      BY <2>2
    <2> QED
      BY <2>2, <2>3
  <1> QED
    BY <1>4, <1>5, <1>6 DEF IsModule, G, HasBodies

\* gs is fs with one more function.
HasOneMore(gs, fs, function) ==
    /\ DOMAIN gs = 1 .. Len(fs) + 1
    /\ \A f \in DOMAIN fs : f \in DOMAIN gs /\ gs[f] = fs[f]
    /\ gs[Len(fs) + 1] = function

WithFunction(fs, name, b) == Append(fs, [name |-> name, body |-> b])

LEMMA OneMoreFunction ==
    ASSUME NEW fs, IsModule(fs), NEW E, NEW b \in Seq(E), NEW name
    PROVE  /\ IsModule(WithFunction(fs, name, b))
           /\ HasOneMore(WithFunction(fs, name, b), fs, [name |-> name, body |-> b])
  <1> PICK gs : gs = WithFunction(fs, name, b)
    OBVIOUS
  <1>1. PICK N, S : fs \in Seq([name : N, body : Seq(S)])
    BY DEF IsModule
  <1> DEFINE F == [name : N, body : Seq(S)]
             G == [name : N \cup {name}, body : Seq(S \cup E)]
             new == [name |-> name, body |-> b]
  <1>2. F \subseteq G /\ new \in G
    <2>1. Seq(S) \subseteq Seq(S \cup E) /\ Seq(E) \subseteq Seq(S \cup E)
      BY SeqMonotonic
    <2> QED
      BY <2>1
  <1>3. fs \in Seq(F)
    BY <1>1
  <1> HIDE DEF F, G, new
  <1>4. fs \in Seq(G)
    BY <1>2, <1>3, SeqMonotonic
  <1>5. /\ gs \in Seq(G) /\ DOMAIN gs = 1 .. Len(fs) + 1 /\ DOMAIN fs = 1 .. Len(fs)
        /\ \A f \in 1 .. Len(fs) : f \in 1 .. Len(fs) + 1 /\ gs[f] = fs[f]
        /\ gs[Len(fs) + 1] = new
    <2>1. gs = Append(fs, new)
      BY DEF new, WithFunction
    <2> QED
      BY <1>2, <1>4, <2>1
  <1> QED
    BY <1>5 DEF IsModule, G, new, HasOneMore

\* A record with another value in one of its fields.
LEMMA RecordFields ==
    ASSUME NEW i, NEW op, NEW fn, NEW args, NEW meta, NEW tags, NEW addr, NEW src,
           i = RecordOf(op, fn, args, meta, tags, addr, src)
    PROVE  /\ IsRecord(i) /\ i.op = op /\ i.fn = fn /\ i.args = args
           /\ i.meta = meta /\ i.tags = tags /\ i.addr = addr /\ i.src = src
  <1>1. /\ i.op = op /\ i.fn = fn /\ i.args = args
        /\ i.meta = meta /\ i.tags = tags /\ i.addr = addr /\ i.src = src
    BY DEF RecordOf
  <1> QED
    BY <1>1 DEF IsRecord

WithMeta(i, meta) == [i EXCEPT !.meta = meta]

LEMMA WithMetaIs ==
    ASSUME NEW i, IsRecord(i), NEW meta, NEW j, j = WithMeta(i, meta)
    PROVE  /\ IsRecord(j) /\ j.meta = meta
           /\ j.op = i.op /\ j.fn = i.fn /\ j.args = i.args
           /\ j.tags = i.tags /\ j.addr = i.addr /\ j.src = i.src
  <1> PICK op, fn, args, tags, addr, src, old :
        /\ op = i.op /\ fn = i.fn /\ args = i.args /\ tags = i.tags
        /\ addr = i.addr /\ src = i.src /\ old = i.meta
    OBVIOUS
  <1> DEFINE r == RecordOf(op, fn, args, old, tags, addr, src)
  <1>1. i = r
    BY DEF IsRecord
  <1>2. [r EXCEPT !.meta = meta] = RecordOf(op, fn, args, meta, tags, addr, src)
    BY DEF RecordOf
  <1> HIDE DEF r
  <1>3. j = RecordOf(op, fn, args, meta, tags, addr, src)
    BY <1>1, <1>2, Zenon DEF WithMeta
  <1> QED
    BY <1>3, RecordFields

WithTags(i, tags) == [i EXCEPT !.tags = tags]

LEMMA WithTagsIs ==
    ASSUME NEW i, IsRecord(i), NEW tags, NEW j, j = WithTags(i, tags)
    PROVE  /\ IsRecord(j) /\ j.tags = tags
           /\ j.op = i.op /\ j.fn = i.fn /\ j.args = i.args
           /\ j.meta = i.meta /\ j.addr = i.addr /\ j.src = i.src
  <1> PICK op, fn, args, meta, addr, src, old :
        /\ op = i.op /\ fn = i.fn /\ args = i.args /\ meta = i.meta
        /\ addr = i.addr /\ src = i.src /\ old = i.tags
    OBVIOUS
  <1> DEFINE r == RecordOf(op, fn, args, meta, old, addr, src)
  <1>1. i = r
    BY DEF IsRecord
  <1>2. [r EXCEPT !.tags = tags] = RecordOf(op, fn, args, meta, tags, addr, src)
    BY DEF RecordOf
  <1> HIDE DEF r
  <1>3. j = RecordOf(op, fn, args, meta, tags, addr, src)
    BY <1>1, <1>2, Zenon DEF WithTags
  <1> QED
    BY <1>3, RecordFields

\* The call of the original in a wrapper.
AsFormal(i, a, formals) == [i EXCEPT !.op = "call", !.addr = a, !.args = formals]

LEMMA AsFormalIs ==
    ASSUME NEW i, IsRecord(i), NEW a, NEW formals, NEW j, j = AsFormal(i, a, formals)
    PROVE  /\ IsRecord(j) /\ j.op = "call" /\ j.addr = a /\ j.args = formals
           /\ j.fn = i.fn /\ j.tags = i.tags /\ j.meta = i.meta /\ j.src = i.src
  <1> PICK op, fn, args, meta, tags, addr, src :
        /\ op = i.op /\ fn = i.fn /\ args = i.args /\ meta = i.meta /\ tags = i.tags
        /\ addr = i.addr /\ src = i.src
    OBVIOUS
  <1> DEFINE r == RecordOf(op, fn, args, meta, tags, addr, src)
  <1>1. i = r
    BY DEF IsRecord
  <1>2. [r EXCEPT !.op = "call"] = RecordOf("call", fn, args, meta, tags, addr, src)
    BY DEF RecordOf
  <1>3. [RecordOf("call", fn, args, meta, tags, addr, src) EXCEPT !.addr = a]
          = RecordOf("call", fn, args, meta, tags, a, src)
    BY DEF RecordOf
  <1>4. [RecordOf("call", fn, args, meta, tags, a, src) EXCEPT !.args = formals]
          = RecordOf("call", fn, formals, meta, tags, a, src)
    BY DEF RecordOf
  <1> HIDE DEF r
  <1> PICK x, y : x = [r EXCEPT !.op = "call"] /\ y = [x EXCEPT !.addr = a]
    OBVIOUS
  <1>5. j = [y EXCEPT !.args = formals]
    BY <1>1 DEF AsFormal
  <1>6. y = RecordOf("call", fn, args, meta, tags, a, src)
    BY <1>2, <1>3, Zenon
  <1>7. j = RecordOf("call", fn, formals, meta, tags, a, src)
    BY <1>4, <1>5, <1>6, Zenon
  <1> QED
    BY <1>7, RecordFields

\* An instruction that a pass makes.
LEMMA NewInstruction ==
    ASSUME NEW op, NEW fn, NEW args
    PROVE  /\ Instruction(op, fn, args).op = op
           /\ Instruction(op, fn, args).fn = fn
           /\ Instruction(op, fn, args).args = args
           /\ Instruction(op, fn, args).meta = {}
           /\ Instruction(op, fn, args).tags = {}
           /\ Instruction(op, fn, args).addr = 0
           /\ Instruction(op, fn, args).src = 0
           /\ IsRecord(Instruction(op, fn, args))
  <1> PICK i : i = Instruction(op, fn, args)
    OBVIOUS
  <1>1. i = RecordOf(op, fn, args, {}, {}, 0, 0)
    BY DEF Instruction, RecordOf
  <1> QED
    BY <1>1, RecordFields

LEMMA MadeInstruction ==
    ASSUME NEW op, NEW fn, NEW args, NEW i, i = Instruction(op, fn, args)
    PROVE  /\ i.op = op /\ i.fn = fn /\ i.args = args
           /\ i.meta = {} /\ i.tags = {} /\ i.addr = 0 /\ i.src = 0 /\ IsRecord(i)
  <1>1. i = RecordOf(op, fn, args, {}, {}, 0, 0)
    BY DEF Instruction, RecordOf
  <1> QED
    BY <1>1, RecordFields

Placed(i, a) == [i EXCEPT !.addr = a, !.src = a]

LEMMA PlacedInstruction ==
    ASSUME NEW op, NEW fn, NEW args, NEW a
    PROVE  /\ Placed(Instruction(op, fn, args), a).op = op
           /\ Placed(Instruction(op, fn, args), a).fn = fn
           /\ Placed(Instruction(op, fn, args), a).args = args
           /\ Placed(Instruction(op, fn, args), a).meta = {}
           /\ Placed(Instruction(op, fn, args), a).tags = {}
           /\ Placed(Instruction(op, fn, args), a).addr = a
           /\ Placed(Instruction(op, fn, args), a).src = a
           /\ IsRecord(Placed(Instruction(op, fn, args), a))
  <1> PICK i : i = Placed(Instruction(op, fn, args), a)
    OBVIOUS
  <1>1. i = RecordOf(op, fn, args, {}, {}, a, a)
    BY DEF Instruction, Placed, RecordOf
  <1> QED
    BY <1>1, RecordFields

AtAddress(i, a) == [i EXCEPT !.addr = a]

LEMMA InstructionAtAddress ==
    ASSUME NEW op, NEW fn, NEW args, NEW a
    PROVE  /\ AtAddress(Instruction(op, fn, args), a).op = op
           /\ AtAddress(Instruction(op, fn, args), a).fn = fn
           /\ AtAddress(Instruction(op, fn, args), a).args = args
           /\ AtAddress(Instruction(op, fn, args), a).meta = {}
           /\ AtAddress(Instruction(op, fn, args), a).tags = {}
           /\ AtAddress(Instruction(op, fn, args), a).addr = a
           /\ AtAddress(Instruction(op, fn, args), a).src = 0
           /\ IsRecord(AtAddress(Instruction(op, fn, args), a))
  <1> PICK i : i = AtAddress(Instruction(op, fn, args), a)
    OBVIOUS
  <1>1. i = RecordOf(op, fn, args, {}, {}, a, 0)
    BY DEF Instruction, AtAddress, RecordOf
  <1> QED
    BY <1>1, RecordFields

\* The main that a library gets is like any other function.
LEMMA WithMainIsClean ==
    ASSUME NEW arg \in Arguments, arg.add_main
    PROVE  Clean(WithMain(arg.input)) /\ DOMAIN arg.input \subseteq DOMAIN WithMain(arg.input)
  <1> DEFINE fs == arg.input
  <1>1. Clean(fs) /\ IsModule(fs)
    BY InputIsClean DEF Clean
  <1>2. CASE "main" \in Named(fs)
    BY <1>1, <1>2 DEF WithMain
  <1>3. CASE "main" \notin Named(fs)
    <2>0. GetsMain(arg)
      BY <1>3 DEF GetsMain
    <2> DEFINE nondet(f) == [k \in DOMAIN Signature[fs[f].name].params |->
                               NondetFn(fs, Signature[fs[f].name].params[k])]
               calls(f) == [k \in DOMAIN nondet(f) |-> Instruction("call", nondet(f)[k], <<>>)]
               values(f) == [k \in DOMAIN nondet(f) |-> <<"nondet", nondet(f)[k]>>]
               ss == [f \in DOMAIN fs |->
                        Append(calls(f), Instruction("call", fs[f].name, values(f)))]
               D == {Instruction("call", name, <<>>) : name \in ToSet(NondetName)}
                      \cup {Instruction("call", fs[f].name, values(f)) : f \in DOMAIN fs}
                      \cup {Instruction("ret", "", <<>>)}
               body == DummyBody(fs)
               place(k) == Max(Addresses(fs)) + k
               b == [k \in DOMAIN body |->
                       [body[k] EXCEPT !.addr = place(k), !.src = place(k)]]
               E == {b[k] : k \in DOMAIN body}
    <2>1. ASSUME NEW f \in DOMAIN fs
          PROVE  /\ ss[f] \in Seq(D) /\ Len(values(f)) \in Nat
                 /\ values(f) = [k \in 1 .. Len(values(f)) |-> values(f)[k]]
                 /\ Len(values(f)) = Len(Signature[fs[f].name].params)
      <3>1. f \in DOMAIN arg.input /\ fs[f].name \in DOMAIN Signature
        <4>1. \A g \in ToSet(fs) : g.name \in DOMAIN Signature
          BY <2>0, SignatureAssumption DEF GetsMain
        <4> QED
          BY <4>1 DEF ToSet
      <3>2. Signature[fs[f].name].params \in Seq(STRING)
        BY <3>1, SignatureAssumption
      <3>3. \A k \in DOMAIN Signature[fs[f].name].params : nondet(f)[k] \in ToSet(NondetName)
        BY <2>0, NondetFnIsNamed
      <3> PICK params : params = Signature[fs[f].name].params
        OBVIOUS
      <3> PICK g : g = nondet(f)
        OBVIOUS
      <3>4. /\ params \in Seq(STRING) /\ DOMAIN g = DOMAIN params
            /\ \A k \in DOMAIN params : g[k] \in ToSet(NondetName)
        BY <3>2, <3>3
      <3>5. calls(f) = [k \in DOMAIN g |-> Instruction("call", g[k], <<>>)]
        OBVIOUS
      <3>6. values(f) = [k \in DOMAIN g |-> <<"nondet", g[k]>>]
        OBVIOUS
      <3>7. Instruction("call", fs[f].name, values(f)) \in D
        OBVIOUS
      <3>8. \A name \in ToSet(NondetName) : Instruction("call", name, <<>>) \in D
        OBVIOUS
      <3>9. ss[f] = Append(calls(f), Instruction("call", fs[f].name, values(f)))
        OBVIOUS
      <3> HIDE DEF D, calls, values, nondet, fs, ss
      <3>10. calls(f) \in Seq(D)
        BY <3>4, <3>5, <3>8
      <3>11. Len(values(f)) \in Nat /\ values(f) = [k \in 1 .. Len(values(f)) |-> values(f)[k]]
        BY <3>4, <3>6
      <3>12. Len(values(f)) = Len(params)
        BY <3>4, <3>6
      <3> QED
        BY <3>7, <3>9, <3>10, <3>11, <3>12
    <2>2. ASSUME NEW d \in D, NEW a \in Nat \ {0},
                 NEW i, i = Placed(d, a)
          PROVE  IsInstruction(i) /\ ~OpensOrCloses(i) /\ IsOfProgram(i) /\ IsOfInput(i) /\ i.addr = a
      <3>1. ASSUME NEW op, NEW fn, NEW args, d = Instruction(op, fn, args)
            PROVE  /\ i.op = op /\ i.fn = fn /\ i.args = args
                   /\ i.meta = {} /\ i.tags = {} /\ i.addr = a /\ i.src = a /\ IsRecord(i)
        <4> HIDE DEF D
        <4>1. i = Placed(Instruction(op, fn, args), a)
          BY <2>2, <3>1, Zenon
        <4> PICK j : j = Placed(Instruction(op, fn, args), a)
          OBVIOUS
        <4>2. /\ j.op = op /\ j.fn = fn /\ j.args = args
              /\ j.meta = {} /\ j.tags = {} /\ j.addr = a /\ j.src = a /\ IsRecord(j)
          BY PlacedInstruction
        <4> QED
          BY <4>1, <4>2
      <3>3. Len(<<>>) \in Nat
        OBVIOUS
      <3>4. CASE \E name \in ToSet(NondetName) : d = Instruction("call", name, <<>>)
        <4>1. PICK name \in ToSet(NondetName) : d = Instruction("call", name, <<>>)
          BY <3>4
        <4>2. /\ i.op = "call" /\ i.fn = name /\ i.args = <<>>
              /\ i.meta = {} /\ i.tags = {} /\ i.addr = a /\ i.src = a /\ IsRecord(i)
          BY <3>1, <4>1
        <4>3. name \notin OwnFunctions /\ name \notin Reserved /\ name \in DOMAIN Signature
          BY NamesAssumption, SignatureAssumption DEF Reserved
        <4>4. HasOperands(i)
          BY <4>2, NoOperands
        <4>5. PassesDeclared(i)
          <5>1. Signature[i.fn].params = <<>>
            BY <4>2, SignatureAssumption
          <5>2. Len(<<>>) = 0
            OBVIOUS
          <5> QED
            BY <4>2, <5>1, <5>2, PassesAll
        <4> QED
          BY <3>3, <4>2, <4>3, <4>4, <4>5
          DEF IsInstruction, IsDirectCall, IsOfProgram, IsOfInput, OpensOrCloses, OwnFunctions
      <3>5. CASE \E f \in DOMAIN fs : d = Instruction("call", fs[f].name, values(f))
        <4>1. PICK f \in DOMAIN fs : d = Instruction("call", fs[f].name, values(f))
          BY <3>5
        <4>2. /\ i.op = "call" /\ i.fn = fs[f].name /\ i.args = values(f)
              /\ i.meta = {} /\ i.tags = {} /\ i.addr = a /\ i.src = a /\ IsRecord(i)
          BY <3>1, <4>1
        <4>3. Len(values(f)) \in Nat
          BY <2>1
        <4>4. fs[f].name \notin OwnFunctions /\ fs[f].name \notin Reserved /\ fs[f].name \in DOMAIN Signature
          <5>1. fs[f].name \in Named(fs)
            BY NamesOfModule
          <5>2. \A g \in ToSet(fs) : g.name \in DOMAIN Signature
            BY <2>0, SignatureAssumption DEF GetsMain
          <5>3. fs[f] \in ToSet(fs)
            BY DEF ToSet
          <5> QED
            BY <5>1, <5>2, <5>3, ArgumentsAssumption DEF Reserved
        <4>5. values(f) = [k \in 1 .. Len(values(f)) |-> values(f)[k]]
          BY <2>1
        <4> HIDE DEF fs, values
        <4>6. HasOperands(i)
          BY <4>2, <4>3, <4>5, OperandsAreSequence
        <4>7. PassesDeclared(i)
          <5>1. PICK args, params : args = values(f) /\ params = Signature[fs[f].name].params
            OBVIOUS
          <5>2. Len(args) = Len(params) /\ Len(args) \in Nat
            BY <2>1, <4>3, <5>1
          <5>3. i.args = args /\ Signature[i.fn].params = params
            BY <4>2, <5>1
          <5> QED
            BY <5>2, <5>3, PassesAll
        <4> QED
          BY <4>2, <4>3, <4>4, <4>6, <4>7
          DEF IsInstruction, IsDirectCall, IsOfProgram, IsOfInput, OpensOrCloses, OwnFunctions
      <3>6. CASE d = Instruction("ret", "", <<>>)
        <4>1. /\ i.op = "ret" /\ i.fn = "" /\ i.args = <<>>
              /\ i.meta = {} /\ i.tags = {} /\ i.addr = a /\ i.src = a /\ IsRecord(i)
          BY <3>1, <3>6
        <4> QED
          <5> DEFINE name == ""
          <5>1. name \notin Reserved
            BY WrappersHaveNames, Zenon DEF Reserved, OwnFunctions
          <5>2. name \notin {"clam_prov_logging_init", "clam_prov_logging_shutdown"}
            BY Zenon
          <5>3. i.fn = name
            BY <4>1, Zenon
          <5>5. HasOperands(i)
            BY <4>1, NoOperands
          <5>6. PassesDeclared(i)
            BY <4>1 DEF PassesDeclared, IsDirectCall
          <5>4. /\ i.op = "ret" /\ Len(i.args) \in Nat
                /\ i.meta = {} /\ i.tags = {} /\ i.addr = a /\ i.src = a /\ IsRecord(i)
            BY <3>3, <4>1
          <5> HIDE DEF name
          <5> HIDE <4>1
          <5> QED
            BY <5>1, <5>2, <5>3, <5>4, <5>5, <5>6
            DEF IsInstruction, IsDirectCall, IsOfProgram, IsOfInput, OpensOrCloses
      <3> QED
        BY <3>4, <3>5, <3>6
    <2>3. body \in Seq(D)
      <3>1. body = FlattenSeq(ss) \o <<Instruction("ret", "", <<>>)>>
        BY DEF DummyBody
      <3>2. ss \in Seq(Seq(D)) /\ Instruction("ret", "", <<>>) \in D
        <4>1. DOMAIN fs = 1 .. Len(fs) /\ Len(fs) \in Nat
          BY <1>1, ModuleIs
        <4>2. DOMAIN ss = DOMAIN fs /\ Instruction("ret", "", <<>>) \in D
          OBVIOUS
        <4>3. \A f \in DOMAIN fs : ss[f] \in Seq(D)
          BY <2>1
        <4>4. ss = [f \in DOMAIN fs |-> ss[f]]
          OBVIOUS
        <4> HIDE DEF D, ss, fs
        <4> PICK Q : Q = Seq(D)
          OBVIOUS
        <4> PICK n : n = Len(fs)
          OBVIOUS
        <4>5. \A f \in 1 .. n : ss[f] \in Q
          BY <4>1, <4>3
        <4>6. n \in Nat /\ ss = [f \in 1 .. n |-> ss[f]]
          BY <4>1, <4>2, <4>4
        <4>7. ss \in [1 .. n -> Q]
          BY <4>5, <4>6
        <4>8. ss \in Seq(Q)
          BY <4>6, <4>7
        <4> QED
          BY <4>2, <4>8
      <3> HIDE DEF D, ss, body
      <3>3. FlattenSeq(ss) \in Seq(D)
        BY <3>2, FlattenType
      <3> PICK ret : ret = Instruction("ret", "", <<>>)
        OBVIOUS
      <3>4. ret \in D
        BY <3>2
      <3>5. <<ret>> \in Seq(D)
        BY <3>4, OneElement, Zenon
      <3> QED
        BY <3>1, <3>3, <3>5, Concat
    <2>4. /\ \A k \in DOMAIN body : place(k) \in Nat \ {0} /\ place(k) \notin Addresses(fs)
          /\ \A k, l \in DOMAIN body : place(k) = place(l) => k = l
      <3>1. PICK bound \in Nat : \A addr \in Addresses(fs) : addr \in Nat /\ addr <= bound
        BY <1>1, AddressesBounded DEF Clean, IsInstruction
      <3>2. Addresses(fs) # {}
        <4>1. 1 \in DOMAIN fs /\ fs[1] \in ToSet(fs)
          BY InputIsClean DEF ToSet
        <4>2. fs[1].body # <<>>
          BY <4>1, ArgumentsAssumption
        <4>3. 1 \in DOMAIN fs[1].body
          <5>1. fs[1].body \in Seq(InstructionsOf(fs))
            BY <1>1, <4>1, ModuleIs
          <5> QED
            BY <4>2, <5>1
        <4>4. fs[1].body[1] \in ToSet(fs[1].body)
          BY <4>3 DEF ToSet
        <4> QED
          BY <4>1, <4>4 DEF Addresses
      <3>3. /\ Max(Addresses(fs)) \in Addresses(fs)
            /\ \A addr \in Addresses(fs) : addr <= Max(Addresses(fs))
        BY <3>1, <3>2, Greatest
      <3>4. DOMAIN body = 1 .. Len(body) /\ Len(body) \in Nat
        <4> HIDE DEF D, body
        <4> QED
          BY <2>3
      <3> HIDE DEF fs, body
      <3> PICK m : m = Max(Addresses(fs))
        OBVIOUS
      <3>5. m \in Nat /\ \A addr \in Addresses(fs) : addr \in Nat /\ addr <= m
        BY <3>1, <3>3
      <3>6. \A k \in DOMAIN body : k \in Nat /\ k > 0
        BY <3>4
      <3>7. \A k \in DOMAIN body : place(k) = m + k
        OBVIOUS
      <3> HIDE DEF place
      <3> QED
        BY <3>5, <3>6, <3>7
    <2>40. /\ b \in Seq(E) /\ DOMAIN b = DOMAIN body
           /\ \A k \in DOMAIN body :
                /\ IsInstruction(b[k]) /\ ~OpensOrCloses(b[k])
                /\ IsOfProgram(b[k]) /\ IsOfInput(b[k])
                /\ b[k].addr = place(k)
      <3>1. \A k \in DOMAIN body : body[k] \in D
        <4> HIDE DEF D, body
        <4> QED
          BY <2>3
      <3>2. ASSUME NEW k \in DOMAIN body
            PROVE  /\ IsInstruction(b[k]) /\ ~OpensOrCloses(b[k])
                /\ IsOfProgram(b[k]) /\ IsOfInput(b[k])
                   /\ b[k].addr = place(k)
        <4>1. b[k] = Placed(body[k], place(k))
          BY DEF Placed
        <4>2. body[k] \in D /\ place(k) \in Nat \ {0}
          BY <2>4, <3>1
        <4> HIDE DEF D, b, body, place
        <4> PICK i, d, a : i = b[k] /\ d = body[k] /\ a = place(k)
          OBVIOUS
        <4>3. i = Placed(d, a) /\ d \in D /\ a \in Nat \ {0}
          BY <4>1, <4>2
        <4>4. IsInstruction(i) /\ ~OpensOrCloses(i) /\ IsOfProgram(i) /\ IsOfInput(i) /\ i.addr = a
          BY <2>2, <4>3
        <4> QED
          BY <4>4
      <3>3. DOMAIN b = DOMAIN body
        OBVIOUS
      <3>4. DOMAIN body = 1 .. Len(body) /\ Len(body) \in Nat
        <4> HIDE DEF D, body
        <4> QED
          BY <2>3
      <3>5. b = [k \in DOMAIN body |-> b[k]]
        OBVIOUS
      <3> HIDE DEF b, body, place
      <3>6. b \in Seq(E)
        <4> PICK n : n = Len(body)
          OBVIOUS
        <4>1. b \in [1 .. n -> E]
          BY <3>4, <3>5
        <4> QED
          BY <3>4, <4>1
      <3> QED
        BY <3>2, <3>3, <3>6
    <2>41. \A i \in E : IsInstruction(i) /\ ~OpensOrCloses(i) /\ IsOfProgram(i) /\ IsOfInput(i)
      <3> HIDE DEF b, body
      <3> QED
        BY <2>40
    <2>5. WithMain(fs) = Append(fs, [name |-> "main", body |-> b])
      BY <1>3 DEF WithMain
    <2>6. ToSet(b) \subseteq E
      <3>1. DOMAIN b = DOMAIN body
        OBVIOUS
      <3> HIDE DEF b, body
      <3> QED
        BY <3>1 DEF ToSet
    <2> HIDE DEF b, E, fs, body, place
    <2> PICK gs : gs = WithMain(fs)
      OBVIOUS
    <2>7. /\ IsModule(gs)
          /\ DOMAIN gs = 1 .. Len(fs) + 1
          /\ \A f \in DOMAIN fs : f \in DOMAIN gs /\ gs[f] = fs[f]
          /\ gs[Len(fs) + 1] = [name |-> "main", body |-> b]
      <3> PICK name : name = "main"
        OBVIOUS
      <3>1. gs = WithFunction(fs, name, b)
        BY <2>5 DEF WithFunction
      <3>2. IsModule(fs) /\ b \in Seq(E)
        BY <1>1, <2>40
      <3> QED
        BY <3>1, <3>2, OneMoreFunction DEF HasOneMore
    <2>8. DOMAIN fs = 1 .. Len(fs) /\ Len(fs) \in Nat
      BY <1>1, ModuleIs
    <2>80. gs[Len(fs) + 1].body = b /\ gs[Len(fs) + 1].name = "main"
      BY <2>7
    <2>9. ASSUME NEW i \in InstructionsOf(gs)
          PROVE  IsInstruction(i) /\ ~OpensOrCloses(i) /\ IsOfProgram(i) /\ IsOfInput(i)
      <3>1. PICK f \in DOMAIN gs : \E k \in DOMAIN gs[f].body : i = gs[f].body[k]
        BY <2>7, ModuleIs
      <3>3. CASE f \in DOMAIN fs
        <4>1. i \in InstructionsOf(fs)
          BY <2>7, <3>1, <3>3 DEF InstructionsOf, ToSet
        <4> QED
          BY <1>1, <4>1 DEF Clean
      <3>4. CASE f = Len(fs) + 1
        <4>1. i \in ToSet(b)
          BY <2>80, <3>1, <3>4 DEF ToSet
        <4> QED
          BY <2>41, <2>6, <4>1
      <3> QED
        BY <2>7, <2>8, <3>3, <3>4
    <2>10. Distinct(gs)
      <3> SUFFICES ASSUME NEW f \in DOMAIN gs, NEW g \in DOMAIN gs,
                          NEW k \in DOMAIN gs[f].body, NEW l \in DOMAIN gs[g].body,
                          gs[f].body[k].addr = gs[g].body[l].addr
                   PROVE  f = g /\ k = l
        BY DEF Distinct
      <3>1. (f \in DOMAIN fs \/ f = Len(fs) + 1) /\ (g \in DOMAIN fs \/ g = Len(fs) + 1)
        BY <2>7, <2>8
      <3>2. ASSUME NEW h \in DOMAIN fs, NEW m \in DOMAIN fs[h].body
            PROVE  fs[h].body[m].addr \in Addresses(fs) /\ fs[h].body[m].addr # 0
        <4>1. fs[h].body[m] \in InstructionsOf(fs)
          BY DEF InstructionsOf, ToSet
        <4>2. Addresses(fs) = {i.addr : i \in InstructionsOf(fs)}
          BY DEF Addresses, InstructionsOf
        <4> QED
          BY <1>1, <4>1, <4>2 DEF Clean, IsOfProgram
      <3>3. CASE f \in DOMAIN fs /\ g \in DOMAIN fs
        <4>1. k \in DOMAIN fs[f].body /\ l \in DOMAIN fs[g].body /\ fs[f].body[k].addr # 0
              /\ fs[f].body[k].addr = fs[g].body[l].addr
          BY <2>7, <3>2, <3>3
        <4> QED
          BY <1>1, <3>3, <4>1 DEF Clean, Distinct
      <3>4. CASE f \in DOMAIN fs /\ g = Len(fs) + 1
        <4>1. l \in DOMAIN body /\ gs[g].body[l].addr \notin Addresses(fs)
          BY <2>4, <2>40, <2>80, <3>4
        <4> QED
          BY <2>7, <3>2, <3>4, <4>1
      <3>5. CASE f = Len(fs) + 1 /\ g \in DOMAIN fs
        <4>1. k \in DOMAIN body /\ gs[f].body[k].addr \notin Addresses(fs)
          BY <2>4, <2>40, <2>80, <3>5
        <4> QED
          BY <2>7, <3>2, <3>5, <4>1
      <3>6. CASE f = Len(fs) + 1 /\ g = Len(fs) + 1
        <4>1. k \in DOMAIN body /\ l \in DOMAIN body /\ place(k) = place(l)
          BY <2>40, <2>80, <3>6
        <4> QED
          BY <2>4, <3>6, <4>1
      <3> QED
        BY <3>1, <3>3, <3>4, <3>5, <3>6
    <2>11. \A f \in DOMAIN gs : gs[f].name \notin Reserved
      <3> TAKE f \in DOMAIN gs
      <3>1. CASE f \in DOMAIN fs
        BY <1>1, <2>7, <3>1 DEF Clean
      <3>2. CASE f = Len(fs) + 1
        BY <2>80, <3>2, NamesAssumption DEF Reserved, OwnFunctions
      <3> QED
        BY <2>7, <2>8, <3>1, <3>2
    <2> QED
      BY <2>7, <2>8, <2>9, <2>10, <2>11 DEF Clean, fs
  <1> QED
    BY <1>2, <1>3

-----------------------------------------------------------------------------
(* Steps keep the invariant                                                *)

LEMMA CurrentIs ==
    ASSUME Positioned, at[2] <= Len(Body)
    PROVE  Current \in InstructionsOf(functions)
  <1>1. at[1] \in DOMAIN functions /\ IsModule(functions)
    BY DEF Positioned
  <1>2. /\ Len(functions[at[1]].body) \in Nat
        /\ \A k \in 1 .. Len(functions[at[1]].body) :
             functions[at[1]].body[k] \in InstructionsOf(functions)
    BY <1>1, ModuleIs
  <1>3. at[2] \in 1 .. Len(Body)
    BY <1>2 DEF Positioned, Body
  <1> QED
    BY <1>2, <1>3 DEF Current, Body

\* A visit puts no address into a second place.
LEMMA VisitAddresses ==
    ASSUME Positioned, at[2] <= Len(Body), NEW B, NEW before \in Seq(B), NEW new,
           Visit(before, new), Distinct(functions),
           \A i \in ToSet(before) : i.addr = 0, new.addr = Current.addr
    PROVE  /\ Distinct(functions')
           /\ Addresses(functions') \subseteq Addresses(functions) \cup {0}
  <1> PICK p, m, n : p = at[2] /\ m = Len(before) /\ n = Len(Body)
    OBVIOUS
  <1> DEFINE Moved(f, k) == IF f # at[1] \/ k < p THEN k ELSE k + m
  <1>1. /\ DOMAIN functions' = DOMAIN functions
        /\ \A f \in DOMAIN functions \ {at[1]} : functions'[f] = functions[f]
        /\ Len(Body') = n + m
        /\ \A k \in 1 .. p - 1 : Body'[k] = Body[k]
        /\ \A k \in 1 .. m : Body'[p - 1 + k] = before[k]
        /\ Body'[p + m] = new
        /\ \A k \in p + 1 .. n : Body'[k + m] = Body[k]
        /\ IsModule(functions') /\ at'[1] = at[1]
    BY VisitStep, SMTT(30) DEF Positioned
  <1>2. /\ DOMAIN before = 1 .. m /\ m \in Nat
        /\ at[1] \in DOMAIN functions /\ IsModule(functions)
        /\ DOMAIN Body = 1 .. n /\ n \in Nat /\ p \in 1 .. n
    <2>1. at[1] \in DOMAIN functions /\ IsModule(functions)
      BY DEF Positioned
    <2>2. DOMAIN Body = 1 .. n /\ n \in Nat
      BY <2>1, ModuleIs DEF Body
    <2> QED
      BY <2>1, <2>2 DEF Positioned
  <1>3. functions[at[1]].body = Body /\ functions'[at[1]].body = Body' /\ DOMAIN Body' = 1 .. n + m
    <2>1. functions[at[1]].body = Body /\ functions'[at[1]].body = Body'
      BY <1>1 DEF Body
    <2>2. DOMAIN Body' = 1 .. Len(Body')
      BY <1>1, <1>2, <2>1, ModuleIs
    <2> QED
      BY <1>1, <2>1, <2>2
  <1>4. ASSUME NEW f \in DOMAIN functions, NEW k \in DOMAIN functions'[f].body,
               functions'[f].body[k].addr # 0
        PROVE  \E l \in DOMAIN functions[f].body :
                 k = Moved(f, l) /\ functions[f].body[l].addr = functions'[f].body[k].addr
    <2>1. CASE f # at[1]
      BY <1>1, <2>1
    <2>2. CASE f = at[1]
      <3>1. k \in 1 .. n + m /\ functions[f].body = Body /\ functions'[f].body = Body'
        BY <1>3, <2>2
      <3>2. CASE k < p
        <4>1. k \in 1 .. p - 1 /\ k \in DOMAIN Body
          BY <1>2, <3>1, <3>2
        <4> QED
          BY <1>1, <3>1, <3>2, <4>1
      <3>3. CASE p <= k /\ k < p + m
        <4>1. k - p + 1 \in 1 .. m /\ p - 1 + (k - p + 1) = k
          BY <1>2, <3>1, <3>3, SMTT(30)
        <4>2. Body'[k] = before[k - p + 1]
          BY <1>1, <4>1
        <4>3. before[k - p + 1].addr = 0
          BY <1>2, <4>1 DEF ToSet
        <4> QED
          BY <1>4, <3>1, <4>2, <4>3
      <3>4. CASE k = p + m
        <4>1. Body'[k].addr = Body[p].addr /\ p \in DOMAIN Body
          BY <1>1, <1>2, <3>4 DEF Current
        <4> QED
          BY <1>2, <2>2, <3>1, <3>4, <4>1
      <3>5. CASE k > p + m
        <4>1. k - m \in p + 1 .. n /\ (k - m) + m = k /\ k - m \in DOMAIN Body
          BY <1>2, <3>1, <3>5
        <4>2. Body'[k] = Body[k - m]
          BY <1>1, <4>1
        <4>3. Moved(f, k - m) = k
          BY <1>2, <2>2, <4>1
        <4> HIDE DEF Moved
        <4> QED
          BY <3>1, <4>1, <4>2, <4>3
      <3> QED
        BY <1>2, <3>1, <3>2, <3>3, <3>4, <3>5
    <2> QED
      BY <2>1, <2>2
  <1> HIDE DEF Moved
  <1>5. Distinct(functions')
    <2> SUFFICES ASSUME NEW f \in DOMAIN functions', NEW g \in DOMAIN functions',
                        NEW k \in DOMAIN functions'[f].body, NEW l \in DOMAIN functions'[g].body,
                        functions'[f].body[k].addr = functions'[g].body[l].addr,
                        functions'[f].body[k].addr # 0
                 PROVE  f = g /\ k = l
      BY DEF Distinct
    <2>1. PICK a \in DOMAIN functions[f].body :
            k = Moved(f, a) /\ functions[f].body[a].addr = functions'[f].body[k].addr
      BY <1>1, <1>4
    <2>2. PICK b \in DOMAIN functions[g].body :
            l = Moved(g, b) /\ functions[g].body[b].addr = functions'[g].body[l].addr
      BY <1>1, <1>4
    <2>3. f = g /\ a = b
      BY <1>1, <2>1, <2>2 DEF Distinct
    <2> QED
      BY <2>1, <2>2, <2>3
  <1>6. ASSUME NEW addr \in Addresses(functions'), addr # 0 PROVE addr \in Addresses(functions)
    <2>1. PICK f \in DOMAIN functions : \E k \in DOMAIN functions'[f].body :
            functions'[f].body[k].addr = addr
      BY <1>1 DEF Addresses, ToSet
    <2>2. PICK l \in DOMAIN functions[f].body : functions[f].body[l].addr = addr
      BY <1>4, <1>6, <2>1
    <2> QED
      BY <2>2 DEF Addresses, ToSet
  <1> QED
    BY <1>5, <1>6

\* A step that changes no function.
LEMMA AddressesUnchanged ==
    ASSUME PassesInv, UNCHANGED <<functions, freed, wrappers>>,
           pass' \in BeforeTags => pass \in BeforeTags
    PROVE  AddressInv' /\ NamesInv'
  BY DEF PassesInv, AddressInv, NamesInv, Unused

LEMMA OutputsUnchanged ==
    ASSUME PassesInv, UNCHANGED output_param_map
    PROVE  OutputsInv'
  BY DEF PassesInv, OutputsInv

LEMMA EmptyWorkList ==
    ASSUME calls_to_wrap' = <<>>
    PROVE  WorkListInv'
  <1>1. calls_to_wrap' \in Seq(DOMAIN output_param_map') /\ 1 .. Len(calls_to_wrap') = {}
    OBVIOUS
  <1> QED
    BY <1>1 DEF WorkListInv

\* Only WrapSinks has calls that wait.
LEMMA NothingWaits ==
    ASSUME PassesInv, pass \notin {"wrap_sinks", "crashed"}
    PROVE  calls_to_wrap = <<>>
  BY DEF PassesInv, WorkListInv

\* A visit in a pass before AddLogging that inserts nothing of the logger.
LEMMA VisitBeforeLogging ==
    ASSUME PassesInv, pass \in BeforeLogging, pass \notin Beginnings, pass # "wrap_sinks",
           at[2] <= Len(Body), NEW B, NEW before \in Seq(B), NEW new, Visit(before, new),
           \A i \in ToSet(before) \cup {new} : IsInstruction(i) /\ ~OpensOrCloses(i),
           \A i \in ToSet(before) : i.addr = 0 /\ pass \notin BeforeSources,
           new.addr = Current.addr, new.op = Current.op /\ new.fn = Current.fn,
           UNCHANGED <<pass, arguments, input, wrappers, calls_to_wrap, output_param_map, freed,
                       logging>>,
           call_site_counter' \in Nat
    PROVE  PassesInv'
  <1>1. Positioned
    BY DEF PassesInv, ModuleInv
  <1>2. /\ Positioned'
        /\ DOMAIN functions' = DOMAIN functions
        /\ \A f \in DOMAIN functions : functions'[f].name = functions[f].name
        /\ InstructionsOf(functions') \subseteq
             InstructionsOf(functions) \cup ToSet(before) \cup {new}
    BY <1>1, VisitStep
  <1>3. /\ \A i \in InstructionsOf(functions) : IsInstruction(i) /\ ~OpensOrCloses(i)
        /\ logging = NoLogging
    BY DEF PassesInv, ModuleInv, LoggingInv
  <1>4. \A i \in InstructionsOf(functions') : IsInstruction(i) /\ ~OpensOrCloses(i)
    BY <1>2, <1>3
  <1>5. ModuleInv'
    <2>1. pass # "start"
      BY DEF Beginnings
    <2>2. DOMAIN input' \subseteq DOMAIN functions'
      BY <1>2 DEF PassesInv, ModuleInv
    <2>3. ASSUME pass \in BeforeSources, NEW i \in InstructionsOf(functions') PROVE IsOfProgram(i)
      <3>1. Current \in InstructionsOf(functions)
        BY <1>1, CurrentIs
      <3>2. \A j \in InstructionsOf(functions) : IsOfProgram(j)
        BY <2>3 DEF PassesInv, ModuleInv
      <3>3. IsOfProgram(new)
        BY <3>1, <3>2 DEF IsOfProgram, IsDirectCall
      <3> QED
        BY <1>2, <2>3, <3>2, <3>3
    <2> QED
      BY <1>2, <1>4, <2>1, <2>2, <2>3 DEF ModuleInv
  <1>6. WorkListInv'
    <2>1. calls_to_wrap' = <<>>
      BY NothingWaits DEF BeforeLogging
    <2> QED
      BY <2>1, EmptyWorkList
  <1>7. LoggingInv'
    BY <1>3, <1>4 DEF LoggingInv, BeforeLogging
  <1>8. AddressInv'
    <2> SUFFICES ASSUME pass \in BeforeTags PROVE AddressInv'
      BY DEF AddressInv
    <2>1. /\ Distinct(functions) /\ freed \subseteq Nat \ {0}
          /\ freed \cap Addresses(functions) = {}
          /\ \E b \in Nat : \A addr \in freed : addr <= b
      BY DEF PassesInv, AddressInv
    <2>2. /\ Distinct(functions')
          /\ Addresses(functions') \subseteq Addresses(functions) \cup {0}
      BY <1>1, <2>1, VisitAddresses
    <2> QED
      BY <2>1, <2>2 DEF AddressInv
  <1>9. NamesInv' /\ OutputsInv'
    BY <1>2, OutputsUnchanged DEF PassesInv, NamesInv, Unused
  <1>10. /\ arguments' \in Arguments /\ pass' \in Passes /\ wrappers' \in 0 .. Len(WrapperName)
    BY DEF PassesInv
  <1> QED
    BY <1>5, <1>6, <1>7, <1>8, <1>9, <1>10 DEF PassesInv

\* A visit in such a pass that changes nothing.
LEMMA SkipBeforeLogging ==
    ASSUME PassesInv, pass \in BeforeLogging, pass \notin Beginnings, pass # "wrap_sinks",
           at[2] <= Len(Body), Visit(<<>>, Current),
           UNCHANGED <<pass, arguments, input, wrappers, calls_to_wrap, output_param_map, freed,
                       logging, call_site_counter>>
    PROVE  PassesInv'
  <1>1. Positioned
    BY DEF PassesInv, ModuleInv
  <1>2. IsInstruction(Current) /\ ~OpensOrCloses(Current)
    BY <1>1, CurrentIs DEF PassesInv, ModuleInv, LoggingInv
  <1>3. <<>> \in Seq({}) /\ ToSet(<<>>) = {}
    BY DEF ToSet
  <1>4. \A i \in ToSet(<<>>) \cup {Current} : IsInstruction(i) /\ ~OpensOrCloses(i)
    BY <1>2, <1>3
  <1>5. call_site_counter' \in Nat
    BY DEF PassesInv
  <1> QED
    BY <1>3, <1>4, <1>5, VisitBeforeLogging

\* PrintSourcesAndSinks, AddMetadata and OutputDependencyMap insert nothing.
LEMMA PrintKeepsInv == PassesInv /\ PrintSourcesAndSinks => PassesInv'
  <1> SUFFICES ASSUME PassesInv, PrintSourcesAndSinks PROVE PassesInv'
    OBVIOUS
  <1>1. /\ pass \in BeforeLogging /\ pass \notin Beginnings /\ pass # "wrap_sinks"
        /\ at[2] <= Len(Body) /\ Visit(<<>>, Current)
    BY DEF PrintSourcesAndSinks, Visiting, BeforeLogging, Passes, Beginnings
  <1>2. UNCHANGED <<pass, arguments, input, wrappers, calls_to_wrap, output_param_map, freed,
                    logging, call_site_counter>>
    BY DEF PrintSourcesAndSinks, Visiting, metadata_vars, wrap_vars
  <1> QED
    BY <1>1, <1>2, SkipBeforeLogging

LEMMA AddMetadataSkipKeepsInv == PassesInv /\ AddMetadata_Skip => PassesInv'
  <1> SUFFICES ASSUME PassesInv, AddMetadata_Skip PROVE PassesInv'
    OBVIOUS
  <1>1. /\ pass \in BeforeLogging /\ pass \notin Beginnings /\ pass # "wrap_sinks"
        /\ at[2] <= Len(Body) /\ Visit(<<>>, Current)
    BY DEF AddMetadata_Skip, Visiting, BeforeLogging, Passes, Beginnings
  <1>2. UNCHANGED <<pass, arguments, input, wrappers, calls_to_wrap, output_param_map, freed,
                    logging, call_site_counter>>
    BY DEF AddMetadata_Skip, Visiting, metadata_vars, wrap_vars, history
  <1> QED
    BY <1>1, <1>2, SkipBeforeLogging

LEMMA OutputDependencyMapKeepsInv == PassesInv /\ OutputDependencyMap => PassesInv'
  <1> SUFFICES ASSUME PassesInv, OutputDependencyMap PROVE PassesInv'
    OBVIOUS
  <1>1. /\ pass \in BeforeLogging /\ pass \notin Beginnings /\ pass # "wrap_sinks"
        /\ at[2] <= Len(Body) /\ Visit(<<>>, Current)
    BY DEF OutputDependencyMap, Visiting, BeforeLogging, Passes, Beginnings
  <1>2. UNCHANGED <<pass, arguments, input, wrappers, calls_to_wrap, output_param_map, freed,
                    logging, call_site_counter>>
    BY DEF OutputDependencyMap, Visiting, metadata_vars, wrap_vars, history
  <1> QED
    BY <1>1, <1>2, SkipBeforeLogging

\* A numbered call is the call that it was, with metadata.
LEMMA ConditionalUpdateKeepsInv == PassesInv /\ ConditionalUpdate => PassesInv'
  <1> SUFFICES ASSUME PassesInv, ConditionalUpdate PROVE PassesInv'
    OBVIOUS
  <1> PICK labels : labels = ParamToLabels(function_infos[Current.fn], Current)
    OBVIOUS
  <1> DEFINE new == [Current EXCEPT !.meta = CallSiteMetadata(call_site_counter, labels)]
  <1>1. /\ pass \in BeforeLogging /\ pass \notin Beginnings /\ pass # "wrap_sinks"
        /\ at[2] <= Len(Body) /\ Visit(<<>>, new)
    BY DEF ConditionalUpdate, Visiting, BeforeLogging, Passes, Beginnings
  <1>2. UNCHANGED <<pass, arguments, input, wrappers, calls_to_wrap, output_param_map, freed,
                       logging>>
    BY DEF ConditionalUpdate, Visiting, metadata_vars, wrap_vars, history
  <1>3. call_site_counter \in Nat /\ call_site_counter' \in Nat
    BY DEF PassesInv, ConditionalUpdate
  <1>4. IsInstruction(Current) /\ ~OpensOrCloses(Current)
    BY <1>1, CurrentIs DEF PassesInv, ModuleInv, LoggingInv
  <1>5. /\ IsInstruction(new) /\ ~OpensOrCloses(new)
        /\ new.addr = Current.addr /\ new.op = Current.op /\ new.fn = Current.fn
    <2>1. \A m \in CallSiteMetadata(call_site_counter, labels) : m.id \in Nat
      BY <1>3 DEF CallSiteMetadata
    <2>2. IsDirectCall(Current) /\ IsOfProgram(Current)
      BY <1>1, CurrentIs DEF PassesInv, ModuleInv, ConditionalUpdate, Visiting, BeforeSources
    <2>3. /\ new.op = Current.op /\ new.fn = Current.fn /\ new.args = Current.args
          /\ new.addr = Current.addr /\ new.tags = Current.tags
          /\ new.meta = CallSiteMetadata(call_site_counter, labels) /\ IsRecord(new)
      <3>1. new = WithMeta(Current, CallSiteMetadata(call_site_counter, labels))
        BY DEF WithMeta
      <3> HIDE DEF new
      <3> QED
        BY <1>4, <3>1, WithMetaIs DEF IsInstruction
    <2> HIDE DEF new
    <2> QED
      BY <1>4, <2>1, <2>2, <2>3 DEF IsInstruction, OpensOrCloses, IsDirectCall, IsOfProgram
  <1>6. <<>> \in Seq({}) /\ ToSet(<<>>) = {}
    BY DEF ToSet
  <1> HIDE DEF new
  <1>7. \A i \in ToSet(<<>>) \cup {new} : IsInstruction(i) /\ ~OpensOrCloses(i)
    BY <1>5, <1>6
  <1> QED
    BY <1>1, <1>2, <1>3, <1>5, <1>6, <1>7, VisitBeforeLogging

\* The instructions that stand before a source or a sink.
Inserted(operands, tags) ==
    {Instruction("cast", "", <<operand>>) : operand \in operands}
      \cup {SetModified(operand) : operand \in operands}
      \cup UNION {{Instruction("call", "add_tag", <<operand, <<"tag", tag>>>>) :
                     operand \in operands} : tag \in tags}

\* An instruction that puts a tag puts one of these.
TagIsIn(i, tags) == i.fn = "add_tag" => i.args[2][2] \in tags

LEMMA InsertedAreInstructions ==
    ASSUME NEW operands, NEW tags, NEW i \in Inserted(operands, tags)
    PROVE  IsInstruction(i) /\ ~OpensOrCloses(i) /\ i.addr = 0 /\ IsMade(i) /\ TagIsIn(i, tags)
  <1>1. \A x, y : Len(<<x>>) \in Nat /\ Len(<<x, y>>) \in Nat
    OBVIOUS
  <1>2. CASE \E operand \in operands : i = Instruction("cast", "", <<operand>>)
    <2> DEFINE name == ""
    <2>1. PICK operand \in operands : i = Instruction("cast", name, <<operand>>)
      BY <1>2
    <2>2. name \notin {"clam_prov_logging_init", "clam_prov_logging_shutdown", "add_tag"}
      BY Zenon
    <2> HIDE DEF name
    <2>3. /\ i.op = "cast" /\ i.fn = name /\ i.args = <<operand>>
          /\ i.meta = {} /\ i.tags = {} /\ i.addr = 0 /\ i.src = 0 /\ IsRecord(i)
      BY <2>1, MadeInstruction
    <2> QED
      BY <1>1, <2>2, <2>3
         DEF IsInstruction, OpensOrCloses, IsMade, IsDirectCall, OwnFunctions, TagIsIn
  <1>3. CASE \E operand \in operands : i = SetModified(operand)
    <2>1. PICK operand \in operands : i = Instruction("call", "sea_dsa_set_modified", <<operand>>)
      BY <1>3 DEF SetModified
    <2>2. /\ i.op = "call" /\ i.fn = "sea_dsa_set_modified" /\ i.args = <<operand>>
          /\ i.meta = {} /\ i.tags = {} /\ i.addr = 0 /\ i.src = 0 /\ IsRecord(i)
      BY <2>1, NewInstruction
    <2> QED
      BY <1>1, <2>2 DEF IsInstruction, OpensOrCloses, IsMade, IsDirectCall, OwnFunctions, TagIsIn
  <1>4. CASE \E operand \in operands, tag \in tags :
               i = Instruction("call", "add_tag", <<operand, <<"tag", tag>>>>)
    <2>1. PICK operand \in operands, tag \in tags :
            i = Instruction("call", "add_tag", <<operand, <<"tag", tag>>>>)
      BY <1>4
    <2>2. /\ i.op = "call" /\ i.fn = "add_tag" /\ i.args = <<operand, <<"tag", tag>>>>
          /\ i.meta = {} /\ i.tags = {} /\ i.addr = 0 /\ i.src = 0 /\ IsRecord(i)
      BY <2>1, NewInstruction
    <2> QED
      BY <1>1, <2>2 DEF IsInstruction, OpensOrCloses, IsMade, IsDirectCall, OwnFunctions, TagIsIn
  <1> QED
    BY <1>2, <1>3, <1>4 DEF Inserted

LEMMA InsertedType ==
    ASSUME NEW operands, NEW tags, NEW tag, NEW call, NEW k, Operand(call, k) \in operands
    PROVE  /\ Cast(call, k) \in Seq(Inserted(operands, tags))
           /\ tag \in tags => InsertClamAddTag(call, k, tag) \in Seq(Inserted(operands, tags))
  <1> DEFINE S == Inserted(operands, tags)
  <1> PICK cast : cast = Instruction("cast", "", <<Operand(call, k)>>)
    OBVIOUS
  <1> PICK mark : mark = SetModified(Operand(call, k))
    OBVIOUS
  <1> PICK add : add = Instruction("call", "add_tag", <<Operand(call, k), <<"tag", tag>>>>)
    OBVIOUS
  <1>1. cast \in S /\ mark \in S
    BY DEF Inserted
  <1>1a. ASSUME tag \in tags
         PROVE  add \in S
    <2> DEFINE T(t) == {Instruction("call", "add_tag", <<operand, <<"tag", t>>>>) :
                          operand \in operands}
    <2>1. add \in T(tag)
      OBVIOUS
    <2>2. S = {Instruction("cast", "", <<operand>>) : operand \in operands}
                \cup {SetModified(operand) : operand \in operands}
                \cup UNION {T(t) : t \in tags}
      BY DEF Inserted
    <2> HIDE DEF T, S
    <2> QED
      BY <1>1a, <2>1, <2>2
  <1>2. /\ Cast(call, k) = <<>> \/ Cast(call, k) = <<cast>>
        /\ InsertClamAddTag(call, k, tag) = Cast(call, k) \o <<mark, add>>
    BY DEF Cast, InsertClamAddTag
  <1> HIDE DEF S
  <1> PICK c : c = Cast(call, k)
    OBVIOUS
  <1>3. c \in Seq(S)
    <2>1. <<cast>> \in Seq(S) /\ <<>> \in Seq(S)
      BY <1>1, OneElement, Zenon
    <2> QED
      BY <1>2, <2>1, Zenon
  <1>4. tag \in tags => <<mark, add>> \in Seq(S)
    BY <1>1, <1>1a, TwoElements, Zenon
  <1>5. tag \in tags => c \o <<mark, add>> \in Seq(S)
    BY <1>3, <1>4, Concat
  <1> QED
    BY <1>2, <1>3, <1>5 DEF S

LEMMA ParamsType ==
    ASSUME NEW i, Len(i.args) \in Nat, NEW type
    PROVE  /\ ParamsOfType(i, type) \in Seq(Nat)
           /\ Len(ParamsOfType(i, type)) \in Nat
           /\ DOMAIN ParamsOfType(i, type) = 1 .. Len(ParamsOfType(i, type))
           /\ DOMAIN ParamsOfType(i, type) # {} => HasParamOfType(i, type)
  <1> PICK params : params = UNION {{k \in DOMAIN m.params : ArgumentType(m.params[k]) = type}
                                      : m \in i.meta}
    OBVIOUS
  <1>1. ParamsOfType(i, type) = Ascending(params, Len(i.args))
    BY DEF ParamsOfType
  <1>2. Ascending(params, Len(i.args)) \in Seq(params \cap (0 .. Len(i.args)))
    BY AscendingType
  <1>3. Ascending(params, Len(i.args)) \in Seq(Nat)
    BY <1>2, SeqMonotonic
  <1>4. DOMAIN ParamsOfType(i, type) # {} => HasParamOfType(i, type)
    <2> SUFFICES ASSUME DOMAIN ParamsOfType(i, type) # {} PROVE HasParamOfType(i, type)
      OBVIOUS
    <2> PICK s, T : s = ParamsOfType(i, type) /\ T = params \cap (0 .. Len(i.args))
      OBVIOUS
    <2>1. s \in Seq(T) /\ DOMAIN s # {}
      BY <1>1, <1>2
    <2>2. s[1] \in params
      BY <2>1
    <2>3. PICK m \in i.meta : s[1] \in DOMAIN m.params /\ ArgumentType(m.params[s[1]]) = type
      BY <2>2, Zenon
    <2> QED
      BY <2>3, Zenon DEF HasParamOfType
  <1>5. /\ ParamsOfType(i, type) \in Seq(Nat)
        /\ Len(ParamsOfType(i, type)) \in Nat
        /\ DOMAIN ParamsOfType(i, type) = 1 .. Len(ParamsOfType(i, type))
    BY <1>1, <1>3
  <1> QED
    BY <1>4, <1>5, Zenon

\* The tag of a source is its number.
SourceTags(i) == IF HasParamOfType(i, "input") THEN CallSiteIds(i) ELSE {}

\* What AddSources inserts for each parameter that a source fills.
SourceBlocks(i) ==
    LET inputs == ParamsOfType(i, "input")
        tag == CHOOSE id \in CallSiteIds(i) : TRUE
    IN  [n \in DOMAIN inputs |->
           IF Operand(i, inputs[n]) = <<"null">> THEN <<>>
           ELSE InsertClamAddTag(i, inputs[n], tag)]

LEMMA SourceBlocksType ==
    ASSUME NEW i, IsInstruction(i)
    PROVE  \E operands : SourceBlocks(i) \in Seq(Seq(Inserted(operands, SourceTags(i))))
  <1> DEFINE inputs == ParamsOfType(i, "input")
             tag == CHOOSE id \in CallSiteIds(i) : TRUE
             operands == {Operand(i, inputs[n]) : n \in DOMAIN inputs}
             B == Inserted(operands, SourceTags(i))
             ss == SourceBlocks(i)
  <1>1. Len(inputs) \in Nat /\ DOMAIN inputs = 1 .. Len(inputs)
    BY ParamsType DEF IsInstruction
  <1>2. ASSUME NEW n \in DOMAIN inputs PROVE ss[n] \in Seq(B)
    <2>1. Operand(i, inputs[n]) \in operands
      OBVIOUS
    <2>2. InsertClamAddTag(i, inputs[n], tag) \in Seq(B)
      <3>1. HasParamOfType(i, "input")
        BY <1>1, ParamsType DEF IsInstruction
      <3>2. CallSiteIds(i) # {}
        BY <3>1 DEF HasParamOfType, CallSiteIds
      <3>3. tag \in SourceTags(i)
        BY <3>1, <3>2 DEF SourceTags
      <3> HIDE DEF operands, inputs, tag
      <3> QED
        BY <2>1, <3>3, InsertedType
    <2>3. <<>> \in Seq(B)
      OBVIOUS
    <2>4. ss[n] = <<>> \/ ss[n] = InsertClamAddTag(i, inputs[n], tag)
      BY DEF SourceBlocks
    <2> HIDE DEF B, ss, inputs, tag
    <2> QED
      BY <2>2, <2>3, <2>4
  <1>3. ss = [n \in DOMAIN inputs |-> ss[n]]
    BY DEF SourceBlocks
  <1> HIDE DEF B, ss, inputs
  <1> PICK Q, m : Q = Seq(B) /\ m = Len(inputs)
    OBVIOUS
  <1>4. m \in Nat /\ ss = [n \in 1 .. m |-> ss[n]] /\ \A n \in 1 .. m : ss[n] \in Q
    BY <1>1, <1>2, <1>3
  <1>5. ss \in [1 .. m -> Q]
    BY <1>4
  <1>6. ss \in Seq(Q)
    BY <1>4, <1>5
  <1> QED
    BY <1>6 DEF B, ss

LEMMA AddSourcesVisit ==
    ASSUME AddSources
    PROVE  Visit(FlattenSeq(SourceBlocks(Current)), Current)
  BY DEF AddSources, SourceBlocks

\* What AddSources inserts.
LEMMA AddSourcesStep ==
    ASSUME PassesInv, AddSources
    PROVE  \E B, before :
             /\ before \in Seq(B) /\ ToSet(before) \subseteq B
             /\ \A i \in B : IsInstruction(i) /\ ~OpensOrCloses(i) /\ i.addr = 0 /\ IsMade(i)
             /\ \A i \in B : TagIsIn(i, SourceTags(Current))
             /\ Visit(before, Current)
  <1>1. IsInstruction(Current)
    BY CurrentIs DEF PassesInv, ModuleInv, AddSources, Visiting
  <1>2. PICK operands : SourceBlocks(Current) \in Seq(Seq(Inserted(operands, SourceTags(Current))))
    BY <1>1, SourceBlocksType
  <1> PICK B, before : /\ B = Inserted(operands, SourceTags(Current))
                       /\ before = FlattenSeq(SourceBlocks(Current))
    OBVIOUS
  <1>3. Visit(before, Current)
    BY AddSourcesVisit
  <1>4. before \in Seq(B)
    BY <1>2, FlattenType
  <1>5. ToSet(before) \subseteq B
    BY <1>4 DEF ToSet
  <1>6. \A i \in B : /\ IsInstruction(i) /\ ~OpensOrCloses(i) /\ i.addr = 0 /\ IsMade(i)
                     /\ TagIsIn(i, SourceTags(Current))
    BY InsertedAreInstructions
  <1> QED
    BY <1>3, <1>4, <1>5, <1>6

\* The marks and the tags of the sources.
LEMMA AddSourcesKeepsInv == PassesInv /\ AddSources => PassesInv'
  <1> SUFFICES ASSUME PassesInv, AddSources PROVE PassesInv'
    OBVIOUS
  <1>1. PICK B, before :
          /\ before \in Seq(B) /\ ToSet(before) \subseteq B
          /\ \A i \in B : IsInstruction(i) /\ ~OpensOrCloses(i) /\ i.addr = 0 /\ IsMade(i)
          /\ Visit(before, Current)
    BY AddSourcesStep
  <1>2. /\ UNCHANGED <<pass, arguments, input, wrappers, calls_to_wrap, output_param_map, freed,
                       logging>>
        /\ call_site_counter' \in Nat
    BY DEF AddSources, Visiting, metadata_vars, wrap_vars, history, PassesInv
  <1>3. /\ pass \in BeforeLogging /\ pass \notin Beginnings /\ pass # "wrap_sinks"
        /\ pass \notin BeforeSources /\ at[2] <= Len(Body)
    BY DEF AddSources, Visiting, BeforeLogging, Passes, Beginnings, BeforeSources
  <1>4. IsInstruction(Current) /\ ~OpensOrCloses(Current)
    BY <1>3, CurrentIs DEF PassesInv, ModuleInv, LoggingInv
  <1>5. /\ \A i \in ToSet(before) \cup {Current} : IsInstruction(i) /\ ~OpensOrCloses(i)
        /\ \A i \in ToSet(before) : i.addr = 0
    BY <1>1, <1>4
  <1> QED
    BY <1>1, <1>2, <1>3, <1>5, VisitBeforeLogging

\* The tags of a sink are numbers of sources.
LEMMA TagsKeepInv == PassesInv /\ TagAnalysisResultsAsMetadata => PassesInv'
  <1> SUFFICES ASSUME PassesInv, TagAnalysisResultsAsMetadata PROVE PassesInv'
    OBVIOUS
  <1>1. PICK answer \in [DOMAIN ParamsOfType(Current, "output") -> Answers] :
          Visit(<<>>, SetTags(Current, answer))
    BY DEF TagAnalysisResultsAsMetadata
  <1> DEFINE tags == FlattenSeq([n \in DOMAIN answer |-> CHOOSE t \in answer[n] : TRUE])
             new == SetTags(Current, answer)
  <1>2. /\ pass \in BeforeLogging /\ pass \notin Beginnings /\ pass # "wrap_sinks"
        /\ at[2] <= Len(Body)
    BY DEF TagAnalysisResultsAsMetadata, Visiting, BeforeLogging, Passes, Beginnings
  <1>3. /\ UNCHANGED <<pass, arguments, input, wrappers, calls_to_wrap, output_param_map, freed,
                       logging>>
        /\ call_site_counter \in Nat /\ call_site_counter' \in Nat
    BY DEF TagAnalysisResultsAsMetadata, Visiting, metadata_vars, wrap_vars, PassesInv
  <1>4. IsInstruction(Current) /\ ~OpensOrCloses(Current)
    BY <1>2, CurrentIs DEF PassesInv, ModuleInv, LoggingInv
  <1>5. ASSUME {} \notin ToSet(answer)
        PROVE  ToSet(tags) \subseteq Nat
    <2> DEFINE ss == [n \in DOMAIN answer |-> CHOOSE t \in answer[n] : TRUE]
    <2>1. PICK m \in Nat : DOMAIN answer = 1 .. m
      BY <1>4, ParamsType DEF IsInstruction
    <2>2. ASSUME NEW n \in 1 .. m PROVE ss[n] \in Seq(Nat)
      <3>1. answer[n] \in Answers /\ answer[n] # {}
        BY <1>5, <2>1 DEF ToSet
      <3>2. PICK numbers \in SUBSET InsertedTags :
              answer[n] = {Ascending(numbers, call_site_counter)}
        BY <3>1 DEF Answers
      <3>3. ss[n] = Ascending(numbers, call_site_counter)
        <4>1. ss[n] = CHOOSE t \in answer[n] : TRUE
          BY <2>1
        <4> HIDE DEF ss
        <4> QED
          BY <3>2, <4>1
      <3>4. Ascending(numbers, call_site_counter) \in Seq(numbers \cap (0 .. call_site_counter))
        BY <1>3, AscendingType
      <3>5. Ascending(numbers, call_site_counter) \in Seq(Nat)
        <4>1. numbers \cap (0 .. call_site_counter) \subseteq Nat
          OBVIOUS
        <4> QED
          BY <3>4, <4>1, SeqMonotonic
      <3> HIDE DEF ss
      <3> QED
        BY <3>3, <3>5
    <2>3. ss = [n \in 1 .. m |-> ss[n]]
      BY <2>1
    <2> HIDE DEF ss
    <2> PICK Q : Q = Seq(Nat)
      OBVIOUS
    <2>4. ss \in [1 .. m -> Q]
      BY <2>2, <2>3
    <2>5. ss \in Seq(Seq(Nat))
      BY <2>4
    <2>6. tags = FlattenSeq(ss)
      BY DEF ss
    <2> HIDE DEF tags
    <2>7. tags \in Seq(Nat)
      BY <2>5, <2>6, FlattenType
    <2> QED
      BY <2>7 DEF ToSet
  <1>6. /\ IsInstruction(new) /\ ~OpensOrCloses(new)
        /\ new.addr = Current.addr /\ new.op = Current.op /\ new.fn = Current.fn
    <2>1. CASE DOMAIN answer = {} \/ {} \in ToSet(answer)
      BY <1>4, <2>1 DEF SetTags
    <2>2. CASE ~(DOMAIN answer = {} \/ {} \in ToSet(answer))
      <3>1. new = [Current EXCEPT !.tags = {tags}] /\ ToSet(tags) \subseteq Nat
        BY <1>5, <2>2 DEF SetTags
      <3> HIDE DEF tags, new
      <3>2. /\ new.op = Current.op /\ new.fn = Current.fn /\ new.args = Current.args
            /\ new.addr = Current.addr
            /\ new.meta = Current.meta /\ new.tags = {tags} /\ IsRecord(new)
        <4>1. new = WithTags(Current, {tags})
          BY <3>1 DEF WithTags
        <4> QED
          BY <1>4, <4>1, WithTagsIs DEF IsInstruction
      <3> QED
        BY <1>4, <3>1, <3>2 DEF IsInstruction, OpensOrCloses, IsDirectCall
    <2> QED
      BY <2>1, <2>2
  <1>7. <<>> \in Seq({}) /\ ToSet(<<>>) = {}
    BY DEF ToSet
  <1> HIDE DEF new
  <1>8. \A i \in ToSet(<<>>) \cup {new} : IsInstruction(i) /\ ~OpensOrCloses(i)
    BY <1>6, <1>7
  <1>9. Visit(<<>>, new)
    BY <1>1 DEF new
  <1> QED
    BY <1>2, <1>3, <1>6, <1>7, <1>8, <1>9, VisitBeforeLogging

\* The intrinsics are removed.
LEMMA RemoveSourcesKeepsInv == PassesInv /\ RemoveSources => PassesInv'
  <1> SUFFICES ASSUME PassesInv, RemoveSources PROVE PassesInv'
    OBVIOUS
  <1> DEFINE kept(f) == {k \in DOMAIN functions[f].body : ~IsIntrinsic(functions[f].body[k])}
             B == [f \in DOMAIN functions |-> AtPositions(functions[f].body, kept(f))]
             S == InstructionsOf(functions)
  <1>1. /\ IsModule(functions) /\ 1 \in DOMAIN functions
        /\ pass = "remove_sources" /\ pass' = "dependency_map" /\ at = <<1, 1>> /\ at' = <<1, 1>>
        /\ calls_to_wrap = <<>>
    <2>1. pass = "remove_sources" /\ pass' = "dependency_map" /\ at' = at
      BY DEF RemoveSources
    <2>2. at = <<1, 1>> /\ IsModule(functions) /\ at[1] \in DOMAIN functions
      BY <2>1 DEF PassesInv, ModuleInv, Positioned, Beginnings
    <2>3. calls_to_wrap = <<>>
      BY <2>1, NothingWaits
    <2> QED
      BY <2>1, <2>2, <2>3
  <1>2. functions' = WithBodies(functions, B)
    BY DEF RemoveSources, WithBodies
  <1>3. ASSUME NEW f \in DOMAIN functions
        PROVE  B[f] \in Seq(S)
    <2>1. functions[f].body \in Seq(S)
      BY <1>1, ModuleIs
    <2> DEFINE T == {functions[f].body[k] : k \in (1 .. Len(functions[f].body)) \cap kept(f)}
    <2>2. AtPositions(functions[f].body, kept(f)) \in Seq(T)
      <3> HIDE DEF kept, S
      <3> QED
        BY <2>1, AtPositionsType
    <2>3. T \subseteq S
      <3> HIDE DEF S, kept
      <3> QED
        BY <2>1
    <2>4. B[f] = AtPositions(functions[f].body, kept(f))
      OBVIOUS
    <2> HIDE DEF T, S, B
    <2> QED
      BY <2>2, <2>3, <2>4, SeqMonotonic
  <1>4. B \in [DOMAIN functions -> Seq(S)]
    <2>1. B = [f \in DOMAIN functions |-> B[f]]
      OBVIOUS
    <2> HIDE DEF B, S
    <2> QED
      BY <1>3, <2>1
  <1> HIDE DEF B, S
  <1>5. /\ IsModule(functions') /\ DOMAIN functions' = DOMAIN functions
        /\ \A f \in DOMAIN functions :
             functions'[f].name = functions[f].name /\ functions'[f].body = B[f]
    <2> PICK gs : gs = WithBodies(functions, B)
      OBVIOUS
    <2>1. IsModule(gs) /\ HasBodies(gs, functions, B)
      BY <1>1, <1>4, NewBodies
    <2> QED
      BY <1>2, <2>1 DEF HasBodies
  <1>6. ASSUME NEW i \in InstructionsOf(functions') PROVE i \in S
    <2>1. PICK f \in DOMAIN functions : \E k \in DOMAIN functions'[f].body : i = functions'[f].body[k]
      BY <1>5 DEF InstructionsOf, ToSet
    <2>2. PICK k \in DOMAIN B[f] : i = B[f][k]
      BY <1>5, <2>1
    <2> QED
      BY <1>3, <2>2
  <1>7. /\ \A i \in S : IsInstruction(i) /\ ~OpensOrCloses(i)
        /\ logging = NoLogging
    BY <1>1 DEF PassesInv, ModuleInv, LoggingInv, BeforeLogging, Passes, S
  <1>8. /\ \A i \in InstructionsOf(functions') : IsInstruction(i) /\ ~OpensOrCloses(i)
    BY <1>6, <1>7
  <1>9. /\ UNCHANGED <<at, arguments, input, call_site_counter, wrappers, calls_to_wrap,
                     output_param_map, logging>>
    BY DEF RemoveSources, metadata_vars, wrap_vars, history
  <1>10. ModuleInv'
    <2>1. Positioned'
      <3>1. Len(functions'[1].body) \in Nat
        BY <1>1, <1>5, ModuleIs
      <3>2. at'[1] = 1 /\ at'[2] = 1 /\ Body' = functions'[1].body
        BY <1>1 DEF Body
      <3> QED
        BY <1>1, <1>5, <3>1, <3>2 DEF Positioned
    <2>2. DOMAIN input' \subseteq DOMAIN functions'
      BY <1>5, <1>9 DEF PassesInv, ModuleInv
    <2> QED
      BY <1>1, <1>8, <2>1, <2>2 DEF ModuleInv, BeforeSources
  <1>11. WorkListInv' /\ OutputsInv'
    BY <1>1, <1>9, EmptyWorkList, OutputsUnchanged
  <1>12. LoggingInv'
    BY <1>1, <1>7, <1>8, <1>9 DEF LoggingInv
  <1>13. pass' \in Passes
    BY <1>1 DEF Passes
  <1>14. AddressInv' /\ NamesInv'
    BY <1>1, <1>5, <1>9 DEF PassesInv, AddressInv, BeforeTags, NamesInv, Unused
  <1> QED
    BY <1>9, <1>10, <1>11, <1>12, <1>13, <1>14 DEF PassesInv

LEMMA UnusedAreWrappers ==
    ASSUME wrappers \in 0 .. Len(WrapperName)
    PROVE  Unused \subseteq ToSet(WrapperName)
  <1>1. DOMAIN WrapperName = 1 .. Len(WrapperName) /\ Len(WrapperName) \in Nat
    BY NamesAssumption
  <1> QED
    BY <1>1 DEF Unused, ToSet

LEMMA InitGivesInv == Init => PassesInv
  <1> SUFFICES ASSUME Init PROVE PassesInv
    OBVIOUS
  <1>1. /\ arguments \in Arguments /\ functions = arguments.input /\ input = functions
        /\ pass = "start" /\ at = <<1, 1>> /\ call_site_counter = 0 /\ wrappers = 0
        /\ calls_to_wrap = <<>> /\ logging = NoLogging
        /\ output_param_map = <<>> /\ freed = {}
    BY DEF Init
  <1>2. Clean(functions) /\ 1 \in DOMAIN functions
    BY <1>1, InputIsClean
  <1>3. Positioned
    <2>1. at[1] = 1 /\ at[2] = 1 /\ Body = functions[1].body
      BY <1>1 DEF Body
    <2>2. Len(functions[1].body) \in Nat
      BY <1>2, ModuleIs DEF Clean
    <2> QED
      BY <1>2, <2>1, <2>2 DEF Positioned, Clean
  <1>4. ModuleInv
    BY <1>1, <1>2, <1>3 DEF ModuleInv, Clean
  <1>5. WorkListInv
    <2>1. calls_to_wrap \in Seq(DOMAIN output_param_map) /\ 1 .. Len(calls_to_wrap) = {}
      BY <1>1
    <2> QED
      BY <1>1, <2>1 DEF WorkListInv
  <1>6. LoggingInv
    BY <1>1, <1>2 DEF LoggingInv, Clean
  <1>7. wrappers \in 0 .. Len(WrapperName)
    <2>1. Len(WrapperName) \in Nat
      BY NamesAssumption
    <2> QED
      BY <1>1, <2>1
  <1>8. OutputsInv /\ AddressInv
    BY <1>1, <1>2 DEF OutputsInv, AddressInv, Clean
  <1>9. NamesInv
    BY <1>2, <1>7, UnusedAreWrappers DEF NamesInv, Clean, Reserved
  <1> QED
    BY <1>1, <1>4, <1>5, <1>6, <1>7, <1>8, <1>9 DEF PassesInv, Passes

\* The first step, with the new main of a library.
LEMMA StartKeepsInv == PassesInv /\ Start => PassesInv'
  <1> SUFFICES ASSUME PassesInv, Start PROVE PassesInv'
    OBVIOUS
  <1>1. /\ pass = "start" /\ pass' \in {"print", "configure"} /\ at = <<1, 1>>
        /\ functions = arguments.input /\ arguments \in Arguments
        /\ DOMAIN input \subseteq DOMAIN functions /\ logging = NoLogging /\ calls_to_wrap = <<>>
        /\ freed = {}
    BY NothingWaits
       DEF PassesInv, ModuleInv, LoggingInv, Start, Beginnings, BeforeLogging, Passes
  <1>2. /\ UNCHANGED <<at, arguments, call_site_counter, wrappers, calls_to_wrap,
                       output_param_map, freed, logging>>
        /\ functions' = IF arguments.add_main THEN WithMain(arguments.input) ELSE arguments.input
        /\ input' = functions'
    BY <1>1 DEF Start, metadata_vars, wrap_vars
  <1>3. Clean(functions') /\ 1 \in DOMAIN functions'
    <2>1. Clean(arguments.input) /\ 1 \in DOMAIN arguments.input
      BY <1>1, InputIsClean
    <2>2. CASE arguments.add_main
      <3>1. /\ Clean(WithMain(arguments.input))
            /\ DOMAIN arguments.input \subseteq DOMAIN WithMain(arguments.input)
        BY <1>1, <2>2, WithMainIsClean
      <3> QED
        BY <1>2, <2>1, <2>2, <3>1
    <2>3. CASE ~arguments.add_main
      BY <1>2, <2>1, <2>3
    <2> QED
      BY <2>2, <2>3
  <1>4. Positioned'
    <2>1. at'[1] = 1 /\ at'[2] = 1 /\ Body' = functions'[1].body
      BY <1>1, <1>2 DEF Body
    <2>2. Len(functions'[1].body) \in Nat
      BY <1>3, ModuleIs DEF Clean
    <2> QED
      BY <1>3, <2>1, <2>2 DEF Positioned, Clean
  <1>5. ModuleInv'
    BY <1>1, <1>2, <1>3, <1>4 DEF ModuleInv, Clean
  <1>6. WorkListInv'
    BY <1>1, <1>2, EmptyWorkList
  <1>7. LoggingInv'
    BY <1>1, <1>2, <1>3 DEF LoggingInv, Clean
  <1>8. pass' \in Passes
    BY <1>1 DEF Passes
  <1>9. NamesInv'
    <2>1. Unused' = Unused /\ Unused \subseteq ToSet(WrapperName)
      BY <1>2, UnusedAreWrappers DEF PassesInv, Unused
    <2> QED
      BY <1>3, <2>1 DEF NamesInv, Clean, Reserved
  <1>10. AddressInv'
    BY <1>1, <1>2, <1>3 DEF AddressInv, Clean
  <1> QED
    BY <1>2, <1>5, <1>6, <1>7, <1>8, <1>9, <1>10, OutputsUnchanged DEF PassesInv

\* A step that leaves the module alone.
LEMMA ModuleUnchanged ==
    ASSUME PassesInv, UNCHANGED <<functions, at, arguments, input>>,
           pass' \in Beginnings => at = <<1, 1>>, pass' # "start",
           pass' \in BeforeSources => pass \in BeforeSources
    PROVE  ModuleInv'
  <1>1. Positioned'
    <2>1. Positioned /\ Body' = Body
      BY DEF PassesInv, ModuleInv, Body
    <2> QED
      BY <2>1 DEF Positioned
  <1> QED
    BY <1>1 DEF PassesInv, ModuleInv

LEMMA LoadInputFileKeepsInv == PassesInv /\ LoadInputFile => PassesInv'
  <1> SUFFICES ASSUME PassesInv, LoadInputFile PROVE PassesInv'
    OBVIOUS
  <1>1. /\ pass = "configure" /\ pass' \in {"add_sources", "add_metadata"}
        /\ UNCHANGED <<functions, at, arguments, input, call_site_counter, wrappers,
                       calls_to_wrap, output_param_map, freed, logging>>
    BY DEF LoadInputFile, module_vars, wrap_vars, history
  <1>2. ModuleInv'
    BY <1>1, ModuleUnchanged DEF Beginnings, BeforeSources
  <1>3. /\ calls_to_wrap' = <<>>
        /\ AddressInv' /\ NamesInv' /\ OutputsInv'
    BY <1>1, NothingWaits, AddressesUnchanged, OutputsUnchanged DEF BeforeTags
  <1>4. LoggingInv'
    BY <1>1 DEF PassesInv, LoggingInv, BeforeLogging, Passes
  <1> QED
    BY <1>1, <1>2, <1>3, <1>4, EmptyWorkList DEF PassesInv, Passes

LEMMA NoDependencyMapKeepsInv == PassesInv /\ NoDependencyMap => PassesInv'
  <1> SUFFICES ASSUME PassesInv, NoDependencyMap PROVE PassesInv'
    OBVIOUS
  <1>1. /\ pass = "dependency_map" /\ pass' = "configure_logging" /\ at = <<1, 1>>
        /\ UNCHANGED <<functions, at, arguments, input, call_site_counter, wrappers,
                       calls_to_wrap, output_param_map, freed, logging>>
    BY DEF NoDependencyMap, module_vars, metadata_vars, wrap_vars, history
  <1>2. ModuleInv'
    BY <1>1, ModuleUnchanged DEF Beginnings, BeforeSources
  <1>3. /\ calls_to_wrap' = <<>>
        /\ AddressInv' /\ NamesInv' /\ OutputsInv'
    BY <1>1, NothingWaits, AddressesUnchanged, OutputsUnchanged DEF BeforeTags
  <1>4. LoggingInv'
    BY <1>1 DEF PassesInv, LoggingInv, BeforeLogging, Passes
  <1> QED
    BY <1>1, <1>2, <1>3, <1>4, EmptyWorkList DEF PassesInv, Passes

\* Nothing of a clean module is logged yet.
LEMMA LoadConfigurationKeepsInv == PassesInv /\ LoadConfiguration => PassesInv'
  <1> SUFFICES ASSUME PassesInv, LoadConfiguration PROVE PassesInv'
    OBVIOUS
  <1>1. /\ pass = "configure_logging" /\ pass' \in {"add_logging", "done"}
        /\ pass' = "done" => ~LoggingIsOn(logging')
        /\ UNCHANGED <<functions, at, arguments, input, call_site_counter, wrappers,
                       calls_to_wrap, output_param_map, freed>>
    BY DEF LoadConfiguration, module_vars, metadata_vars, wrap_vars, history
  <1>2. ModuleInv'
    BY <1>1, ModuleUnchanged DEF Beginnings, BeforeSources
  <1>3. /\ calls_to_wrap' = <<>>
        /\ AddressInv' /\ NamesInv' /\ OutputsInv'
    BY <1>1, NothingWaits, AddressesUnchanged, OutputsUnchanged DEF BeforeTags
  <1>4. LoggingInv'
    <2> SUFFICES ASSUME pass' = "add_logging", NEW f \in DOMAIN functions
                 PROVE  Bracketed(f, LoggedTo(f))'
      BY <1>1 DEF LoggingInv, BeforeLogging
    <2>1. IsModule(functions) /\ at = <<1, 1>> /\ DOMAIN functions = 1 .. Len(functions)
      BY <1>1, ModuleIs DEF PassesInv, ModuleInv, Positioned, Beginnings
    <2>2. LoggedTo(f)' = 1
      BY <1>1, <2>1 DEF LoggedTo
    <2>3. ASSUME NEW k \in DOMAIN functions[f].body
          PROVE  k \in Nat /\ k >= 1 /\ ~OpensOrCloses(functions[f].body[k])
      <3>1. /\ DOMAIN functions[f].body = 1 .. Len(functions[f].body)
            /\ functions[f].body[k] \in InstructionsOf(functions)
        BY <2>1, ModuleIs
      <3> QED
        BY <1>1, <3>1 DEF PassesInv, LoggingInv, BeforeLogging, Passes
    <2> QED
      BY <1>1, <2>2, <2>3 DEF Bracketed
  <1> QED
    BY <1>1, <1>2, <1>3, <1>4, EmptyWorkList DEF PassesInv, Passes

\* From one function to the next, and from one pass to the next.
LEMMA EndOfFunctionKeepsInv == PassesInv /\ EndOfFunction => PassesInv'
  <1> SUFFICES ASSUME PassesInv, EndOfFunction PROVE PassesInv'
    OBVIOUS
  <1>1. /\ pass \in {"print", "add_metadata", "add_sources", "wrap_sinks", "tags",
                     "dependency_map", "add_logging"}
        /\ pass' = pass \/ pass' = NextPass[pass]
        /\ at[2] > Len(Body)
    BY DEF EndOfFunction, NextPass
  <1>2. /\ UNCHANGED <<functions, arguments, input, call_site_counter, wrappers,
                       calls_to_wrap, output_param_map, freed, logging>>
        /\ \/ at[1] < Len(functions) /\ at' = <<at[1] + 1, 1>> /\ pass' = pass
           \/ at[1] >= Len(functions) /\ at' = <<1, 1>> /\ pass' = NextPass[pass]
    <2>1. at[1] \in DOMAIN functions /\ DOMAIN functions = 1 .. Len(functions) /\ Len(functions) \in Nat
      BY ModuleIs DEF PassesInv, ModuleInv, Positioned
    <2> QED
      BY <2>1 DEF EndOfFunction, metadata_vars, wrap_vars, history
  <1>3. /\ calls_to_wrap' = <<>>
        /\ AddressInv' /\ NamesInv' /\ OutputsInv'
    <2>1. pass' \in BeforeTags => pass \in BeforeTags
      BY <1>1 DEF NextPass, BeforeTags
    <2> QED
      BY <1>1, <1>2, <2>1, NothingWaits, AddressesUnchanged, OutputsUnchanged DEF EndOfFunction
  <1>4. /\ IsModule(functions) /\ Len(functions) \in Nat /\ DOMAIN functions = 1 .. Len(functions)
        /\ at[1] \in DOMAIN functions /\ at[2] \in 1 .. Len(Body) + 1
        /\ \A f \in DOMAIN functions :
             /\ Len(functions[f].body) \in Nat
             /\ DOMAIN functions[f].body = 1 .. Len(functions[f].body)
    BY ModuleIs DEF PassesInv, ModuleInv, Positioned
  <1>5. /\ pass' \in Passes /\ pass' # "start"
        /\ pass' \in Beginnings => at' = <<1, 1>>
        /\ pass' \in BeforeSources => pass \in BeforeSources
    BY <1>1, <1>2 DEF NextPass, Passes, Beginnings, BeforeSources
  <1>6. ModuleInv'
    <2>1. Positioned'
      <3>1. at'[1] \in DOMAIN functions /\ at'[2] = 1
        BY <1>2, <1>4
      <3>2. Body' = functions[at'[1]].body
        BY <1>2 DEF Body
      <3>3. Len(functions[at'[1]].body) \in Nat
        BY <1>4, <3>1
      <3> QED
        BY <1>2, <1>4, <3>1, <3>2, <3>3 DEF Positioned
    <2> QED
      BY <1>2, <1>5, <2>1 DEF PassesInv, ModuleInv
  <1>7. LoggingInv'
    <2>1. CASE pass # "add_logging"
      <3>1. pass \in BeforeLogging
        BY <1>1, <2>1 DEF BeforeLogging, Passes
      <3>2. /\ logging = NoLogging
            /\ \A i \in InstructionsOf(functions) : ~OpensOrCloses(i)
        BY <3>1 DEF PassesInv, LoggingInv
      <3>3. ~LoggingIsOn(NoLogging)
        BY DEF LoggingIsOn, NoLogging
      <3>4. pass' # "add_logging"
        BY <1>1, <2>1 DEF NextPass
      <3> QED
        BY <1>2, <3>2, <3>3, <3>4 DEF LoggingInv
    <2>2. CASE pass = "add_logging"
      <3>1. pass' \in {"add_logging", "done"} /\ pass' \notin BeforeLogging
        BY <1>1, <2>2 DEF NextPass, BeforeLogging
      <3>2. \A f \in DOMAIN functions : Bracketed(f, LoggedTo(f))
        BY <2>2 DEF PassesInv, LoggingInv
      <3>3. ASSUME NEW f \in DOMAIN functions PROVE LoggedTo(f)' = LoggedTo(f)
        <4>1. at[2] = Len(Body) + 1
          BY <1>1, <1>4 DEF Body
        <4>2. CASE at[1] < Len(functions) /\ at' = <<at[1] + 1, 1>> /\ pass' = pass
          <5>1. at'[1] = at[1] + 1 /\ at'[2] = 1
            BY <4>2
          <5> QED
            BY <1>2, <1>4, <2>2, <4>1, <4>2, <5>1 DEF LoggedTo, Body
        <4>3. CASE at[1] >= Len(functions) /\ at' = <<1, 1>> /\ pass' = NextPass[pass]
          <5>1. pass' = "done"
            BY <2>2, <4>3 DEF NextPass
          <5>2. f < at[1] \/ f = at[1]
            BY <1>4, <4>3
          <5> QED
            BY <1>2, <2>2, <4>1, <5>1, <5>2 DEF LoggedTo, Body
        <4> QED
          BY <1>2, <4>2, <4>3
      <3>4. ASSUME NEW f \in DOMAIN functions PROVE Bracketed(f, LoggedTo(f))'
        BY <1>2, <3>2, <3>3 DEF Bracketed
      <3> QED
        BY <1>2, <3>1, <3>4 DEF LoggingInv
    <2> QED
      BY <2>1, <2>2
  <1> QED
    BY <1>2, <1>3, <1>5, <1>6, <1>7, EmptyWorkList DEF PassesInv

-----------------------------------------------------------------------------
(* WrapSinks                                                               *)

\* A visit of WrapSinks leaves the module as it is.
LEMMA WrapSinksVisit ==
    ASSUME PassesInv, pass = "wrap_sinks", at[2] <= Len(Body), Visit(<<>>, Current),
           UNCHANGED <<pass, arguments, input, wrappers, freed, logging, call_site_counter>>,
           WorkListInv', OutputsInv'
    PROVE  PassesInv'
  <1>1. /\ Positioned
        /\ pass \notin Beginnings /\ pass \in BeforeLogging /\ pass \notin {"add_logging", "done"}
    BY DEF PassesInv, ModuleInv, Beginnings, BeforeLogging, Passes
  <1>2. functions' = functions /\ Positioned'
    BY <1>1, VisitSame
  <1>3. ModuleInv'
    BY <1>1, <1>2 DEF PassesInv, ModuleInv, Beginnings
  <1>4. LoggingInv'
    BY <1>1, <1>2 DEF PassesInv, LoggingInv
  <1>5. AddressInv' /\ NamesInv'
    BY <1>2, AddressesUnchanged
  <1> QED
    BY <1>3, <1>4, <1>5 DEF PassesInv

LEMMA WrapSinksSkipKeepsInv == PassesInv /\ WrapSinks_Skip => PassesInv'
  <1> SUFFICES ASSUME PassesInv, WrapSinks_Skip PROVE PassesInv'
    OBVIOUS
  <1>1. /\ pass = "wrap_sinks" /\ at[2] <= Len(Body) /\ Visit(<<>>, Current)
        /\ UNCHANGED <<pass, arguments, input, wrappers, freed, logging, call_site_counter,
                       calls_to_wrap, output_param_map>>
    BY DEF WrapSinks_Skip, Visiting, metadata_vars, wrap_vars, history
  <1>2. Body' = Body /\ FunctionName' = FunctionName
    BY <1>1, VisitSame DEF Body, FunctionName, PassesInv, ModuleInv
  <1>3. WorkListInv'
    BY <1>1, <1>2 DEF PassesInv, WorkListInv
  <1> QED
    BY <1>1, <1>3, OutputsUnchanged, WrapSinksVisit

\* A call that is found is not on the list yet.
LEMMA WrapSinksCollectKeepsInv == PassesInv /\ WrapSinks_Collect => PassesInv'
  <1> SUFFICES ASSUME PassesInv, WrapSinks_Collect PROVE PassesInv'
    OBVIOUS
  <1> DEFINE addr == Current.addr
             seen == addr \in DOMAIN output_param_map
             outputs == ParamsOfType(Current, "output")
             n == Len(calls_to_wrap)
  <1>1. /\ pass = "wrap_sinks" /\ at[2] <= Len(Body) /\ Visit(<<>>, Current)
        /\ UNCHANGED <<pass, arguments, input, wrappers, freed, logging, call_site_counter>>
        /\ ~IsWrapper(FunctionName) /\ IsSink(Current)
        /\ calls_to_wrap' = IF seen THEN calls_to_wrap ELSE Append(calls_to_wrap, addr)
        /\ DOMAIN output_param_map' = DOMAIN output_param_map \cup {addr}
        /\ \A a \in DOMAIN output_param_map \cup {addr} :
             output_param_map'[a] = IF a # addr THEN output_param_map[a]
                                    ELSE IF seen THEN output_param_map[a] \o outputs
                                    ELSE outputs
    BY DEF WrapSinks_Collect, Visiting, metadata_vars, history
  <1>2. /\ Body' = Body /\ FunctionName' = FunctionName
        /\ at[2] \in DOMAIN Body /\ addr = Body[at[2]].addr /\ Body[at[2]].meta # {}
    <2>1. at[1] \in DOMAIN functions /\ IsModule(functions)
      BY DEF PassesInv, ModuleInv, Positioned
    <2>2. DOMAIN Body = 1 .. Len(Body) /\ Len(Body) \in Nat
      BY <2>1, ModuleIs DEF Body
    <2>3. at[2] \in 1 .. Len(Body)
      BY <1>1, <2>2 DEF PassesInv, ModuleInv, Positioned
    <2>4. Current.meta # {}
      BY <1>1 DEF IsSink, HasParamOfType
    <2>5. functions' = functions /\ at'[1] = at[1]
      BY <1>1, VisitSame DEF PassesInv, ModuleInv
    <2> QED
      BY <2>2, <2>3, <2>4, <2>5 DEF Body, FunctionName, Current
  <1>3. /\ calls_to_wrap \in Seq(DOMAIN output_param_map)
        /\ \A k, l \in 1 .. n : calls_to_wrap[k] = calls_to_wrap[l] => k = l
        /\ \A k \in 1 .. n :
             \E l \in DOMAIN Body : Body[l].addr = calls_to_wrap[k] /\ Body[l].meta # {}
    BY DEF PassesInv, WorkListInv
  <1>4. n \in Nat /\ \A k \in 1 .. n : calls_to_wrap[k] \in DOMAIN output_param_map
    BY <1>3
  <1>5. OutputsInv'
    <2>1. outputs \in Seq(Nat)
      <3>1. Len(Current.args) \in Nat
        BY <1>1, CurrentIs DEF PassesInv, ModuleInv, IsInstruction
      <3> QED
        BY <3>1, ParamsType
    <2> HIDE DEF outputs, addr
    <2>2. \A a \in DOMAIN output_param_map : output_param_map[a] \in Seq(Nat)
      BY DEF PassesInv, OutputsInv
    <2>3. ASSUME NEW a \in DOMAIN output_param_map' PROVE output_param_map'[a] \in Seq(Nat)
      <3> PICK o : o = output_param_map[a]
        OBVIOUS
      <3>1. a \in DOMAIN output_param_map => o \in Seq(Nat) /\ o \o outputs \in Seq(Nat)
        BY <2>1, <2>2, Concat
      <3>2. \/ a \in DOMAIN output_param_map /\ output_param_map'[a] = o
            \/ a \in DOMAIN output_param_map /\ output_param_map'[a] = o \o outputs
            \/ output_param_map'[a] = outputs
        BY <1>1, <2>3
      <3> QED
        BY <2>1, <3>1, <3>2
    <2> QED
      BY <2>3 DEF OutputsInv
  <1> HIDE DEF addr, n
  <1>6. CASE seen
    <2>1. calls_to_wrap' = calls_to_wrap /\ DOMAIN output_param_map' = DOMAIN output_param_map
      BY <1>1, <1>6
    <2>2. WorkListInv'
      BY <1>1, <1>2, <2>1 DEF PassesInv, WorkListInv
    <2> QED
      BY <1>1, <1>5, <2>2, WrapSinksVisit
  <1>7. CASE ~seen
    <2> PICK calls : calls = Append(calls_to_wrap, addr)
      OBVIOUS
    <2>1. /\ calls \in Seq(DOMAIN output_param_map \cup {addr})
          /\ Len(calls) = n + 1 /\ calls[n + 1] = addr
          /\ \A k \in 1 .. n : calls[k] = calls_to_wrap[k]
      <3> PICK D : D = DOMAIN output_param_map \cup {addr}
        OBVIOUS
      <3>1. calls_to_wrap \in Seq(D) /\ addr \in D
        BY <1>3, SeqMonotonic
      <3> QED
        BY <1>4, <3>1 DEF n
    <2>2. \A k \in 1 .. n + 1 : k \in 1 .. n \/ k = n + 1
      BY <1>4
    <2>3. ASSUME NEW k \in 1 .. n + 1, NEW l \in 1 .. n + 1, calls[k] = calls[l]
          PROVE  k = l
      <3>1. CASE k \in 1 .. n /\ l \in 1 .. n
        BY <1>3, <2>1, <2>3, <3>1
      <3>2. CASE k \in 1 .. n /\ l = n + 1
        BY <1>4, <1>7, <2>1, <2>3, <3>2
      <3>3. CASE k = n + 1 /\ l \in 1 .. n
        BY <1>4, <1>7, <2>1, <2>3, <3>3
      <3>4. CASE k = n + 1 /\ l = n + 1
        BY <3>4
      <3> QED
        BY <2>2, <3>1, <3>2, <3>3, <3>4
    <2>4. ASSUME NEW k \in 1 .. n + 1
          PROVE  \E l \in DOMAIN Body : Body[l].addr = calls[k] /\ Body[l].meta # {}
      <3>1. CASE k \in 1 .. n
        BY <1>3, <2>1, <3>1
      <3>2. CASE k = n + 1
        BY <1>2, <2>1, <3>2
      <3> QED
        BY <2>2, <3>1, <3>2
    <2>5. calls_to_wrap' = calls
      BY <1>1, <1>7
    <2>6. WorkListInv'
      BY <1>1, <1>2, <2>1, <2>3, <2>4, <2>5, SMTT(30) DEF WorkListInv
    <2> QED
      BY <1>1, <1>5, <2>6, WrapSinksVisit
  <1> QED
    BY <1>6, <1>7

LEMMA WrapCrashesKeepsInv == PassesInv /\ WrapCrashes => PassesInv'
  <1> SUFFICES ASSUME PassesInv, WrapCrashes PROVE PassesInv'
    OBVIOUS
  <1>1. /\ pass = "wrap_sinks" /\ pass' = "crashed"
        /\ UNCHANGED <<functions, at, arguments, input, wrappers, logging, call_site_counter,
                       calls_to_wrap, output_param_map, freed>>
    BY DEF WrapCrashes, Wrapping, module_vars, metadata_vars, wrap_vars, history
  <1>2. ModuleInv' /\ AddressInv' /\ NamesInv' /\ OutputsInv'
    BY <1>1, ModuleUnchanged, AddressesUnchanged, OutputsUnchanged
       DEF Beginnings, BeforeSources, BeforeTags
  <1>3. WorkListInv'
    BY <1>1 DEF PassesInv, WorkListInv, Body, FunctionName
  <1>4. LoggingInv'
    BY <1>1 DEF LoggingInv, BeforeLogging
  <1> QED
    BY <1>1, <1>2, <1>3, <1>4 DEF PassesInv, Passes

\* hs is gs with w in the place of instruction c of function f.
HasReplaced(hs, gs, f, c, w) ==
    /\ DOMAIN hs = DOMAIN gs
    /\ \A g \in DOMAIN gs : hs[g].name = gs[g].name
    /\ \A g \in DOMAIN gs \ {f} : hs[g] = gs[g]
    /\ DOMAIN hs[f].body = DOMAIN gs[f].body
    /\ Len(hs[f].body) = Len(gs[f].body)
    /\ hs[f].body[c] = w
    /\ \A k \in DOMAIN gs[f].body \ {c} : hs[f].body[k] = gs[f].body[k]

Replaced(gs, f, c, w) == [gs EXCEPT ![f].body[c] = w]

LEMMA ReplacedIs ==
    ASSUME NEW gs, IsModule(gs), NEW f \in DOMAIN gs, NEW c \in DOMAIN gs[f].body, NEW w
    PROVE  IsModule(Replaced(gs, f, c, w)) /\ HasReplaced(Replaced(gs, f, c, w), gs, f, c, w)
  <1> PICK hs : hs = Replaced(gs, f, c, w)
    OBVIOUS
  <1>1. PICK N, T : gs \in Seq([name : N, body : Seq(T)])
    BY DEF IsModule
  <1> DEFINE S == T \cup {w}
             F == [name : N, body : Seq(S)]
  <1>2. gs \in Seq(F)
    <2> DEFINE F1 == [name : N, body : Seq(T)]
    <2>1. T \subseteq S
      OBVIOUS
    <2>2. F1 \subseteq F
      <3> HIDE DEF S
      <3>1. Seq(T) \subseteq Seq(S)
        BY <2>1, SeqMonotonic
      <3> QED
        BY <3>1
    <2>3. gs \in Seq(F1)
      BY <1>1
    <2> HIDE DEF F, F1
    <2> QED
      BY <2>2, <2>3, SeqMonotonic
  <1>3. w \in S
    OBVIOUS
  <1> HIDE DEF S
  <1>4. f \in 1 .. Len(gs) /\ DOMAIN gs = 1 .. Len(gs) /\ gs[f] \in F
    <2> HIDE DEF F
    <2> QED
      BY <1>2
  <1> PICK b : b = gs[f].body
    OBVIOUS
  <1>5. b \in Seq(S) /\ c \in 1 .. Len(b) /\ DOMAIN b = 1 .. Len(b)
    <2>1. b \in Seq(S) /\ c \in DOMAIN b
      BY <1>4
    <2> QED
      BY <2>1
  <1> PICK r : r = [b EXCEPT ![c] = w]
    OBVIOUS
  <1>6. /\ r \in Seq(S) /\ Len(r) = Len(b) /\ DOMAIN r = DOMAIN b /\ r[c] = w
        /\ \A k \in DOMAIN b \ {c} : r[k] = b[k]
    BY <1>3, <1>5, ExceptSeq
  <1> PICK x : x = gs[f]
    OBVIOUS
  <1> PICK g : g = [x EXCEPT !.body = r]
    OBVIOUS
  <1>7. g \in F /\ g.name = gs[f].name /\ g.body = r
    BY <1>4, <1>6
  <1>8. hs = [gs EXCEPT ![f] = g]
    <2>1. hs = [gs EXCEPT ![f] = [gs[f] EXCEPT !.body = [gs[f].body EXCEPT ![c] = w]]]
      BY DEF Replaced
    <2>2. [gs[f].body EXCEPT ![c] = w] = r
      OBVIOUS
    <2>3. [gs[f] EXCEPT !.body = r] = g
      BY Zenon
    <2> QED
      BY <2>1, <2>2, <2>3, Zenon
  <1> HIDE DEF F
  <1>9. /\ hs \in Seq(F) /\ DOMAIN hs = DOMAIN gs /\ hs[f] = g
        /\ \A h \in DOMAIN gs \ {f} : hs[h] = gs[h]
    BY <1>2, <1>4, <1>7, <1>8, ExceptSeq
  <1>10. HasReplaced(hs, gs, f, c, w)
    <2>1. hs[f].body = r /\ gs[f].body = b /\ hs[f].name = gs[f].name
      BY <1>7, <1>9
    <2>2. \A h \in DOMAIN gs : hs[h].name = gs[h].name
      BY <1>9, <2>1, Zenon
    <2>3. /\ DOMAIN hs[f].body = DOMAIN gs[f].body /\ Len(hs[f].body) = Len(gs[f].body)
          /\ hs[f].body[c] = w
      BY <1>6, <2>1, Zenon
    <2>4. \A k \in DOMAIN gs[f].body \ {c} : hs[f].body[k] = gs[f].body[k]
      BY <1>6, <2>1, Zenon
    <2> QED
      BY <1>9, <2>2, <2>3, <2>4, Zenon DEF HasReplaced
  <1> QED
    BY <1>9, <1>10 DEF IsModule, F

\* An address that is Fresh is none that was ever seen, as far as there is any.
LEMMA FreshIsFresh ==
    ASSUME PassesInv, pass \in BeforeTags, Addresses(functions) # {}
    PROVE  Fresh \in Nat /\ \A addr \in freed \cup Addresses(functions) : addr \in Nat /\ addr < Fresh
  <1>1. freed \subseteq Nat /\ \E b \in Nat : \A addr \in freed : addr <= b
    BY DEF PassesInv, AddressInv
  <1>2. \E b \in Nat : \A addr \in Addresses(functions) : addr \in Nat /\ addr <= b
    <2>1. IsModule(functions) /\ \A i \in InstructionsOf(functions) : i.addr \in Nat
      BY DEF PassesInv, ModuleInv, Positioned, IsInstruction
    <2> QED
      BY <2>1, AddressesBounded
  <1>3. PICK b \in Nat : \A addr \in freed : addr <= b
    BY <1>1
  <1>4. PICK c \in Nat : \A addr \in Addresses(functions) : addr \in Nat /\ addr <= c
    BY <1>2
  <1> DEFINE T == freed \cup Addresses(functions)
  <1>5. T \in SUBSET Nat /\ T # {} /\ b + c \in Nat /\ \A addr \in T : addr <= b + c
    <2>1. \A addr \in freed : addr \in Nat /\ addr <= b + c
      BY <1>1, <1>3
    <2>2. \A addr \in Addresses(functions) : addr \in Nat /\ addr <= b + c
      BY <1>4
    <2> QED
      BY <2>1, <2>2
  <1>6. Fresh = 1 + Max(T)
    BY DEF Fresh
  <1> HIDE DEF T
  <1>7. Max(T) \in T /\ \A addr \in T : addr <= Max(T)
    BY <1>5, Greatest
  <1>8. Max(T) \in Nat /\ \A addr \in T : addr \in Nat
    BY <1>5, <1>7
  <1>9. Fresh \in Nat /\ \A addr \in T : addr \in Nat /\ addr < Fresh
    BY <1>6, <1>7, <1>8
  <1> QED
    BY <1>9 DEF T

\* The call that is wrapped next is where WrapSinks found it.
LEMMA CallToWrap ==
    ASSUME PassesInv, Wrapping
    PROVE  /\ calls_to_wrap \in Seq(DOMAIN output_param_map)
           /\ Len(calls_to_wrap) \in Nat \ {0}
           /\ Last(calls_to_wrap) = calls_to_wrap[Len(calls_to_wrap)]
           /\ CB \in DOMAIN Body /\ Body[CB].addr = Last(calls_to_wrap)
           /\ Body[CB] \in InstructionsOf(functions)
           /\ Body[CB].addr \in Nat \ {0}
           /\ Body[CB].meta # {}
           /\ Outputs \in Seq(Nat)
  <1> DEFINE n == Len(calls_to_wrap)
  <1>1. calls_to_wrap \in Seq(DOMAIN output_param_map) /\ calls_to_wrap # <<>>
    BY DEF PassesInv, WorkListInv, Wrapping
  <1>2. n \in Nat \ {0} /\ Last(calls_to_wrap) = calls_to_wrap[n]
    BY <1>1 DEF Last
  <1>3. PICK k \in DOMAIN Body : Body[k].addr = Last(calls_to_wrap) /\ Body[k].meta # {}
    BY <1>2 DEF PassesInv, WorkListInv
  <1>4. CB \in DOMAIN Body /\ Body[CB].addr = Last(calls_to_wrap)
    BY <1>3 DEF CB
  <1>5. /\ at[1] \in DOMAIN functions /\ Body = functions[at[1]].body
        /\ \A l \in DOMAIN Body : Body[l] \in InstructionsOf(functions)
    BY ModuleIs DEF PassesInv, ModuleInv, Positioned, Body
  <1>6. Body[k].addr \in Nat \ {0}
    BY <1>3, <1>5 DEF PassesInv, ModuleInv, IsInstruction
  <1>7. CB = k
    <2>1. Distinct(functions)
      BY DEF PassesInv, AddressInv, Wrapping, BeforeTags
    <2> QED
      BY <1>3, <1>4, <1>5, <1>6, <2>1 DEF Distinct
  <1>8. Outputs \in Seq(Nat)
    <2>1. Last(calls_to_wrap) \in DOMAIN output_param_map
      BY <1>1, <1>2
    <2> QED
      BY <2>1 DEF Outputs, PassesInv, OutputsInv
  <1> QED
    BY <1>1, <1>2, <1>3, <1>4, <1>5, <1>6, <1>7, <1>8

\* In the body of a wrapper one instruction has an address: the original.
IsWrapperBody(b, addr) ==
    /\ \E S : b \in Seq(S) /\ \A i \in S : IsInstruction(i) /\ ~OpensOrCloses(i)
    /\ \E p \in 1 .. Len(b) : \A k \in 1 .. Len(b) : b[k].addr = IF k = p THEN addr ELSE 0

\* That is what is left of the call; the rest is made, and puts no tag.
HoldsCall(b, call) ==
    \E p \in 1 .. Len(b) :
      /\ IsDirectCall(b[p])
      /\ b[p].fn = call.fn /\ b[p].meta = call.meta /\ b[p].src = call.src
      /\ b[p].tags = call.tags
      /\ \A k \in (1 .. Len(b)) \ {p} : IsMade(b[k]) /\ TagIsIn(b[k], {})

LEMMA WrapperBodyIs ==
    ASSUME NEW call, IsInstruction(call), ~OpensOrCloses(call), call.meta # {},
           Outputs \in Seq(Nat), NEW addr \in Nat \ {0}
    PROVE  /\ IsWrapperBody(WrapperBody(call, addr), addr)
           /\ HoldsCall(WrapperBody(call, addr), call)
  <1> DEFINE n == Len(Signature[call.fn].params)
             formals == [k \in 1 .. n |-> <<"param", k>>]
             formal == [call EXCEPT !.op = "call", !.addr = addr, !.args = formals]
             operands == {Operand(formal, Outputs[m]) : m \in DOMAIN Outputs}
                           \cup {formal.args[Outputs[m]] : m \in DOMAIN Outputs}
             B == Inserted(operands, {})
             ss == [m \in DOMAIN Outputs |->
                      Cast(formal, Outputs[m]) \o <<SetModified(formal.args[Outputs[m]])>>]
             br == Instruction("br", "", <<>>)
             ret == Instruction("ret", "", <<>>)
             S == B \cup {br, formal, ret}
             first == <<br>> \o FlattenSeq(ss)
  <1>1. /\ IsInstruction(formal) /\ ~OpensOrCloses(formal) /\ formal.addr = addr
        /\ IsDirectCall(formal)
        /\ formal.fn = call.fn /\ formal.meta = call.meta /\ formal.src = call.src
        /\ formal.tags = call.tags
    <2>1. n \in Nat /\ call.fn \in DOMAIN Signature
      <3>1. call.fn \in DOMAIN Signature
        BY DEF IsInstruction
      <3>2. Signature[call.fn].params \in Seq(STRING)
        BY <3>1, SignatureAssumption
      <3> QED
        BY <3>1, <3>2
    <2>2. Len(formals) \in Nat
      <3> HIDE DEF n
      <3> QED
        BY <2>1
    <2>3. formal = AsFormal(call, addr, formals)
      BY DEF AsFormal
    <2> HIDE DEF formal, formals
    <2>4. /\ IsRecord(formal) /\ formal.op = "call" /\ formal.addr = addr /\ formal.args = formals
          /\ formal.fn = call.fn /\ formal.tags = call.tags /\ formal.meta = call.meta
          /\ formal.src = call.src
      BY <2>3, AsFormalIs DEF IsInstruction
    <2> QED
      BY <2>1, <2>2, <2>4 DEF IsInstruction, IsDirectCall, OpensOrCloses
  <1>2. ASSUME NEW op \in {"br", "ret"}, NEW i, i = Instruction(op, "", <<>>)
        PROVE  IsInstruction(i) /\ ~OpensOrCloses(i) /\ i.addr = 0 /\ IsMade(i) /\ TagIsIn(i, {})
    <2> DEFINE name == ""
    <2>1. name \notin {"clam_prov_logging_init", "clam_prov_logging_shutdown", "add_tag"}
      BY Zenon
    <2>2. i = Instruction(op, name, <<>>)
      BY <1>2, Zenon
    <2> HIDE DEF name
    <2>3. Len(<<>>) \in Nat
      OBVIOUS
    <2>4. /\ i.op = op /\ i.fn = name /\ i.args = <<>>
          /\ i.meta = {} /\ i.tags = {} /\ i.addr = 0 /\ i.src = 0 /\ IsRecord(i)
      BY <2>2, MadeInstruction
    <2> QED
      BY <2>1, <2>3, <2>4 DEF IsInstruction, OpensOrCloses, IsMade, IsDirectCall, TagIsIn
  <1>3. /\ IsInstruction(br) /\ ~OpensOrCloses(br) /\ br.addr = 0 /\ IsMade(br)
        /\ IsInstruction(ret) /\ ~OpensOrCloses(ret) /\ ret.addr = 0 /\ IsMade(ret)
        /\ TagIsIn(br, {}) /\ TagIsIn(ret, {})
    BY <1>2, Zenon
  <1>4. \A i \in B : /\ IsInstruction(i) /\ ~OpensOrCloses(i) /\ i.addr = 0 /\ IsMade(i)
                     /\ TagIsIn(i, {})
    <2> HIDE DEF operands
    <2> QED
      BY InsertedAreInstructions
  <1>5. ss \in Seq(Seq(B))
    <2>1. DOMAIN Outputs = 1 .. Len(Outputs) /\ Len(Outputs) \in Nat
      OBVIOUS
    <2>2. ASSUME NEW m \in DOMAIN Outputs
          PROVE  ss[m] \in Seq(B)
      <3> DEFINE cast == Cast(formal, Outputs[m])
                 mark == SetModified(formal.args[Outputs[m]])
      <3>1. cast \in Seq(B)
        <4>1. Operand(formal, Outputs[m]) \in operands
          OBVIOUS
        <4> HIDE DEF operands, formal
        <4> QED
          BY <4>1, InsertedType
      <3>2. mark \in B
        <4>1. formal.args[Outputs[m]] \in operands
          OBVIOUS
        <4> HIDE DEF operands, formal
        <4> QED
          BY <4>1 DEF Inserted
      <3>3. ss[m] = cast \o <<mark>>
        OBVIOUS
      <3> HIDE DEF B, cast, mark, ss
      <3> QED
        BY <3>1, <3>2, <3>3, OneElement, Concat
    <2>3. ss = [m \in DOMAIN Outputs |-> ss[m]]
      <3> HIDE DEF formal
      <3> QED
        BY Zenon
    <2> HIDE DEF B, ss
    <2> PICK Q, l : Q = Seq(B) /\ l = Len(Outputs)
      OBVIOUS
    <2>4. l \in Nat /\ ss = [m \in 1 .. l |-> ss[m]] /\ \A m \in 1 .. l : ss[m] \in Q
      BY <2>1, <2>2, <2>3
    <2>5. ss \in [1 .. l -> Q]
      BY <2>4
    <2> QED
      BY <2>4, <2>5
  <1>6. WrapperBody(call, addr) = first \o <<formal, ret>>
    BY DEF WrapperBody
  <1> HIDE DEF B, ss, br, ret, formal
  <1>7. FlattenSeq(ss) \in Seq(B)
    BY <1>5, FlattenType
  <1> DEFINE E == B \cup {br}
             last == <<formal, ret>>
             b == first \o last
  <1>8. /\ first \in Seq(E) /\ E \subseteq S /\ formal \in S /\ ret \in S
    <2>1. B \subseteq E /\ br \in E /\ E \subseteq S
      OBVIOUS
    <2> HIDE DEF E
    <2>2. FlattenSeq(ss) \in Seq(E)
      BY <1>7, <2>1, SeqMonotonic
    <2>3. <<br>> \in Seq(E)
      BY <2>1, OneElement
    <2> PICK one, flat : one = <<br>> /\ flat = FlattenSeq(ss)
      OBVIOUS
    <2>4. one \o flat \in Seq(E)
      BY <2>2, <2>3, Concat
    <2> QED
      BY <2>1, <2>4
  <1>9. \A i \in E : i.addr = 0 /\ IsMade(i) /\ TagIsIn(i, {})
    BY <1>3, <1>4
  <1>10. \A i \in S : IsInstruction(i) /\ ~OpensOrCloses(i)
    BY <1>1, <1>3, <1>4
  <1> HIDE DEF S, E, first
  <1>11. first \in Seq(S) /\ last \in Seq(S) /\ Len(last) = 2 /\ last[1] = formal /\ last[2] = ret
    BY <1>8, SeqMonotonic
  <1> HIDE DEF last
  <1>12. /\ b \in Seq(S) /\ Len(b) = Len(first) + 2 /\ Len(first) \in Nat
         /\ DOMAIN first = 1 .. Len(first)
         /\ \A k \in 1 .. Len(first) : b[k] = first[k]
         /\ \A k \in 1 .. 2 : b[Len(first) + k] = last[k]
    <2> PICK f, l : f = first /\ l = last
      OBVIOUS
    <2>1. f \in Seq(S) /\ l \in Seq(S) /\ Len(l) = 2
      BY <1>11
    <2>2. /\ f \o l \in Seq(S) /\ Len(f \o l) = Len(f) + Len(l) /\ Len(f) \in Nat
          /\ DOMAIN f = 1 .. Len(f)
          /\ \A k \in 1 .. Len(f) : (f \o l)[k] = f[k]
          /\ \A k \in 1 .. Len(l) : (f \o l)[Len(f) + k] = l[k]
      <3>1. f \in Seq(S) /\ l \in Seq(S)
        BY <2>1
      <3>2. /\ f \o l \in Seq(S) /\ Len(f \o l) = Len(f) + Len(l) /\ Len(f) \in Nat
            /\ DOMAIN f = 1 .. Len(f)
        BY <3>1, Concat
      <3>3. \A k \in 1 .. Len(f) : (f \o l)[k] = f[k]
        BY <3>1, Concat
      <3>4. \A k \in 1 .. Len(l) : (f \o l)[Len(f) + k] = l[k]
        BY <3>1, Concat
      <3> QED
        BY <3>2, <3>3, <3>4
    <2> QED
      BY <2>1, <2>2
  <1> HIDE DEF b
  <1>13. b[Len(first) + 1] = formal /\ b[Len(first) + 2] = ret
    BY <1>11, <1>12
  <1>14. \A k \in 1 .. Len(first) : b[k].addr = 0 /\ IsMade(b[k]) /\ TagIsIn(b[k], {})
    BY <1>8, <1>9, <1>12
  <1> DEFINE p == Len(first) + 1
  <1>15. \A k \in 1 .. Len(b) : b[k].addr = IF k = p THEN addr ELSE 0
    <2>1. ASSUME NEW k \in 1 .. Len(b)
          PROVE  k \in 1 .. Len(first) \/ k = p \/ k = p + 1
      BY <1>12
    <2> QED
      BY <1>1, <1>3, <1>12, <1>13, <1>14, <2>1
  <1>16. p \in 1 .. Len(b)
    BY <1>12
  <1>17. IsWrapperBody(b, addr)
    BY <1>10, <1>12, <1>15, <1>16 DEF IsWrapperBody
  <1>18. HoldsCall(b, call)
    <2>1. \A k \in (1 .. Len(b)) \ {p} : IsMade(b[k]) /\ TagIsIn(b[k], {})
      <3>1. ASSUME NEW k \in 1 .. Len(b)
            PROVE  k \in 1 .. Len(first) \/ k = p \/ k = Len(first) + 2
        BY <1>12
      <3> QED
        BY <1>3, <1>13, <1>14, <3>1
    <2> QED
      BY <1>1, <1>13, <1>16, <2>1 DEF HoldsCall
  <1> QED
    BY <1>6, <1>17, <1>18 DEF b, last

\* The body of the wrapper and its call are made for the call that is wrapped.
Wraps(b, wrapper, orig) == b = WrapperBody(Body[CB], orig) /\ wrapper.args = Body[CB].args

\* What WrapCall does to the module: a wrapper more, and the call replaced.
IsWrapped(b, wrapper, orig, new) ==
    /\ IsWrapperBody(b, orig) /\ HoldsCall(b, Body[CB]) /\ Wraps(b, wrapper, orig)
    /\ wrapper.addr = new /\ wrapper.op = "call" /\ wrapper.fn = NextWrapper
    /\ wrapper.meta = {} /\ wrapper.tags = {} /\ wrapper.src = 0
    /\ IsInstruction(wrapper) /\ ~OpensOrCloses(wrapper)
    /\ IsModule(functions')
    /\ DOMAIN functions' = 1 .. Len(functions) + 1
    /\ functions'[Len(functions) + 1] = [name |-> NextWrapper, body |-> b]
    /\ \A f \in DOMAIN functions : functions'[f].name = functions[f].name
    /\ \A f \in DOMAIN functions \ {at[1]} : functions'[f] = functions[f]
    /\ functions'[at[1]].body = Body'
    /\ Len(Body') = Len(Body) /\ DOMAIN Body' = DOMAIN Body
    /\ Body'[CB] = wrapper
    /\ \A k \in DOMAIN Body \ {CB} : Body'[k] = Body[k]

LEMMA NextWrapperIs ==
    ASSUME PassesInv, wrappers < Len(WrapperName)
    PROVE  /\ \A f \in DOMAIN functions : functions[f].name # NextWrapper
           /\ NextWrapper \in ToSet(WrapperName)
           /\ wrappers + 1 \in 1 .. Len(WrapperName)
           /\ Unused' \subseteq Unused \/ wrappers' # wrappers + 1
           /\ NextWrapper \notin Unused' \/ wrappers' # wrappers + 1
  <1>1. /\ wrappers + 1 \in 1 .. Len(WrapperName) /\ Len(WrapperName) \in Nat /\ wrappers \in Nat
        /\ DOMAIN WrapperName = 1 .. Len(WrapperName)
    BY NamesAssumption DEF PassesInv
  <1>2. NextWrapper \in Unused /\ NextWrapper \in ToSet(WrapperName)
    BY <1>1 DEF Unused, NextWrapper, ToSet
  <1>3. \A f \in DOMAIN functions : functions[f].name # NextWrapper
    BY <1>2 DEF PassesInv, NamesInv
  <1>4. ASSUME wrappers' = wrappers + 1
        PROVE  Unused' \subseteq Unused /\ NextWrapper \notin Unused'
    <2>1. Unused' \subseteq Unused
      BY <1>1, <1>4 DEF Unused
    <2>2. ASSUME NEW n \in wrappers + 2 .. Len(WrapperName) PROVE WrapperName[n] # NextWrapper
      <3>1. n \in DOMAIN WrapperName /\ n # wrappers + 1
        BY <1>1
      <3> QED
        BY <1>1, <3>1, NamesAssumption DEF NextWrapper
    <2> QED
      BY <1>1, <1>4, <2>1, <2>2 DEF Unused
  <1> QED
    BY <1>1, <1>2, <1>3, <1>4

LEMMA WrapCallStep ==
    ASSUME PassesInv, Wrapping, wrappers < Len(WrapperName),
           NEW orig \in Nat \ {0}, NEW new \in Nat \ {0},
           at' = at,
           functions' = [InsertWrapper(NextWrapper, WrapperBody(Body[CB], orig))
                           EXCEPT ![at[1]].body[CB] =
                             [Instruction("call", NextWrapper, Body[CB].args) EXCEPT !.addr = new]]
    PROVE  \E b, wrapper : IsWrapped(b, wrapper, orig, new)
  <1> PICK b : b = WrapperBody(Body[CB], orig)
    OBVIOUS
  <1> PICK wrapper :
        wrapper = [Instruction("call", NextWrapper, Body[CB].args) EXCEPT !.addr = new]
    OBVIOUS
  <1>1. /\ CB \in DOMAIN Body /\ Body[CB] \in InstructionsOf(functions)
        /\ Body[CB].meta # {} /\ Outputs \in Seq(Nat)
        /\ IsInstruction(Body[CB]) /\ ~OpensOrCloses(Body[CB])
    BY CallToWrap DEF PassesInv, ModuleInv, LoggingInv, Wrapping, BeforeLogging, Passes
  <1>2. IsWrapperBody(b, orig) /\ HoldsCall(b, Body[CB])
    BY <1>1, WrapperBodyIs
  <1>3. /\ wrapper.addr = new /\ wrapper.op = "call" /\ wrapper.fn = NextWrapper
        /\ wrapper.meta = {} /\ wrapper.tags = {} /\ wrapper.src = 0
        /\ wrapper.args = Body[CB].args
        /\ IsInstruction(wrapper) /\ ~OpensOrCloses(wrapper)
    <2> PICK args : args = Body[CB].args
      OBVIOUS
    <2> DEFINE w == AtAddress(Instruction("call", NextWrapper, args), new)
    <2>1. wrapper = w
      BY DEF AtAddress
    <2>2. /\ wrapper.addr = new /\ wrapper.op = "call" /\ wrapper.fn = NextWrapper
          /\ wrapper.meta = {} /\ wrapper.tags = {} /\ wrapper.args = args /\ wrapper.src = 0
          /\ IsRecord(wrapper)
      <3>1. /\ w.addr = new /\ w.op = "call" /\ w.fn = NextWrapper
            /\ w.meta = {} /\ w.tags = {} /\ w.args = args /\ w.src = 0 /\ IsRecord(w)
        BY InstructionAtAddress
      <3> HIDE DEF w
      <3> QED
        BY <2>1, <3>1, Zenon
    <2>3. Len(args) \in Nat
      BY <1>1 DEF IsInstruction
    <2>4. NextWrapper \notin OwnFunctions
      BY NextWrapperIs, NamesAssumption
    <2> QED
      BY <2>2, <2>3, <2>4 DEF IsInstruction, OpensOrCloses, OwnFunctions
  <1>3a. Wraps(b, wrapper, orig)
    BY <1>3 DEF Wraps
  <1> PICK name : name = NextWrapper
    OBVIOUS
  <1>4. /\ IsModule(functions) /\ at[1] \in DOMAIN functions /\ DOMAIN functions = 1 .. Len(functions)
        /\ Len(functions) \in Nat /\ Body = functions[at[1]].body
    BY ModuleIs DEF PassesInv, ModuleInv, Positioned, Body
  <1>5. InsertWrapper(NextWrapper, b) = WithFunction(functions, NextWrapper, b)
    <2>1. {f \in DOMAIN functions : functions[f].name = NextWrapper} = {}
      BY NextWrapperIs
    <2> QED
      BY <2>1 DEF InsertWrapper, WithFunction
  <1> PICK gs : gs = WithFunction(functions, name, b)
    OBVIOUS
  <1>6. /\ IsModule(gs) /\ DOMAIN gs = 1 .. Len(functions) + 1
        /\ \A f \in DOMAIN functions : f \in DOMAIN gs /\ gs[f] = functions[f]
        /\ gs[Len(functions) + 1] = [name |-> name, body |-> b]
    <2>1. PICK S : b \in Seq(S)
      BY <1>2 DEF IsWrapperBody
    <2>2. IsModule(gs) /\ HasOneMore(gs, functions, [name |-> name, body |-> b])
      BY <1>4, <2>1, OneMoreFunction
    <2> QED
      BY <2>2 DEF HasOneMore
  <1> PICK c, f1 : c = CB /\ f1 = at[1]
    OBVIOUS
  <1>7. functions' = Replaced(gs, f1, c, wrapper)
    <2>1. functions' = [gs EXCEPT ![f1].body[c] = wrapper]
      BY <1>5, Zenon
    <2> QED
      BY <2>1 DEF Replaced
  <1>8. f1 \in DOMAIN gs /\ gs[f1] = functions[f1] /\ c \in DOMAIN gs[f1].body
    BY <1>1, <1>4, <1>6
  <1>9. IsModule(functions') /\ HasReplaced(functions', gs, f1, c, wrapper)
    <2> PICK hs : hs = Replaced(gs, f1, c, wrapper)
      OBVIOUS
    <2>1. IsModule(hs) /\ HasReplaced(hs, gs, f1, c, wrapper)
      BY <1>6, <1>8, ReplacedIs
    <2> QED
      BY <1>7, <2>1
  <1>10. /\ DOMAIN functions' = DOMAIN gs
         /\ \A g \in DOMAIN gs : functions'[g].name = gs[g].name
         /\ \A g \in DOMAIN gs \ {f1} : functions'[g] = gs[g]
         /\ DOMAIN functions'[f1].body = DOMAIN gs[f1].body
         /\ Len(functions'[f1].body) = Len(gs[f1].body)
         /\ functions'[f1].body[c] = wrapper
         /\ \A k \in DOMAIN gs[f1].body \ {c} : functions'[f1].body[k] = gs[f1].body[k]
    BY <1>9 DEF HasReplaced
  <1>11. functions'[at[1]].body = Body'
    BY DEF Body
  <1>12. functions'[Len(functions) + 1] = [name |-> NextWrapper, body |-> b]
    <2>1. Len(functions) + 1 \in DOMAIN gs \ {f1}
      <3> PICK n : n = Len(functions)
        OBVIOUS
      <3>1. n \in Nat /\ f1 \in 1 .. n /\ DOMAIN gs = 1 .. n + 1
        BY <1>4, <1>6
      <3> QED
        BY <3>1
    <2>2. functions'[Len(functions) + 1] = gs[Len(functions) + 1]
      BY <1>10, <2>1
    <2> QED
      BY <1>6, <2>2
  <1>13. /\ \A f \in DOMAIN functions : functions'[f].name = functions[f].name
         /\ \A f \in DOMAIN functions \ {at[1]} : functions'[f] = functions[f]
    BY <1>6, <1>10, SMTT(30)
  <1>14. /\ Len(Body') = Len(Body) /\ DOMAIN Body' = DOMAIN Body
         /\ Body'[CB] = wrapper
         /\ \A k \in DOMAIN Body \ {CB} : Body'[k] = Body[k]
    <2>1. gs[f1].body = Body /\ functions'[f1].body = Body'
      BY <1>4, <1>8, <1>11
    <2>2. c = CB
      OBVIOUS
    <2>3. Len(Body') = Len(Body) /\ DOMAIN Body' = DOMAIN Body
      BY <1>10, <2>1, Zenon
    <2>4. Body'[CB] = wrapper
      BY <1>10, <2>1, <2>2, Zenon
    <2>5. \A k \in DOMAIN Body \ {CB} : Body'[k] = Body[k]
      BY <1>10, <2>1, <2>2, ZenonT(30)
    <2> QED
      BY <2>3, <2>4, <2>5
  <1>15. DOMAIN functions' = 1 .. Len(functions) + 1
    BY <1>6, <1>10
  <1>16. IsWrapped(b, wrapper, orig, new)
    BY <1>2, <1>3, <1>3a, <1>9, <1>11, <1>12, <1>13, <1>14, <1>15 DEF IsWrapped
  <1> QED
    BY <1>16

\* Where the addresses are, after a call has been wrapped.
LEMMA WrappedAddresses ==
    ASSUME PassesInv, Wrapping, NEW b, NEW wrapper, NEW orig \in Nat \ {0}, NEW new \in Nat \ {0},
           IsWrapped(b, wrapper, orig, new),
           orig # new, orig \notin Addresses(functions), new \notin Addresses(functions)
    PROVE  /\ Distinct(functions')
           /\ Addresses(functions') \subseteq
                (Addresses(functions) \ {Body[CB].addr}) \cup {orig, new, 0}
  <1> PICK c, here, n : c = CB /\ here = at[1] /\ n = Len(functions)
    OBVIOUS
  <1>1. /\ c \in DOMAIN Body /\ Body[c].addr \in Nat \ {0} /\ Distinct(functions)
        /\ here \in DOMAIN functions /\ IsModule(functions) /\ Body = functions[here].body
        /\ n \in Nat /\ DOMAIN functions = 1 .. n
    <2>1. here \in DOMAIN functions /\ IsModule(functions)
      BY DEF PassesInv, ModuleInv, Positioned
    <2>2. n \in Nat /\ DOMAIN functions = 1 .. n
      BY <2>1, ModuleIs
    <2>3. Distinct(functions)
      BY DEF PassesInv, AddressInv, Wrapping, BeforeTags
    <2> QED
      BY <2>1, <2>2, <2>3, CallToWrap DEF Body
  <1>2. PICK p \in 1 .. Len(b) : \A k \in 1 .. Len(b) : b[k].addr = IF k = p THEN orig ELSE 0
    BY DEF IsWrapped, IsWrapperBody
  <1>3. DOMAIN b = 1 .. Len(b)
    BY DEF IsWrapped, IsWrapperBody
  <1> DEFINE Old(f, k) == f \in DOMAIN functions /\ k \in DOMAIN functions[f].body
                          /\ functions'[f].body[k] = functions[f].body[k]
                          /\ ~(f = here /\ k = c)
             Called(f, k) == f = here /\ k = c /\ functions'[f].body[k].addr = new
             Kept(f, k) == f = n + 1 /\ k = p /\ functions'[f].body[k].addr = orig
  <1>4. ASSUME NEW f \in DOMAIN functions', NEW k \in DOMAIN functions'[f].body,
               functions'[f].body[k].addr # 0
        PROVE  Old(f, k) \/ Called(f, k) \/ Kept(f, k)
    <2>1. CASE f = n + 1
      <3>1. functions'[f].body = b
        BY <2>1 DEF IsWrapped
      <3>2. b[k].addr # 0 /\ k \in 1 .. Len(b)
        BY <1>3, <1>4, <3>1
      <3> QED
        BY <1>2, <2>1, <3>1, <3>2
    <2>2. CASE f \in DOMAIN functions \ {here}
      <3>1. functions'[f] = functions[f]
        BY <2>2 DEF IsWrapped
      <3> QED
        BY <2>2, <3>1
    <2>3. CASE f = here
      <3>1. functions'[f].body = Body' /\ functions[f].body = Body
        BY <1>1, <2>3 DEF IsWrapped
      <3>2. DOMAIN Body' = DOMAIN Body /\ Body'[c].addr = new
            /\ \A l \in DOMAIN Body \ {c} : Body'[l] = Body[l]
        BY DEF IsWrapped
      <3> QED
        BY <1>1, <2>3, <3>1, <3>2
    <2>4. f \in DOMAIN functions \/ f = n + 1
      BY <1>1 DEF IsWrapped
    <2> QED
      BY <2>1, <2>2, <2>3, <2>4
  <1>5. ASSUME NEW f, NEW k, Old(f, k)
        PROVE  functions'[f].body[k].addr \in Addresses(functions)
    BY <1>5 DEF Addresses, ToSet
  <1>6. ASSUME NEW f, NEW k, Old(f, k), functions'[f].body[k].addr # 0
        PROVE  functions'[f].body[k].addr # Body[c].addr
    BY <1>1, <1>6 DEF Distinct
  <1>7. Distinct(functions')
    <2> SUFFICES ASSUME NEW f \in DOMAIN functions', NEW g \in DOMAIN functions',
                        NEW k \in DOMAIN functions'[f].body, NEW l \in DOMAIN functions'[g].body,
                        functions'[f].body[k].addr = functions'[g].body[l].addr,
                        functions'[f].body[k].addr # 0
                 PROVE  f = g /\ k = l
      BY DEF Distinct
    <2>1. Old(f, k) \/ Called(f, k) \/ Kept(f, k)
      BY <1>4
    <2>2. Old(g, l) \/ Called(g, l) \/ Kept(g, l)
      BY <1>4
    <2>3. CASE Old(f, k)
      <3>1. Old(g, l)
        BY <1>5, <2>2, <2>3
      <3> HIDE <2>1, <2>2
      <3> QED
        BY <1>1, <2>3, <3>1 DEF Distinct
    <2>4. CASE Called(f, k)
      <3>1. Called(g, l)
        BY <1>5, <2>2, <2>4
      <3> QED
        BY <2>4, <3>1
    <2>5. CASE Kept(f, k)
      <3>1. Kept(g, l)
        BY <1>5, <2>2, <2>5
      <3> QED
        BY <2>5, <3>1
    <2> QED
      BY <2>1, <2>3, <2>4, <2>5
  <1>8. ASSUME NEW addr \in Addresses(functions')
        PROVE  addr \in (Addresses(functions) \ {Body[c].addr}) \cup {orig, new, 0}
    <2>1. PICK f \in DOMAIN functions' : \E k \in DOMAIN functions'[f].body :
            functions'[f].body[k].addr = addr
      BY <1>8 DEF Addresses, ToSet
    <2>2. PICK k \in DOMAIN functions'[f].body : functions'[f].body[k].addr = addr
      BY <2>1
    <2>3. addr = 0 \/ Old(f, k) \/ Called(f, k) \/ Kept(f, k)
      BY <1>4, <2>2
    <2> HIDE DEF Old
    <2> QED
      BY <1>5, <1>6, <2>2, <2>3
  <1> QED
    BY <1>7, <1>8

\* A wrapped call leaves the list; the wrapper is a function more.
LEMMA WrapCallKeepsInv == PassesInv /\ WrapCall => PassesInv'
  <1> SUFFICES ASSUME PassesInv, WrapCall PROVE PassesInv'
    OBVIOUS
  <1> DEFINE n == Len(calls_to_wrap)
  <1>1. /\ Wrapping /\ pass = "wrap_sinks" /\ wrappers < Len(WrapperName) /\ calls_to_wrap # <<>>
        /\ wrappers' = wrappers + 1 /\ calls_to_wrap' = Front(calls_to_wrap)
        /\ UNCHANGED <<at, pass, arguments, input, call_site_counter, output_param_map, logging>>
    BY DEF WrapCall, Wrapping, metadata_vars, history
  <1>2. /\ calls_to_wrap \in Seq(DOMAIN output_param_map) /\ n \in Nat \ {0}
        /\ CB \in DOMAIN Body /\ Body[CB].addr = calls_to_wrap[n]
        /\ Body[CB].addr \in Nat \ {0}
        /\ Body[CB] \in InstructionsOf(functions)
    BY <1>1, CallToWrap
  <1>3. Fresh \in Nat /\ \A addr \in freed \cup Addresses(functions) : addr \in Nat /\ addr < Fresh
    <2>1. Addresses(functions) # {}
      BY <1>2 DEF Addresses, InstructionsOf
    <2> QED
      BY <1>1, <2>1, FreshIsFresh DEF BeforeTags
  <1>4. /\ freed \subseteq Nat \ {0} /\ freed \cap Addresses(functions) = {}
        /\ \E c \in Nat : \A addr \in freed : addr <= c
    BY <1>1 DEF PassesInv, AddressInv, BeforeTags
  <1>5. PICK orig \in freed \cup {Fresh}, new \in freed \cup {Fresh + 1} :
          /\ orig # new
          /\ functions' = [InsertWrapper(NextWrapper, WrapperBody(Body[CB], orig))
                             EXCEPT ![at[1]].body[CB] =
                               [Instruction("call", NextWrapper, Body[CB].args)
                                  EXCEPT !.addr = new]]
          /\ freed' = (freed \cup {Body[CB].addr}) \ {orig, new}
    BY DEF WrapCall
  <1>6. Body[CB].addr \in Addresses(functions)
    BY <1>2 DEF Addresses, InstructionsOf
  <1>7. /\ orig \in Nat \ {0} /\ new \in Nat \ {0}
        /\ orig \notin Addresses(functions) /\ new \notin Addresses(functions)
    <2>1. Fresh > 0
      BY <1>2, <1>3, <1>6
    <2> QED
      BY <1>3, <1>4, <2>1
  <1>8. PICK b, wrapper : IsWrapped(b, wrapper, orig, new)
    BY <1>1, <1>5, <1>7, WrapCallStep
  <1>9. /\ IsModule(functions) /\ at[1] \in DOMAIN functions /\ at[2] \in 1 .. Len(Body) + 1
        /\ Len(functions) \in Nat /\ DOMAIN functions = 1 .. Len(functions)
        /\ Body = functions[at[1]].body
        /\ \A i \in InstructionsOf(functions) : IsInstruction(i) /\ ~OpensOrCloses(i)
        /\ DOMAIN input \subseteq DOMAIN functions /\ logging = NoLogging
    BY <1>1, ModuleIs
       DEF PassesInv, ModuleInv, Positioned, Body, LoggingInv, BeforeLogging, Passes
  <1>10. ASSUME NEW i \in InstructionsOf(functions')
         PROVE  IsInstruction(i) /\ ~OpensOrCloses(i)
    <2>1. PICK f \in DOMAIN functions' : \E k \in DOMAIN functions'[f].body : i = functions'[f].body[k]
      BY <1>10 DEF InstructionsOf, ToSet
    <2>2. PICK k \in DOMAIN functions'[f].body : i = functions'[f].body[k]
      BY <2>1
    <2>3. CASE f = Len(functions) + 1
      <3>1. functions'[f].body = b
        BY <1>8, <2>3 DEF IsWrapped
      <3>2. PICK S : b \in Seq(S) /\ \A j \in S : IsInstruction(j) /\ ~OpensOrCloses(j)
        BY <1>8 DEF IsWrapped, IsWrapperBody
      <3>3. i \in S
        BY <2>2, <3>1, <3>2
      <3> QED
        BY <3>2, <3>3
    <2>4. CASE f \in DOMAIN functions \ {at[1]}
      <3>1. functions'[f] = functions[f]
        BY <1>8, <2>4 DEF IsWrapped
      <3>2. i \in InstructionsOf(functions)
        BY <2>2, <2>4, <3>1 DEF InstructionsOf, ToSet
      <3> QED
        BY <1>9, <3>2
    <2>5. CASE f = at[1]
      <3>1. k \in DOMAIN Body /\ i = Body'[k]
        BY <1>8, <2>2, <2>5 DEF IsWrapped
      <3>2. CASE k = CB
        BY <1>8, <3>1, <3>2 DEF IsWrapped
      <3>3. CASE k # CB
        <4>1. i = Body[k]
          BY <1>8, <3>1, <3>3 DEF IsWrapped
        <4>2. i \in InstructionsOf(functions)
          BY <1>9, <3>1, <4>1 DEF InstructionsOf, ToSet
        <4> QED
          BY <1>9, <4>2
      <3> QED
        BY <3>2, <3>3
    <2>6. f \in DOMAIN functions \/ f = Len(functions) + 1
      BY <1>8, <1>9 DEF IsWrapped
    <2> QED
      BY <2>3, <2>4, <2>5, <2>6
  <1>11. DOMAIN functions \subseteq DOMAIN functions'
    BY <1>8, <1>9 DEF IsWrapped
  <1>12. ModuleInv'
    <2>1. Positioned'
      <3>1. at'[1] \in DOMAIN functions' /\ at'[2] \in 1 .. Len(Body') + 1 /\ IsModule(functions')
        BY <1>1, <1>8, <1>9, <1>11 DEF IsWrapped
      <3> QED
        BY <3>1 DEF Positioned
    <2>2. pass' \notin Beginnings /\ pass' \notin BeforeSources /\ pass' # "start"
      BY <1>1 DEF Beginnings, BeforeSources
    <2>3. DOMAIN input' \subseteq DOMAIN functions'
      BY <1>1, <1>9, <1>11
    <2> QED
      BY <1>10, <2>1, <2>2, <2>3 DEF ModuleInv
  <1>13. WorkListInv'
    <2> PICK calls : calls = Front(calls_to_wrap)
      OBVIOUS
    <2>1. /\ calls \in Seq(DOMAIN output_param_map) /\ Len(calls) = n - 1
          /\ \A k \in 1 .. n - 1 : calls[k] = calls_to_wrap[k]
      <3> PICK D, s, m : D = DOMAIN output_param_map /\ s = calls_to_wrap /\ m = n
        OBVIOUS
      <3>1. s \in Seq(D) /\ m = Len(s) /\ m \in Nat \ {0} /\ m \in 1 .. m
        BY <1>2
      <3>2. calls = SubSeq(s, 1, m - 1)
        BY <3>1 DEF Front
      <3>3. SubSeq(s, 1, m - 1) = [k \in 1 .. m - 1 |-> s[k]]
        BY <3>1
      <3>4. calls \in Seq(D) /\ Len(calls) = m - 1 /\ \A k \in 1 .. m - 1 : calls[k] = s[k]
        BY <3>1, <3>2, <3>3
      <3> QED
        BY <3>4
    <2>2. \A k, l \in 1 .. n : calls_to_wrap[k] = calls_to_wrap[l] => k = l
      BY DEF PassesInv, WorkListInv
    <2>3. ASSUME NEW k \in 1 .. n - 1
          PROVE  \E l \in DOMAIN Body' : Body'[l].addr = calls[k] /\ Body'[l].meta # {}
      <3>1. k \in 1 .. n /\ n \in 1 .. n /\ k # n
        BY <1>2
      <3>2. PICK l \in DOMAIN Body : Body[l].addr = calls_to_wrap[k] /\ Body[l].meta # {}
        BY <3>1 DEF PassesInv, WorkListInv
      <3>3. l # CB
        BY <1>2, <2>2, <3>1, <3>2
      <3>4. l \in DOMAIN Body' /\ Body'[l] = Body[l]
        BY <1>8, <3>2, <3>3 DEF IsWrapped
      <3> QED
        BY <2>1, <3>2, <3>4
    <2>4. ~IsWrapper(FunctionName')
      <3>1. FunctionName' = FunctionName
        BY <1>1, <1>8, <1>9 DEF FunctionName, IsWrapped
      <3> QED
        BY <1>1, <3>1 DEF PassesInv, WorkListInv
    <2>5. \A k, l \in 1 .. n - 1 : calls[k] = calls[l] => k = l
      <3>1. \A k \in 1 .. n - 1 : k \in 1 .. n
        BY <1>2
      <3> QED
        BY <2>1, <2>2, <3>1
    <2>6. calls_to_wrap' = calls /\ UNCHANGED output_param_map /\ pass' = "wrap_sinks"
      BY <1>1
    <2> QED
      BY <2>1, <2>3, <2>4, <2>5, <2>6 DEF WorkListInv
  <1>14. LoggingInv'
    BY <1>1, <1>9, <1>10 DEF LoggingInv
  <1>15. AddressInv'
    <2>1. /\ Distinct(functions')
          /\ Addresses(functions') \subseteq
               (Addresses(functions) \ {Body[CB].addr}) \cup {orig, new, 0}
      BY <1>1, <1>5, <1>7, <1>8, WrappedAddresses
    <2>2. freed' \subseteq Nat \ {0} /\ freed' \cap Addresses(functions') = {}
      BY <1>2, <1>4, <1>5, <2>1
    <2>3. \E c \in Nat : \A addr \in freed' : addr <= c
      BY <1>3, <1>5, <1>6
    <2> QED
      BY <2>1, <2>2, <2>3 DEF AddressInv
  <1>16. NamesInv'
    <2>1. Unused' \subseteq Unused /\ NextWrapper \notin Unused'
      BY <1>1, NextWrapperIs
    <2>2. ASSUME NEW f \in DOMAIN functions' PROVE functions'[f].name \notin Unused'
      <3>1. CASE f \in DOMAIN functions
        BY <1>8, <2>1, <3>1 DEF IsWrapped, PassesInv, NamesInv
      <3>2. CASE f = Len(functions) + 1
        BY <1>8, <2>1, <3>2 DEF IsWrapped
      <3> QED
        BY <1>8, <1>9, <3>1, <3>2 DEF IsWrapped
    <2> QED
      BY <2>2 DEF NamesInv
  <1>17. wrappers' \in 0 .. Len(WrapperName)
    BY <1>1, NextWrapperIs
  <1>18. OutputsInv'
    BY <1>1, OutputsUnchanged
  <1> QED
    BY <1>1, <1>12, <1>13, <1>14, <1>15, <1>16, <1>17, <1>18 DEF PassesInv
-----------------------------------------------------------------------------
(* AddLogging                                                              *)

\* What AddLogging puts before instruction p of a function: the call that opens
\* the log first, and the one that closes it last.
IsLoggerBlock(before, p, name, op) ==
    /\ Len(before) \in Nat
    /\ \A k \in 1 .. Len(before) :
         /\ before[k].op = "call"
         /\ before[k].fn = "clam_prov_logging_init" <=> k = 1 /\ name = "main" /\ p = 1
         /\ before[k].fn = "clam_prov_logging_shutdown" <=>
              k = Len(before) /\ name = "main" /\ op = "ret"
    /\ name = "main" /\ (op = "ret" \/ p = 1) => Len(before) # 0

LEMMA LoggerCalls ==
    ASSUME NEW i, i = LoggerInit \/ i = LoggerShutdown \/ \E call : i = BufferLoggerCall(call)
    PROVE  /\ IsInstruction(i) /\ i.op = "call" /\ IsMade(i)
           /\ i.fn = "clam_prov_logging_init" <=> i = LoggerInit
           /\ i.fn = "clam_prov_logging_shutdown" <=> i = LoggerShutdown
  <1>1. ASSUME NEW j, NEW fn, NEW args, j = Instruction("call", fn, args), Len(args) \in Nat, fn \in OwnFunctions
        PROVE  IsInstruction(j) /\ j.op = "call" /\ j.fn = fn /\ IsMade(j)
    BY <1>1, MadeInstruction DEF IsInstruction, IsMade
  <1>2. \A x, y, z, w : /\ Len(<<x>>) \in Nat /\ Len(<<x, y, z>>) \in Nat
                        /\ Len(<<x, y, z, w>>) \in Nat
    OBVIOUS
  <1>3. /\ IsInstruction(LoggerInit) /\ LoggerInit.op = "call" /\ IsMade(LoggerInit)
        /\ LoggerInit.fn = "clam_prov_logging_init"
    BY <1>1, <1>2 DEF LoggerInit, OwnFunctions
  <1>4. /\ IsInstruction(LoggerShutdown) /\ LoggerShutdown.op = "call"
        /\ IsMade(LoggerShutdown)
        /\ LoggerShutdown.fn = "clam_prov_logging_shutdown"
    BY <1>1, <1>2 DEF LoggerShutdown, OwnFunctions
  <1>5. ASSUME NEW call
        PROVE  /\ IsInstruction(BufferLoggerCall(call)) /\ BufferLoggerCall(call).op = "call"
               /\ IsMade(BufferLoggerCall(call))
               /\ BufferLoggerCall(call).fn = "clam_prov_logging_buffer"
    BY <1>1, <1>2 DEF BufferLoggerCall, OwnFunctions
  <1> HIDE DEF LoggerInit, LoggerShutdown, BufferLoggerCall
  <1> QED
    BY <1>3, <1>4, <1>5

BlockOf(i, c, l, opens, logs, closes) ==
    (IF opens THEN <<i>> ELSE <<>>) \o (IF logs THEN <<c>> ELSE <<>>)
      \o (IF closes THEN <<l>> ELSE <<>>)

IsBlock(before, i, c, l, opens, closes) ==
    \/ opens /\ closes /\ before = <<i, l>>
    \/ opens /\ ~closes /\ before = <<i>>
    \/ ~opens /\ closes /\ before = <<c, l>>
    \/ ~opens /\ ~closes /\ before = <<c>>
    \/ ~opens /\ closes /\ before = <<l>>
    \/ ~opens /\ ~closes /\ before = <<>>

LEMMA Pair ==
    ASSUME NEW S, NEW x \in S, NEW y \in S
    PROVE  <<x>> \o <<y>> = <<x, y>>
  <1>1. <<x>> \in Seq(S) /\ <<y>> \in Seq(S)
    OBVIOUS
  <1> DEFINE d == <<x>> \o <<y>>
             e == <<x, y>>
  <1>2. d \in Seq(S) /\ Len(d) = 2 /\ d[1] = x /\ d[2] = y
    BY <1>1
  <1>3. e \in Seq(S) /\ Len(e) = 2 /\ e[1] = x /\ e[2] = y
    OBVIOUS
  <1> HIDE DEF d, e
  <1>4. \A k \in 1 .. 2 : d[k] = e[k]
    BY <1>2, <1>3
  <1>5. d = e
    BY <1>2, <1>3, <1>4
  <1> QED
    BY <1>5 DEF d, e

LEMMA BlockIs ==
    ASSUME NEW i, NEW c, NEW l, NEW opens \in BOOLEAN, NEW logs \in BOOLEAN,
           NEW closes \in BOOLEAN, ~(opens /\ logs)
    PROVE  IsBlock(BlockOf(i, c, l, opens, logs, closes), i, c, l, opens, closes)
  <1>1. ASSUME NEW x
        PROVE  /\ <<x>> \o <<>> \o <<>> = <<x>> /\ <<>> \o <<x>> \o <<>> = <<x>>
               /\ <<>> \o <<>> \o <<x>> = <<x>> /\ <<>> \o <<>> \o <<>> = <<>>
    OBVIOUS
  <1>2. <<i>> \o <<>> \o <<l>> = <<i, l>>
    <2>1. <<i>> \o <<>> = <<i>>
      OBVIOUS
    <2>2. <<i>> \o <<l>> = <<i, l>>
      <3>1. \A S : i \in S /\ l \in S => <<i>> \o <<l>> = <<i, l>>
        BY Pair
      <3> QED
        BY <3>1, i \in {i, l}, l \in {i, l}
    <2> QED
      BY <2>1, <2>2
  <1>3. <<>> \o <<c>> \o <<l>> = <<c, l>>
    <2>1. <<>> \o <<c>> = <<c>>
      OBVIOUS
    <2>2. <<c>> \o <<l>> = <<c, l>>
      <3>1. \A S : c \in S /\ l \in S => <<c>> \o <<l>> = <<c, l>>
        BY Pair
      <3> QED
        BY <3>1, c \in {c, l}, l \in {c, l}
    <2> QED
      BY <2>1, <2>2
  <1> QED
    BY <1>1, <1>2, <1>3 DEF BlockOf, IsBlock

LEMMA OneOf ==
    ASSUME NEW S, NEW x \in S, NEW b, b = <<x>>
    PROVE  b \in Seq(S) /\ Len(b) = 1 /\ b[1] = x
  OBVIOUS

LEMMA NoneOf ==
    ASSUME NEW S, NEW b, b = <<>>
    PROVE  b \in Seq(S) /\ Len(b) = 0
  OBVIOUS

LEMMA TwoOf ==
    ASSUME NEW S, NEW x \in S, NEW y \in S, NEW b, b = <<x, y>>
    PROVE  b \in Seq(S) /\ Len(b) = 2 /\ b[1] = x /\ b[2] = y
  OBVIOUS

LoggerBlockOf(i, c, l, p, name, op, logs) ==
    BlockOf(i, c, l, name = "main" /\ p = 1, logs, name = "main" /\ op = "ret")

LEMMA LoggerBlock ==
    ASSUME NEW p, NEW name, NEW op, NEW logs \in BOOLEAN,
           p = 1 => ~logs,
           NEW S, NEW i \in S, NEW c \in S, NEW l \in S,
           i.op = "call", c.op = "call", l.op = "call",
           i.fn = "clam_prov_logging_init", l.fn = "clam_prov_logging_shutdown",
           c.fn = "clam_prov_logging_buffer",
           NEW before, before = LoggerBlockOf(i, c, l, p, name, op, logs)
    PROVE  before \in Seq(S) /\ IsLoggerBlock(before, p, name, op)
  <1> PICK opens \in BOOLEAN, closes \in BOOLEAN :
        opens = (name = "main" /\ p = 1) /\ closes = (name = "main" /\ op = "ret")
    OBVIOUS
  <1>0. (opens <=> name = "main" /\ p = 1) /\ (closes <=> name = "main" /\ op = "ret")
    OBVIOUS
  <1>1. before = BlockOf(i, c, l, opens, logs, closes) /\ ~(opens /\ logs)
    BY DEF LoggerBlockOf
  <1>2. /\ \A k \in 1 .. 2 : k = 1 \/ k = 2
        /\ \A k \in 1 .. 1 : k = 1
        /\ 1 .. 0 = {}
        /\ 0 \in Nat /\ 1 \in Nat /\ 2 \in Nat /\ 1 # 2 /\ 1 # 0 /\ 2 # 0
    OBVIOUS
  <1> SUFFICES /\ before \in Seq(S)
               /\ Len(before) \in Nat
               /\ \A k \in 1 .. Len(before) :
                    /\ before[k].op = "call"
                    /\ before[k].fn = "clam_prov_logging_init" <=> k = 1 /\ opens
                    /\ before[k].fn = "clam_prov_logging_shutdown" <=> k = Len(before) /\ closes
               /\ opens \/ closes => Len(before) # 0
    BY <1>0, Zenon DEF IsLoggerBlock
  <1>3. CASE opens /\ closes /\ before = <<i, l>>
    <2>1. before \in Seq(S) /\ Len(before) = 2 /\ before[1] = i /\ before[2] = l
      BY <1>3, TwoOf
    <2> QED
      BY <1>2, <1>3, <2>1
  <1>4. CASE opens /\ ~closes /\ before = <<i>>
    <2>1. before \in Seq(S) /\ Len(before) = 1 /\ before[1] = i
      BY <1>4, OneOf
    <2> QED
      BY <1>2, <1>4, <2>1
  <1>5. CASE ~opens /\ closes /\ before = <<c, l>>
    <2>1. before \in Seq(S) /\ Len(before) = 2 /\ before[1] = c /\ before[2] = l
      BY <1>5, TwoOf
    <2> QED
      BY <1>2, <1>5, <2>1
  <1>6. CASE ~opens /\ ~closes /\ before = <<c>>
    <2>1. before \in Seq(S) /\ Len(before) = 1 /\ before[1] = c
      BY <1>6, OneOf
    <2> QED
      BY <1>2, <1>6, <2>1
  <1>7. CASE ~opens /\ closes /\ before = <<l>>
    <2>1. before \in Seq(S) /\ Len(before) = 1 /\ before[1] = l
      BY <1>7, OneOf
    <2> QED
      BY <1>2, <1>7, <2>1
  <1>8. CASE ~opens /\ ~closes /\ before = <<>>
    <2>1. before \in Seq(S) /\ Len(before) = 0
      BY <1>8, NoneOf
    <2> QED
      BY <1>2, <1>8, <2>1
  <1>9. \/ opens /\ closes /\ before = <<i, l>>
        \/ opens /\ ~closes /\ before = <<i>>
        \/ ~opens /\ closes /\ before = <<c, l>>
        \/ ~opens /\ ~closes /\ before = <<c>>
        \/ ~opens /\ closes /\ before = <<l>>
        \/ ~opens /\ ~closes /\ before = <<>>
    <2>1. IsBlock(before, i, c, l, opens, closes)
      BY <1>1, BlockIs, ZenonT(30)
    <2> QED
      BY <2>1 DEF IsBlock
  <1> QED
    BY <1>3, <1>4, <1>5, <1>6, <1>7, <1>8, <1>9, Zenon

\* The first p - 1 instructions of b open and close the log, and the rest does not.
IsBracketed(b, n, p, name) ==
    \A k \in 1 .. n :
      IF k < p
      THEN /\ b[k].fn = "clam_prov_logging_init" <=> k = 1 /\ name = "main"
           /\ b[k].fn = "clam_prov_logging_shutdown" <=>
                name = "main" /\ k + 1 < p /\ b[k + 1].op = "ret"
      ELSE ~OpensOrCloses(b[k])

\* The next instruction of main opens the log, or closes it, just where it must.
LEMMA BracketedStep ==
    ASSUME NEW b, NEW r, NEW before, NEW p, NEW n, NEW m, NEW name,
           n \in Nat, p \in 1 .. n, m = Len(before),
           IsLoggerBlock(before, p, name, b[p].op),
           IsBracketed(b, n, p, name), IsSpliced(r, b, p, before, b[p]), n = Len(b)
    PROVE  IsBracketed(r, n + m, p + m + 1, name)
  <1>0. /\ \A k \in 1 .. p - 1 : r[k] = b[k]
        /\ \A k \in 1 .. m : r[p - 1 + k] = before[k]
        /\ r[p + m] = b[p]
        /\ \A k \in p + 1 .. n : r[k + m] = b[k]
    BY DEF IsSpliced
  <1> SUFFICES ASSUME NEW k \in 1 .. n + m
               PROVE  IF k < p + m + 1
                      THEN /\ r[k].fn = "clam_prov_logging_init" <=> k = 1 /\ name = "main"
                           /\ r[k].fn = "clam_prov_logging_shutdown" <=>
                                name = "main" /\ k + 1 < p + m + 1 /\ r[k + 1].op = "ret"
                      ELSE ~OpensOrCloses(r[k])
    BY DEF IsBracketed
  <1>1. /\ m \in Nat /\ p \in Nat /\ k \in Nat /\ p >= 1
        /\ \A j \in 1 .. m :
             /\ before[j].op = "call"
             /\ before[j].fn = "clam_prov_logging_init" <=> j = 1 /\ name = "main" /\ p = 1
             /\ before[j].fn = "clam_prov_logging_shutdown" <=> j = m /\ name = "main" /\ b[p].op = "ret"
        /\ name = "main" /\ (b[p].op = "ret" \/ p = 1) => m # 0
    <2>1. m \in Nat /\ p \in Nat /\ k \in Nat /\ p >= 1
      BY DEF IsLoggerBlock
    <2>2. name = "main" /\ (b[p].op = "ret" \/ p = 1) => m # 0
      BY DEF IsLoggerBlock
    <2>3. \A j \in 1 .. m :
             /\ before[j].op = "call"
             /\ before[j].fn = "clam_prov_logging_init" <=> j = 1 /\ name = "main" /\ p = 1
             /\ before[j].fn = "clam_prov_logging_shutdown" <=> j = m /\ name = "main" /\ b[p].op = "ret"
      BY DEF IsLoggerBlock
    <2> QED
      BY <2>1, <2>2, <2>3
  <1>7. m \in Nat /\ p \in Nat /\ k \in Nat /\ p >= 1
    BY <1>1
  <1>2. CASE k < p
    <2>1. k \in 1 .. p - 1 /\ k \in 1 .. n /\ r[k] = b[k] /\ k < p + m + 1 /\ k + 1 < p + m + 1
      BY <1>0, <1>1, <1>2
    <2>2. /\ b[k].fn = "clam_prov_logging_init" <=> k = 1 /\ name = "main"
          /\ b[k].fn = "clam_prov_logging_shutdown" <=>
               name = "main" /\ k + 1 < p /\ b[k + 1].op = "ret"
      BY <1>2, <2>1 DEF IsBracketed
    <2>3. CASE k + 1 < p
      <3>1. r[k + 1] = b[k + 1]
        BY <1>0, <1>1, <2>3
      <3> QED
        BY <2>1, <2>2, <2>3, <3>1
    <2>4. CASE k + 1 = p /\ m = 0
      <3>1. r[k + 1] = b[p]
        BY <1>0, <1>1, <2>4
      <3> QED
        BY <1>1, <2>1, <2>2, <2>4, <3>1
    <2>5. CASE k + 1 = p /\ m # 0
      <3>1. 1 \in 1 .. m /\ r[k + 1] = before[1]
        BY <1>0, <1>1, <2>5
      <3> QED
        BY <1>1, <2>1, <2>2, <2>5, <3>1
    <2> QED
      BY <1>1, <1>2, <2>3, <2>4, <2>5
  <1>3. CASE k \in p .. p + m - 1
    <2> PICK j : j = k - p + 1
      OBVIOUS
    <2>1. j \in 1 .. m /\ k = p - 1 + j /\ r[k] = before[j] /\ k < p + m + 1 /\ k + 1 < p + m + 1
      <3>1. j \in 1 .. m
        BY <1>1, <1>3
      <3>2. k = p - 1 + j
        BY <1>1
      <3>3. r[k] = before[j]
        BY <1>0, <3>1, <3>2
      <3> QED
        BY <1>7, <3>1, <3>2, <3>3
    <2>2. r[k].fn = "clam_prov_logging_init" <=> k = 1 /\ name = "main"
      BY <1>1, <2>1
    <2>3. CASE j = m
      <3>1. r[k + 1] = b[p]
        <4>1. k + 1 = p + m
          BY <1>7, <2>1, <2>3
        <4> QED
          BY <1>0, <4>1
      <3>2. r[k].fn = "clam_prov_logging_shutdown" <=> name = "main" /\ b[p].op = "ret"
        BY <1>1, <2>1, <2>3, Zenon
      <3> QED
        BY <2>1, <2>2, <3>1, <3>2
    <2>4. CASE j # m
      <3>1. j + 1 \in 1 .. m /\ k + 1 = p - 1 + (j + 1)
        BY <1>1, <2>1, <2>4, SMTT(30)
      <3>2. r[k + 1] = before[j + 1]
        BY <1>0, <3>1
      <3> QED
        BY <1>1, <2>1, <2>2, <2>4, <3>1, <3>2
    <2> QED
      BY <2>3, <2>4
  <1>4. CASE k = p + m
    <2>1. r[k] = b[p] /\ ~OpensOrCloses(b[p])
      BY <1>0, <1>1, <1>4 DEF IsBracketed
    <2>2. ~(k = 1 /\ name = "main")
      BY <1>1, <1>4
    <2> QED
      BY <1>1, <1>4, <2>1, <2>2 DEF OpensOrCloses
  <1>5. CASE k > p + m
    <2> PICK j : j = k - m
      OBVIOUS
    <2>1. j \in p + 1 .. n /\ k = j + m /\ ~(k < p + m + 1)
      BY <1>1, <1>5
    <2>2. r[k] = b[j]
      BY <1>0, <2>1
    <2>3. j \in 1 .. n /\ ~(j < p)
      BY <1>7, <2>1
    <2> QED
      BY <2>1, <2>2, <2>3 DEF IsBracketed
  <1>6. k < p \/ k \in p .. p + m - 1 \/ k = p + m \/ k > p + m
    <2>1. m \in Nat /\ p \in Nat /\ k \in Nat
      BY <1>1
    <2>2. \A x, y, z \in Nat : x < y \/ x \in y .. y + z - 1 \/ x = y + z \/ x > y + z
      OBVIOUS
    <2> QED
      BY <2>1, <2>2, Zenon
  <1> QED
    BY <1>2, <1>3, <1>4, <1>5, <1>6, Zenon

\* The block that AddLogging makes is one of the logger's calls.
LEMMA AddLoggingStep ==
    ASSUME PassesInv, AddLogging
    PROVE  \E S, before :
             /\ before \in Seq(S)
             /\ \A i \in S : IsInstruction(i) /\ IsMade(i)
             /\ IsLoggerBlock(before, at[2], FunctionName, Current.op)
             /\ Visit(before, Current)
  <1> DEFINE call == Body[at[2] - 1]
             S == {LoggerInit, LoggerShutdown, BufferLoggerCall(call)}
             logs == at[2] > 1 /\ IsLogged(call)
             before == LoggerBlockOf(LoggerInit, BufferLoggerCall(call), LoggerShutdown,
                                     at[2], FunctionName, Current.op, logs)
  <1>1. Visit(before, Current)
    BY DEF AddLogging, LoggerBlockOf, BlockOf, InsertBufferLoggerCall
  <1>2. /\ IsInstruction(LoggerInit) /\ LoggerInit.op = "call"
        /\ LoggerInit.fn = "clam_prov_logging_init"
    BY LoggerCalls
  <1>3. /\ IsInstruction(LoggerShutdown) /\ LoggerShutdown.op = "call"
        /\ LoggerShutdown.fn = "clam_prov_logging_shutdown"
    BY LoggerCalls
  <1>4. /\ IsInstruction(BufferLoggerCall(call)) /\ BufferLoggerCall(call).op = "call"
        /\ BufferLoggerCall(call).fn = "clam_prov_logging_buffer"
    <2> PICK j : j = BufferLoggerCall(call)
      OBVIOUS
    <2>1. j.fn = "clam_prov_logging_buffer"
      BY MadeInstruction DEF BufferLoggerCall
    <2>2. IsInstruction(j) /\ j.op = "call"
      BY LoggerCalls
    <2> QED
      BY <2>1, <2>2
  <1>5. /\ logs \in BOOLEAN
        /\ at[2] = 1 => ~logs
    BY DEF IsLogged
  <1>6. LoggerInit \in S /\ LoggerShutdown \in S /\ BufferLoggerCall(call) \in S
    OBVIOUS
  <1>7. before \in Seq(S) /\ IsLoggerBlock(before, at[2], FunctionName, Current.op)
    <2> PICK i, c, l : i = LoggerInit /\ c = BufferLoggerCall(call) /\ l = LoggerShutdown
      OBVIOUS
    <2> PICK p : p = at[2]
      OBVIOUS
    <2> PICK name, op : name = FunctionName /\ op = Current.op
      OBVIOUS
    <2>1. before = LoggerBlockOf(i, c, l, p, name, op, logs)
      OBVIOUS
    <2> HIDE DEF S, logs, before
    <2>2. /\ i \in S /\ c \in S /\ l \in S
          /\ i.op = "call" /\ c.op = "call" /\ l.op = "call"
          /\ i.fn = "clam_prov_logging_init" /\ l.fn = "clam_prov_logging_shutdown"
          /\ c.fn = "clam_prov_logging_buffer"
          /\ p = 1 => ~logs
      BY <1>2, <1>3, <1>4, <1>5, <1>6
    <2>3. before \in Seq(S) /\ IsLoggerBlock(before, p, name, op)
      BY <1>5, <2>1, <2>2, LoggerBlock
    <2> QED
      BY <2>3
  <1>8. \A i \in S : IsInstruction(i) /\ IsMade(i)
    BY <1>2, <1>3, <1>4, LoggerCalls
  <1> HIDE DEF S, before
  <1> QED
    BY <1>1, <1>7, <1>8

\* The calls of the logger.
LEMMA AddLoggingKeepsInv == PassesInv /\ AddLogging => PassesInv'
  <1> SUFFICES ASSUME PassesInv, AddLogging PROVE PassesInv'
    OBVIOUS
  <1>1. /\ pass = "add_logging" /\ pass' = pass /\ at[2] <= Len(Body)
        /\ UNCHANGED <<arguments, input, wrappers, calls_to_wrap, output_param_map, freed,
                       logging, call_site_counter>>
    BY DEF AddLogging, Visiting, metadata_vars, wrap_vars, history
  <1>2. PICK S, before :
          /\ before \in Seq(S)
          /\ \A i \in S : IsInstruction(i) /\ IsMade(i)
          /\ IsLoggerBlock(before, at[2], FunctionName, Current.op)
          /\ Visit(before, Current)
    BY AddLoggingStep
  <1>3. Positioned
    BY DEF PassesInv, ModuleInv
  <1>4. /\ Positioned'
        /\ DOMAIN functions' = DOMAIN functions
        /\ at'[1] = at[1] /\ at'[2] = at[2] + Len(before) + 1
        /\ \A f \in DOMAIN functions : functions'[f].name = functions[f].name
        /\ \A f \in DOMAIN functions \ {at[1]} : functions'[f] = functions[f]
        /\ Len(Body') = Len(Body) + Len(before)
        /\ \A k \in 1 .. at[2] - 1 : Body'[k] = Body[k]
        /\ \A k \in 1 .. Len(before) : Body'[at[2] - 1 + k] = before[k]
        /\ Body'[at[2] + Len(before)] = Current
        /\ \A k \in at[2] + 1 .. Len(Body) : Body'[k + Len(before)] = Body[k]
        /\ InstructionsOf(functions') \subseteq
             InstructionsOf(functions) \cup ToSet(before) \cup {Current}
    BY <1>1, <1>2, <1>3, VisitStep
  <1>5. /\ at[1] \in DOMAIN functions /\ DOMAIN Body = 1 .. Len(Body) /\ Len(Body) \in Nat
        /\ DOMAIN Body' = 1 .. Len(Body') /\ at[2] \in 1 .. Len(Body)
    <2>1. at[1] \in DOMAIN functions /\ IsModule(functions)
      BY <1>3 DEF Positioned
    <2>2. DOMAIN Body = 1 .. Len(Body) /\ Len(Body) \in Nat
      BY <2>1, ModuleIs DEF Body
    <2>3. at'[1] \in DOMAIN functions' /\ IsModule(functions')
      BY <1>4 DEF Positioned
    <2>4. DOMAIN Body' = 1 .. Len(Body')
      BY <2>3, ModuleIs DEF Body
    <2> QED
      BY <1>1, <1>3, <2>1, <2>2, <2>4 DEF Positioned
  <1>6. \A i \in InstructionsOf(functions') : IsInstruction(i)
    <2>1. ToSet(before) \subseteq S
      BY <1>2 DEF ToSet
    <2>2. Current \in InstructionsOf(functions)
      BY <1>1, <1>3, CurrentIs
    <2>3. \A i \in InstructionsOf(functions) : IsInstruction(i)
      BY DEF PassesInv, ModuleInv
    <2> QED
      BY <1>2, <1>4, <2>1, <2>2, <2>3
  <1>7. ModuleInv'
    <2>1. DOMAIN input' \subseteq DOMAIN functions'
      BY <1>1, <1>4 DEF PassesInv, ModuleInv
    <2>2. pass' \notin BeforeSources /\ pass' \notin Beginnings /\ pass' # "start"
      BY <1>1 DEF BeforeSources, Beginnings
    <2> QED
      BY <1>4, <1>6, <2>1, <2>2 DEF ModuleInv
  <1>8. WorkListInv'
    <2>1. calls_to_wrap' = <<>>
      BY <1>1, NothingWaits
    <2> QED
      BY <2>1, EmptyWorkList
  <1>9. LoggingInv'
    <2>1. \A f \in DOMAIN functions : Bracketed(f, LoggedTo(f))
      BY <1>1 DEF PassesInv, LoggingInv
    <2>2. ASSUME NEW f \in DOMAIN functions, f # at[1] PROVE Bracketed(f, LoggedTo(f))'
      <3>1. functions'[f] = functions[f]
        BY <1>4, <2>2
      <3>2. LoggedTo(f)' = LoggedTo(f)
        BY <1>1, <1>4, <2>2, <3>1 DEF LoggedTo
      <3> QED
        BY <2>1, <3>1, <3>2 DEF Bracketed
    <2>3. ASSUME NEW f \in DOMAIN functions, f = at[1] PROVE Bracketed(f, LoggedTo(f))'
      <3> PICK p, m, n, b, r, name : /\ p = at[2] /\ m = Len(before) /\ n = Len(Body)
                                     /\ b = Body /\ r = Body' /\ name = FunctionName
        OBVIOUS
      <3>1. LoggedTo(f) = p /\ LoggedTo(f)' = p + m + 1
        <4>1. ~(f < at[1])
          BY <1>3, <2>3, ModuleIs DEF Positioned
        <4> QED
          BY <1>1, <1>4, <2>3, <4>1 DEF LoggedTo
      <3>2. /\ functions[f].body = b /\ functions'[f].body = r
            /\ functions'[f].name = functions[f].name
            /\ DOMAIN b = 1 .. n /\ DOMAIN r = 1 .. n + m
            /\ n \in Nat /\ p \in 1 .. n /\ n = Len(b) /\ m = Len(before) /\ Current = b[p]
            /\ name = functions[f].name
        BY <1>4, <1>5, <2>3 DEF Body, Current, FunctionName
      <3>3. IsBracketed(b, n, p, name)
        BY <2>1, <3>1, <3>2 DEF Bracketed, IsBracketed
      <3>4. IsLoggerBlock(before, p, name, b[p].op) /\ IsSpliced(r, b, p, before, b[p])
        BY <1>2, <1>4, <3>2 DEF IsSpliced
      <3>6. IsBracketed(r, n + m, p + m + 1, name)
        BY <3>2, <3>3, <3>4, BracketedStep
      <3> QED
        BY <3>1, <3>2, <3>6 DEF Bracketed, IsBracketed
    <2> QED
      BY <1>1, <1>4, <2>2, <2>3 DEF LoggingInv, BeforeLogging
  <1>10. AddressInv' /\ NamesInv' /\ OutputsInv'
    BY <1>1, <1>4, OutputsUnchanged DEF PassesInv, AddressInv, NamesInv, Unused, BeforeTags
  <1>11. /\ arguments' \in Arguments /\ pass' \in Passes /\ wrappers' \in 0 .. Len(WrapperName)
         /\ call_site_counter' \in Nat
    BY <1>1 DEF PassesInv
  <1> QED
    BY <1>7, <1>8, <1>9, <1>10, <1>11 DEF PassesInv

-----------------------------------------------------------------------------
(* The theorems                                                            *)

\* A step that changes nothing.
LEMMA StutterKeepsInv == PassesInv /\ UNCHANGED vars => PassesInv'
  <1> SUFFICES ASSUME PassesInv, UNCHANGED vars PROVE PassesInv'
    OBVIOUS
  <1>1. UNCHANGED <<functions, at, pass, call_site_counter, calls_to_wrap, output_param_map,
                    wrappers, freed, logging, arguments, input>>
    BY DEF vars, module_vars, metadata_vars, wrap_vars, history
  <1>2. UNCHANGED <<Body, FunctionName>>
    BY <1>1 DEF Body, FunctionName
  <1>3. ModuleInv'
    BY <1>1, <1>2 DEF PassesInv, ModuleInv, Positioned
  <1>4. WorkListInv'
    BY <1>1, <1>2 DEF PassesInv, WorkListInv
  <1>5. LoggingInv'
    BY <1>1 DEF PassesInv, LoggingInv, Bracketed, LoggedTo
  <1>6. AddressInv' /\ NamesInv' /\ OutputsInv'
    BY <1>1, AddressesUnchanged, OutputsUnchanged
  <1> QED
    BY <1>1, <1>3, <1>4, <1>5, <1>6 DEF PassesInv

\* What is known of the module, of the position in it, of the calls that wait to
\* be wrapped, of addresses and names and of what the logger has been given so
\* far, at every step of every pass, of any program and configuration.
THEOREM PassesInvariant == Spec => []PassesInv
  <1>1. Init => PassesInv
    BY InitGivesInv
  <1>2. PassesInv /\ [Next]_vars => PassesInv'
    BY StartKeepsInv, PrintKeepsInv, LoadInputFileKeepsInv, AddMetadataSkipKeepsInv,
       ConditionalUpdateKeepsInv, AddSourcesKeepsInv, WrapSinksSkipKeepsInv,
       WrapSinksCollectKeepsInv, WrapCallKeepsInv, WrapCrashesKeepsInv, TagsKeepInv,
       RemoveSourcesKeepsInv, NoDependencyMapKeepsInv, OutputDependencyMapKeepsInv,
       LoadConfigurationKeepsInv,
       AddLoggingKeepsInv, EndOfFunctionKeepsInv, StutterKeepsInv, Zenon DEF Next
  <1> QED
    BY <1>1, <1>2, PTL DEF Spec

\* The variables have their types, and no pass looks outside the module: the
\* instructions that one pass inserts and the functions that another adds do not
\* lead the next astray.
THEOREM TypeCorrect == Spec => []TypeOK
  <1>1. PassesInv => TypeOK
    <2> SUFFICES ASSUME PassesInv PROVE TypeOK
      OBVIOUS
    <2>1. /\ pass \in Passes /\ call_site_counter \in Nat /\ wrappers \in 0 .. Len(WrapperName)
          /\ Positioned /\ calls_to_wrap \in Seq(DOMAIN output_param_map)
          /\ \A i \in InstructionsOf(functions) : IsInstruction(i)
      BY DEF PassesInv, ModuleInv, WorkListInv
    <2>2. ToSet(calls_to_wrap) \subseteq DOMAIN output_param_map
      BY <2>1 DEF ToSet
    <2> QED
      BY <2>1, <2>2 DEF TypeOK, Positioned, IsInstruction
  <1> QED
    BY <1>1, PassesInvariant, PTL

\* Whatever the program and the configuration, main opens the log before
\* anything else and closes it right before each return, and nobody else does.
THEOREM LogIsBracketed == Spec => []MainBracketsLogging
  <1>1. PassesInv => MainBracketsLogging
    <2> SUFFICES ASSUME PassesInv, pass = "done", LoggingIsOn(logging), NEW f \in Program,
                        NEW k \in DOMAIN functions[f].body
                 PROVE  /\ functions[f].body[k].fn = "clam_prov_logging_init" <=>
                             k = 1 /\ functions[f].name = "main"
                        /\ functions[f].body[k].fn = "clam_prov_logging_shutdown" <=>
                             /\ functions[f].name = "main"
                             /\ k < Len(functions[f].body)
                             /\ functions[f].body[k + 1].op = "ret"
      BY DEF MainBracketsLogging
    <2>1. f \in DOMAIN functions /\ IsModule(functions)
      BY DEF PassesInv, ModuleInv, Positioned, Program
    <2> PICK b : b = functions[f].body
      OBVIOUS
    <2>2. Len(b) \in Nat /\ k \in 1 .. Len(b)
      BY <2>1, ModuleIs
    <2>3. k \in Nat /\ k < Len(b) + 1 /\ (k + 1 < Len(b) + 1 <=> k < Len(b))
      BY <2>2
    <2>4. Bracketed(f, Len(b) + 1)
      BY <2>1 DEF PassesInv, LoggingInv, LoggedTo
    <2> QED
      BY <2>3, <2>4 DEF Bracketed
  <1> QED
    BY <1>1, PassesInvariant, PTL


-----------------------------------------------------------------------------
(* What is printed                                                         *)

CallOf(i, fn) == IsDirectCall(i) /\ i.fn = fn

IsInFront(fs, f, p, i) ==
    \E g \in DOMAIN fs : \E k \in DOMAIN fs[g].body :
      i = fs[g].body[k] /\ (g < f \/ (g = f /\ k < p))

\* The calls of fn in front of place p of function f.
CallsInFront(fs, f, p, fn) ==
    {i \in InstructionsOf(fs) : CallOf(i, fn) /\ IsInFront(fs, f, p, i)}

\* These are the numbers of calls in front of place p of function f.
AreCounts(counts, names, fs, f, p) ==
    /\ DOMAIN counts \subseteq names
    /\ \A fn \in names :
         /\ IsFiniteSet(CallsInFront(fs, f, p, fn))
         /\ CountIn(counts, fn) = Cardinality(CallsInFront(fs, f, p, fn))

\* The function that is counted now, and one that is not there in the end.
CountedTo == IF pass = "print" THEN at[1] ELSE Len(functions) + 1

CountInv ==
    /\ pass = "start" => printed = [sources |-> <<>>, sinks |-> <<>>]
    /\ pass \notin {"start", "print", "done"} => ~arguments.print_sources_sinks
    /\ pass = "print" \/ (pass = "done" /\ arguments.print_sources_sinks) =>
         /\ AreCounts(printed.sources, Sources, functions, CountedTo, at[2])
         /\ AreCounts(printed.sinks, Sinks, functions, CountedTo, at[2])

LEMMA PlacesAre ==
    ASSUME NEW fs, IsModule(fs), NEW g \in DOMAIN fs
    PROVE  /\ g \in Nat /\ g >= 1 /\ Len(fs[g].body) \in Nat
           /\ \A k \in DOMAIN fs[g].body : k \in Nat /\ k >= 1 /\ k <= Len(fs[g].body)
  <1>1. DOMAIN fs = 1 .. Len(fs) /\ Len(fs) \in Nat
    BY ModuleIs
  <1>2. DOMAIN fs[g].body = 1 .. Len(fs[g].body) /\ Len(fs[g].body) \in Nat
    BY ModuleIs
  <1>3. g \in Nat /\ g >= 1
    BY <1>1
  <1> QED
    BY <1>2, <1>3

\* With the next place comes the call that is there, if it is one.
LEMMA NextInFront ==
    ASSUME NEW fs, IsModule(fs), Distinct(fs), NEW f \in DOMAIN fs, NEW p \in DOMAIN fs[f].body,
           NEW i, i = fs[f].body[p], i.addr # 0, NEW fn
    PROVE  /\ ~CallOf(i, fn) => CallsInFront(fs, f, p + 1, fn) = CallsInFront(fs, f, p, fn)
           /\ CallOf(i, fn) =>
                /\ CallsInFront(fs, f, p + 1, fn) = CallsInFront(fs, f, p, fn) \cup {i}
                /\ i \notin CallsInFront(fs, f, p, fn)
  <1>1. /\ f \in Nat /\ p \in Nat /\ i \in InstructionsOf(fs)
        /\ \A g \in DOMAIN fs : g \in Nat /\ \A k \in DOMAIN fs[g].body : k \in Nat
    <2> PICK n : n = Len(fs[f].body)
      OBVIOUS
    <2>1. DOMAIN fs[f].body = 1 .. n
      BY ModuleIs
    <2>2. i \in InstructionsOf(fs)
      BY <2>1, ModuleIs
    <2> QED
      BY <2>2, PlacesAre
  <1>2. \A k \in Nat : k < p + 1 <=> k < p \/ k = p
    BY <1>1
  <1>3. ASSUME NEW j PROVE IsInFront(fs, f, p + 1, j) <=> IsInFront(fs, f, p, j) \/ j = i
    BY <1>1, <1>2 DEF IsInFront
  <1>4. ~IsInFront(fs, f, p, i)
    <2> SUFFICES ASSUME NEW g \in DOMAIN fs, NEW k \in DOMAIN fs[g].body, i = fs[g].body[k],
                        g < f \/ (g = f /\ k < p)
                 PROVE  FALSE
      BY DEF IsInFront
    <2>1. fs[g].body[k].addr = fs[f].body[p].addr /\ fs[g].body[k].addr # 0
      OBVIOUS
    <2>2. g = f /\ k = p
      BY <2>1 DEF Distinct
    <2> QED
      BY <1>1, <2>2
  <1> QED
    BY <1>1, <1>3, <1>4 DEF CallsInFront

\* What is in front of the end of a function is in front of the next.
LEMMA InFrontOfNext ==
    ASSUME NEW fs, IsModule(fs), NEW f \in DOMAIN fs, NEW p, p = Len(fs[f].body) + 1, NEW fn
    PROVE  CallsInFront(fs, f + 1, 1, fn) = CallsInFront(fs, f, p, fn)
  <1>1. \A g \in DOMAIN fs : \A k \in DOMAIN fs[g].body :
          /\ f \in Nat /\ g \in Nat /\ k \in Nat
          /\ k >= 1 /\ k <= Len(fs[g].body) /\ Len(fs[g].body) \in Nat
    BY PlacesAre
  <1>2. \A g \in DOMAIN fs : \A k \in DOMAIN fs[g].body :
          g < f + 1 \/ (g = f + 1 /\ k < 1) <=> g < f \/ (g = f /\ k < p)
    <2> TAKE g \in DOMAIN fs
    <2> TAKE k \in DOMAIN fs[g].body
    <2> PICK m : m = Len(fs[g].body)
      OBVIOUS
    <2>1. f \in Nat /\ g \in Nat /\ k \in Nat /\ k >= 1 /\ k <= m /\ m \in Nat
      BY <1>1
    <2>2. g = f => p = m + 1
      OBVIOUS
    <2> QED
      BY <2>1, <2>2
  <1>3. \A i : IsInFront(fs, f + 1, 1, i) <=> IsInFront(fs, f, p, i)
    BY <1>2, Zenon DEF IsInFront
  <1> QED
    BY <1>3, Zenon DEF CallsInFront

LEMMA NothingInFront ==
    ASSUME NEW fs, IsModule(fs), NEW names
    PROVE  AreCounts(<<>>, names, fs, 1, 1)
  <1>1. \A g \in DOMAIN fs : g \in Nat /\ g >= 1 /\ \A k \in DOMAIN fs[g].body : k \in Nat /\ k >= 1
    BY PlacesAre
  <1>2. \A i : ~IsInFront(fs, 1, 1, i)
    BY <1>1 DEF IsInFront
  <1>3. \A fn : CallsInFront(fs, 1, 1, fn) = {}
    BY <1>2 DEF CallsInFront
  <1>4. DOMAIN <<>> = {}
    OBVIOUS
  <1> QED
    BY <1>3, <1>4, FS_EmptySet DEF AreCounts, CountIn

\* One call more is counted if it is one of these, and nothing else is.
LEMMA CountedIs ==
    ASSUME NEW counts, NEW names, NEW called, DOMAIN counts \subseteq names,
           NEW r, r = Counted(counts, names, called)
    PROVE  DOMAIN r \subseteq names
  BY DEF Counted

LEMMA CountOfName ==
    ASSUME NEW counts, NEW names, NEW called, NEW fn, NEW r,
           r = Counted(counts, names, called), fn \in names, CountIn(counts, fn) \in Nat
    PROVE  /\ fn = called => CountIn(r, fn) = CountIn(counts, fn) + 1
           /\ fn # called => CountIn(r, fn) = CountIn(counts, fn)
  <1> PICK n : n = CountIn(counts, fn)
    OBVIOUS
  <1>1. CASE called \notin names
    BY <1>1 DEF Counted
  <1>2. CASE called \in names
    <2>1. r = [g \in DOMAIN counts \cup {called} |->
                 CountIn(counts, g) + IF g = called THEN 1 ELSE 0]
      BY <1>2 DEF Counted
    <2>2. DOMAIN r = DOMAIN counts \cup {called}
      BY <2>1
    <2>3. CASE fn \in DOMAIN r
      <3>1. r[fn] = n + IF fn = called THEN 1 ELSE 0
        BY <2>1, <2>2, <2>3
      <3>2. CountIn(r, fn) = r[fn]
        BY <2>3 DEF CountIn
      <3> QED
        BY <3>1, <3>2
    <2>4. CASE fn \notin DOMAIN r
      BY <2>2, <2>4 DEF CountIn
    <2> QED
      BY <2>3, <2>4
  <1> QED
    BY <1>1, <1>2

LEMMA CallIsCounted ==
    ASSUME NEW fs, IsModule(fs), Distinct(fs), NEW f \in DOMAIN fs, NEW p \in DOMAIN fs[f].body,
           NEW i, i = fs[f].body[p], i.addr # 0, NEW counts, NEW names,
           AreCounts(counts, names, fs, f, p), NEW r,
           r = IF ~IsDirectCall(i) THEN counts ELSE Counted(counts, names, i.fn)
    PROVE  AreCounts(r, names, fs, f, p + 1)
  <1>1. DOMAIN r \subseteq names
    BY CountedIs DEF AreCounts
  <1>2. ASSUME NEW fn \in names
        PROVE  /\ IsFiniteSet(CallsInFront(fs, f, p + 1, fn))
               /\ CountIn(r, fn) = Cardinality(CallsInFront(fs, f, p + 1, fn))
    <2> PICK A, B, n, m : /\ A = CallsInFront(fs, f, p, fn) /\ B = CallsInFront(fs, f, p + 1, fn)
                          /\ n = CountIn(counts, fn) /\ m = CountIn(r, fn)
      OBVIOUS
    <2>1. /\ IsFiniteSet(A) /\ n = Cardinality(A) /\ DOMAIN counts \subseteq names
          /\ n \in Nat /\ CountIn(counts, fn) \in Nat
      BY FS_CardinalityType DEF AreCounts
    <2>2. CASE ~CallOf(i, fn)
      <3>1. B = A
        BY <2>2, NextInFront
      <3>2. m = n
        <4>1. CASE ~IsDirectCall(i)
          BY <4>1
        <4>2. CASE IsDirectCall(i)
          <5>1. i.fn # fn
            BY <2>2, <4>2 DEF CallOf
          <5>2. r = Counted(counts, names, i.fn)
            BY <4>2
          <5> PICK called : called = i.fn
            OBVIOUS
          <5>3. /\ r = Counted(counts, names, called) /\ fn \in names /\ fn # called
                /\ CountIn(counts, fn) \in Nat
            BY <2>1, <5>1, <5>2
          <5>4. CountIn(r, fn) = CountIn(counts, fn)
            BY <5>3, CountOfName
          <5> QED
            BY <5>4
        <4> QED
          BY <4>1, <4>2
      <3> QED
        BY <2>1, <3>1, <3>2
    <2>3. CASE CallOf(i, fn)
      <3>1. B = A \cup {i} /\ i \notin A
        BY <2>3, NextInFront
      <3>2. IsFiniteSet(B) /\ Cardinality(B) = Cardinality(A) + 1
        BY <2>1, <3>1, FS_AddElement
      <3>3. r = Counted(counts, names, i.fn) /\ i.fn = fn
        BY <2>3 DEF CallOf
      <3> PICK called : called = i.fn
        OBVIOUS
      <3>6. /\ r = Counted(counts, names, called) /\ fn \in names /\ fn = called
            /\ CountIn(counts, fn) \in Nat
        BY <2>1, <3>3
      <3>4. CountIn(r, fn) = CountIn(counts, fn) + 1
        BY <3>6, CountOfName
      <3>5. m = n + 1
        BY <3>3, <3>4
      <3> QED
        BY <2>1, <3>2, <3>5
    <2> QED
      BY <2>2, <2>3
  <1> QED
    BY <1>1, <1>2 DEF AreCounts

LEMMA StartKeepsCounts == PassesInv /\ CountInv /\ Start => CountInv'
  <1> SUFFICES ASSUME PassesInv, CountInv, Start PROVE CountInv'
    OBVIOUS
  <1>1. /\ pass = "start" /\ at = <<1, 1>> /\ UNCHANGED <<at, arguments, printed>>
        /\ pass' = IF arguments.print_sources_sinks THEN "print" ELSE "configure"
        /\ printed = [sources |-> <<>>, sinks |-> <<>>]
    BY DEF Start, PassesInv, ModuleInv, Beginnings, CountInv
  <1>2. IsModule(functions')
    BY StartKeepsInv DEF PassesInv, ModuleInv, Positioned
  <1>3. pass' = "print" => CountedTo' = 1 /\ at'[2] = 1
    BY <1>1 DEF CountedTo
  <1>4. printed'.sources = <<>> /\ printed'.sinks = <<>>
    BY <1>1
  <1> QED
    BY <1>1, <1>2, <1>3, <1>4, NothingInFront DEF CountInv

LEMMA PrintKeepsCounts == PassesInv /\ CountInv /\ PrintSourcesAndSinks => CountInv'
  <1> SUFFICES ASSUME PassesInv, CountInv, PrintSourcesAndSinks PROVE CountInv'
    OBVIOUS
  <1>1. /\ pass = "print" /\ pass' = "print" /\ at[2] <= Len(Body) /\ Visit(<<>>, Current)
        /\ arguments' = arguments
    BY DEF PrintSourcesAndSinks, Visiting
  <1>2. /\ Positioned /\ IsModule(functions) /\ at[1] \in DOMAIN functions
        /\ at[2] \in 1 .. Len(Body) + 1 /\ Distinct(functions)
        /\ \A i \in InstructionsOf(functions) : i.addr # 0
    BY <1>1 DEF PassesInv, ModuleInv, Positioned, AddressInv, BeforeTags, BeforeSources,
                IsOfProgram
  <1>3. functions' = functions /\ at' = <<at[1], at[2] + 1>>
    BY <1>1, <1>2, VisitSame
  <1>4. at[2] \in DOMAIN functions[at[1]].body
    <2>1. DOMAIN Body = 1 .. Len(Body) /\ Len(Body) \in Nat
      BY <1>2, ModuleIs DEF Body
    <2>2. at[2] \in DOMAIN Body
      BY <1>1, <1>2, <2>1
    <2> QED
      BY <2>2 DEF Body
  <1>5. Current = functions[at[1]].body[at[2]] /\ Current.addr # 0
    BY <1>1, <1>2, CurrentIs DEF Current, Body
  <1>6. /\ AreCounts(printed.sources, Sources, functions, at[1], at[2])
        /\ AreCounts(printed.sinks, Sinks, functions, at[1], at[2])
    BY <1>1 DEF CountInv, CountedTo
  <1>7. /\ printed'.sources = IF ~IsDirectCall(Current) THEN printed.sources
                               ELSE Counted(printed.sources, Sources, Current.fn)
        /\ printed'.sinks = IF ~IsDirectCall(Current) THEN printed.sinks
                             ELSE Counted(printed.sinks, Sinks, Current.fn)
    BY DEF PrintSourcesAndSinks
  <1>8. /\ AreCounts(printed'.sources, Sources, functions, at[1], at[2] + 1)
        /\ AreCounts(printed'.sinks, Sinks, functions, at[1], at[2] + 1)
    <2> PICK f, p, i, r, s : /\ f = at[1] /\ p = at[2] /\ i = Current
                             /\ r = printed'.sources /\ s = printed'.sinks
      OBVIOUS
    <2>1. /\ f \in DOMAIN functions /\ p \in DOMAIN functions[f].body
          /\ i = functions[f].body[p] /\ i.addr # 0
      BY <1>2, <1>4, <1>5
    <2>2. AreCounts(r, Sources, functions, f, p + 1)
      BY <1>2, <1>6, <1>7, <2>1, CallIsCounted
    <2>3. AreCounts(s, Sinks, functions, f, p + 1)
      BY <1>2, <1>6, <1>7, <2>1, CallIsCounted
    <2> QED
      BY <2>2, <2>3
  <1>9. CountedTo' = at[1] /\ at'[2] = at[2] + 1
    BY <1>1, <1>3 DEF CountedTo
  <1> QED
    BY <1>1, <1>3, <1>8, <1>9 DEF CountInv

LEMMA EndOfFunctionKeepsCounts == PassesInv /\ CountInv /\ EndOfFunction => CountInv'
  <1> SUFFICES ASSUME PassesInv, CountInv, EndOfFunction PROVE CountInv'
    OBVIOUS
  <1>1. /\ UNCHANGED <<functions, arguments, printed>> /\ at[2] > Len(Body)
        /\ pass \in {"print", "add_metadata", "add_sources", "wrap_sinks", "tags",
                     "dependency_map", "add_logging"}
        /\ \/ at[1] < Len(functions) /\ at' = <<at[1] + 1, 1>> /\ pass' = pass
           \/ ~(at[1] < Len(functions)) /\ at' = <<1, 1>> /\ pass' = NextPass[pass]
    BY DEF EndOfFunction, NextPass, history
  <1>2. CASE pass = "print"
    <2>1. /\ IsModule(functions) /\ at[1] \in 1 .. Len(functions) /\ Len(functions) \in Nat
          /\ at[2] = Len(functions[at[1]].body) + 1 /\ at[1] \in DOMAIN functions
      <3>1. /\ IsModule(functions) /\ at[1] \in DOMAIN functions /\ at[2] \in 1 .. Len(Body) + 1
        BY DEF PassesInv, ModuleInv, Positioned
      <3>2. Len(Body) \in Nat /\ DOMAIN functions = 1 .. Len(functions) /\ Len(functions) \in Nat
        BY <3>1, ModuleIs DEF Body
      <3>3. at[2] = Len(Body) + 1
        BY <1>1, <3>1, <3>2
      <3> QED
        BY <3>1, <3>2, <3>3 DEF Body
    <2>2. CountedTo' = at[1] + 1 /\ at'[2] = 1 /\ pass' \in {"print", "done"}
      <3>1. CASE at[1] < Len(functions)
        BY <1>1, <1>2, <3>1 DEF CountedTo
      <3>2. CASE ~(at[1] < Len(functions))
        <4>1. at[1] = Len(functions)
          BY <2>1, <3>2
        <4> QED
          BY <1>1, <1>2, <3>2, <4>1 DEF CountedTo, NextPass
      <3> QED
        BY <3>1, <3>2
    <2>3. /\ AreCounts(printed.sources, Sources, functions, at[1], at[2])
          /\ AreCounts(printed.sinks, Sinks, functions, at[1], at[2])
      BY <1>2 DEF CountInv, CountedTo
    <2>4. \A fn : CallsInFront(functions, at[1] + 1, 1, fn)
                   = CallsInFront(functions, at[1], at[2], fn)
      BY <2>1, InFrontOfNext
    <2>5. /\ AreCounts(printed.sources, Sources, functions, at[1] + 1, 1)
          /\ AreCounts(printed.sinks, Sinks, functions, at[1] + 1, 1)
      BY <2>3, <2>4 DEF AreCounts
    <2> QED
      BY <1>1, <2>2, <2>5 DEF CountInv
  <1>3. CASE pass # "print"
    <2>1. pass \notin {"start", "print", "done"} /\ pass' \notin {"start", "print"}
      BY <1>1, <1>3 DEF NextPass
    <2> QED
      BY <1>1, <2>1 DEF CountInv
  <1> QED
    BY <1>2, <1>3

\* The other steps come when nothing is to be printed.
LEMMA OthersKeepCounts ==
    ASSUME CountInv, pass \notin {"start", "print", "done"}, pass' \notin {"start", "print"},
           arguments' = arguments
    PROVE  CountInv'
  BY DEF CountInv

LEMMA StepKeepsCounts == PassesInv /\ CountInv /\ [Next]_vars => CountInv'
  <1> SUFFICES ASSUME PassesInv, CountInv, [Next]_vars PROVE CountInv'
    OBVIOUS
  <1>1. CASE UNCHANGED vars
    <2>1. /\ functions' = functions /\ at' = at /\ pass' = pass /\ printed' = printed
          /\ arguments' = arguments
      BY <1>1 DEF vars, module_vars, history
    <2>2. CountedTo' = CountedTo /\ at'[2] = at[2]
      BY <2>1 DEF CountedTo
    <2>3. CountInv' <=> CountInv
      BY <2>1, <2>2 DEF CountInv
    <2> QED
      BY <2>3
  <1>2. CASE LoadInputFile
    BY <1>2, OthersKeepCounts DEF LoadInputFile, history
  <1>3. CASE AddMetadata_Skip \/ ConditionalUpdate \/ AddSources
    BY <1>3, OthersKeepCounts DEF AddMetadata_Skip, ConditionalUpdate, AddSources, Visiting, history
  <1>4. CASE WrapSinks_Skip \/ WrapSinks_Collect \/ WrapCall \/ WrapCrashes
    BY <1>4, OthersKeepCounts
       DEF WrapSinks_Skip, WrapSinks_Collect, WrapCall, WrapCrashes, Visiting, Wrapping, history
  <1>5. CASE TagAnalysisResultsAsMetadata \/ RemoveSources \/ OutputDependencyMap
    BY <1>5, OthersKeepCounts
       DEF TagAnalysisResultsAsMetadata, RemoveSources, OutputDependencyMap, Visiting, history
  <1>6. CASE NoDependencyMap \/ LoadConfiguration \/ AddLogging
    BY <1>6, OthersKeepCounts DEF NoDependencyMap, LoadConfiguration, AddLogging, Visiting, history
  <1> QED
    BY <1>1, <1>2, <1>3, <1>4, <1>5, <1>6, StartKeepsCounts, PrintKeepsCounts,
       EndOfFunctionKeepsCounts DEF Next

\* While clam-prov prints sources and sinks, what it has counted of a name is the
\* number of direct calls of it that it has passed, of all functions, none twice.
THEOREM CountInvariant == Spec => []CountInv
  <1>1. Init => CountInv
    BY DEF Init, CountInv
  <1>2. PassesInv /\ CountInv /\ [Next]_vars => CountInv'
    BY StepKeepsCounts
  <1> QED
    BY <1>1, <1>2, PassesInvariant, PTL DEF Spec

\* The configuration gives a call a label of each kind when its name is printed
\* as one of that kind: what sources-sinks.config is written for.
ConfigNamesThem ==
    pass = "done" /\ arguments.print_sources_sinks =>
      \A i \in InstructionsOf(functions) : IsDirectCall(i) =>
        /\ i \in Labelled(i.fn, "input") <=> i.fn \in Sources
        /\ i \in Labelled(i.fn, "output") <=> i.fn \in Sinks

LEMMA LabelledAreCalls ==
    ASSUME NEW fn, NEW type, NEW j \in Labelled(fn, type)
    PROVE  j \in InstructionsOf(functions) /\ CallOf(j, fn)
  BY Zenon DEF Labelled, CallOf

\* Where all calls of a name are labelled or none, their number is that of the calls.
LEMMA AllAreLabelled ==
    ASSUME IsModule(functions), NEW counts, NEW names, NEW p, NEW type, NEW fn,
           AreCounts(counts, names, functions, Len(functions) + 1, p),
           \A j \in InstructionsOf(functions) : IsDirectCall(j) =>
             (j \in Labelled(j.fn, type) <=> j.fn \in names)
    PROVE  CountIn(counts, fn) = Cardinality(Labelled(fn, type))
  <1>1. CASE fn \notin names
    <2>1. Labelled(fn, type) = {}
      BY <1>1, LabelledAreCalls DEF CallOf
    <2>2. CountIn(counts, fn) = 0
      BY <1>1 DEF CountIn, AreCounts
    <2> QED
      BY <2>1, <2>2, FS_EmptySet
  <1>2. CASE fn \in names
    <2>1. \A j \in InstructionsOf(functions) : IsInFront(functions, Len(functions) + 1, p, j)
      <3>1. \A f \in DOMAIN functions : f < Len(functions) + 1
        BY ModuleIs
      <3> QED
        BY <3>1, ModuleIs DEF IsInFront
    <2>2. CallsInFront(functions, Len(functions) + 1, p, fn) = Labelled(fn, type)
      <3>1. ASSUME NEW j \in InstructionsOf(functions), CallOf(j, fn)
            PROVE  j \in Labelled(fn, type)
        BY <1>2, <3>1 DEF CallOf
      <3> QED
        BY <2>1, <3>1, LabelledAreCalls DEF CallsInFront
    <2> QED
      BY <1>2, <2>2 DEF AreCounts
  <1> QED
    BY <1>1, <1>2

\* With a configuration that labels the calls of the names that clam-prov knows, and
\* no others, what --print-sources-sinks prints is what a run with it would label.
THEOREM PrintedIsLabelled == Spec /\ []ConfigNamesThem => []PrintedAsLabelled
  <1>1. ASSUME PassesInv, CountInv, pass = "done", arguments.print_sources_sinks, ConfigNamesThem,
               NEW i \in InstructionsOf(functions)
        PROVE  /\ CountIn(printed.sources, i.fn) = Cardinality(Labelled(i.fn, "input"))
               /\ CountIn(printed.sinks, i.fn) = Cardinality(Labelled(i.fn, "output"))
    <2>1. /\ IsModule(functions)
          /\ AreCounts(printed.sources, Sources, functions, Len(functions) + 1, at[2])
          /\ AreCounts(printed.sinks, Sinks, functions, Len(functions) + 1, at[2])
      BY <1>1 DEF PassesInv, ModuleInv, Positioned, CountInv, CountedTo
    <2>2. /\ \A j \in InstructionsOf(functions) : IsDirectCall(j) =>
               (j \in Labelled(j.fn, "input") <=> j.fn \in Sources)
          /\ \A j \in InstructionsOf(functions) : IsDirectCall(j) =>
               (j \in Labelled(j.fn, "output") <=> j.fn \in Sinks)
      BY <1>1 DEF ConfigNamesThem
    <2> QED
      BY <2>1, <2>2, AllAreLabelled
  <1>2. PassesInv /\ CountInv /\ ConfigNamesThem => PrintedAsLabelled
    BY <1>1, Zenon DEF PrintedAsLabelled, CountIn
  <1> QED
    BY <1>2, PassesInvariant, CountInvariant, PTL

=============================================================================
