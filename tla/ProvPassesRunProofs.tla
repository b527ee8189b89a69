------------------------ MODULE ProvPassesRunProofs ------------------------
(***************************************************************************)
(* What the program does after the passes: the module as it runs, with     *)
(* every wrapper in the place of its call.                                 *)
(***************************************************************************)
EXTENDS ProvPassesMapProofs

-----------------------------------------------------------------------------
(* Sequences that are put together                                         *)

\* f[k] is what the first k sequences of ss give.
Builds(f, ss, n) == f[0] = <<>> /\ \A k \in 0 .. n - 1 : f[k + 1] = f[k] \o ss[k + 1]

LEMMA EmptyFirst ==
    ASSUME NEW S, NEW s \in Seq(S)
    PROVE  <<>> \o s = s /\ s \o <<>> = s
  OBVIOUS

\* FlattenSeq puts its sequences together one after the other.
LEMMA FlattenBuilds ==
    ASSUME NEW S, NEW ss \in Seq(Seq(S))
    PROVE  \E f : /\ Builds(f, ss, Len(ss)) /\ FlattenSeq(ss) = f[Len(ss)]
                  /\ \A k \in 0 .. Len(ss) : f[k] \in Seq(S)
  <1> PICK n : n = Len(ss)
    OBVIOUS
  <1>0. n \in Nat /\ \A k \in 1 .. n : ss[k] \in Seq(S)
    OBVIOUS
  <1>1. CASE n = 0
    <2>1. ss = <<>>
      <3>1. Len(ss) = 0
        BY <1>1
      <3> QED
        BY <3>1
    <2>2. FlattenSeq(ss) = <<>>
      BY <2>1 DEF FlattenSeq
    <2> PICK f : f = [k \in 0 .. 0 |-> <<>>]
      OBVIOUS
    <2>3. f[0] = <<>> /\ <<>> \in Seq(S)
      OBVIOUS
    <2>4. 0 .. 0 - 1 = {} /\ 0 .. 0 = {0}
      OBVIOUS
    <2>5. Builds(f, ss, 0)
      BY <2>3, <2>4 DEF Builds
    <2> QED
      BY <1>1, <2>2, <2>3, <2>4, <2>5
  <1>2. CASE n # 0
    <2>0. Len(ss) \in Nat /\ Len(ss) # 0
      BY <1>0, <1>2
    <2>1. PICK g : FlattenSeq(ss) = g[n] /\ Flattens(g, ss, n)
      BY <2>0, FlattenIs
    <2>2. g[1] = ss[1] /\ \A i \in 1 .. n - 1 : g[i + 1] = g[i] \o ss[i + 1]
      <3>1. n \in Nat /\ n > 0
        BY <1>0, <1>2
      <3> QED
        BY <2>1, <3>1, FlattensAt
    <2> PICK f : f = [k \in 0 .. n |-> IF k = 0 THEN <<>> ELSE g[k]]
      OBVIOUS
    <2>3. f[0] = <<>> /\ \A k \in 1 .. n : f[k] = g[k]
      BY <1>0
    <2>4. ASSUME NEW k \in 0 .. n - 1 PROVE f[k + 1] = f[k] \o ss[k + 1]
      <3>1. CASE k = 0
        <4>1. 1 \in 1 .. n
          BY <1>0, <1>2
        <4>2. f[1] = ss[1] /\ ss[1] \in Seq(S)
          BY <1>0, <2>2, <2>3, <4>1
        <4>3. f[1] = <<>> \o ss[1]
          BY <4>2, EmptyFirst
        <4>4. k + 1 = 1
          BY <3>1
        <4>5. f[1] = f[0] \o ss[1]
          BY <2>3, <4>3, Zenon
        <4> QED
          BY <3>1, <4>4, <4>5, Zenon
      <3>2. CASE k # 0
        <4>1. k \in 1 .. n - 1 /\ k \in 1 .. n /\ k + 1 \in 1 .. n
          BY <1>0, <3>2
        <4> QED
          BY <2>2, <2>3, <4>1
      <3> QED
        BY <3>1, <3>2
    <2>5. Builds(f, ss, n)
      BY <2>3, <2>4 DEF Builds
    <2>6. FlattenSeq(ss) = f[n]
      BY <1>0, <1>2, <2>1, <2>3
    <2> DEFINE G == {m \in Nat : m <= n => f[m] \in Seq(S)}
    <2>7. 0 \in G
      BY <2>3
    <2>8. ASSUME NEW m \in Nat, m \in G PROVE m + 1 \in G
      <3> SUFFICES ASSUME m + 1 <= n PROVE f[m + 1] \in Seq(S)
        OBVIOUS
      <3>1. m \in 0 .. n - 1 /\ m + 1 \in 1 .. n /\ m <= n
        BY <1>0
      <3>2. f[m] \in Seq(S) /\ ss[m + 1] \in Seq(S)
        BY <1>0, <2>8, <3>1
      <3>3. f[m] \o ss[m + 1] \in Seq(S)
        BY <3>2, Concat
      <3> QED
        BY <2>4, <3>1, <3>3
    <2>9. G = Nat
      <3> HIDE DEF G
      <3>1. G \subseteq Nat
        BY DEF G
      <3> QED
        BY <2>7, <2>8, <3>1, Induction
    <2>10. ASSUME NEW k \in 0 .. n PROVE f[k] \in Seq(S)
      <3>1. k \in Nat /\ k <= n
        BY <1>0
      <3>2. k \in G
        <4> HIDE DEF G
        <4> QED
          BY <2>9, <3>1
      <3> QED
        BY <3>1, <3>2
    <2> QED
      BY <2>5, <2>6, <2>10
  <1> QED
    BY <1>1, <1>2

\* to puts m things in order at places up to n.
InOrder(to, m, n) ==
    /\ \A l \in 1 .. m : to[l] \in 1 .. n
    /\ \A k, l \in 1 .. m : k < l => to[k] < to[l]

\* c is how many of the m are at places up to j.
IsCount(c, to, m, j) == c \in 0 .. m /\ \A l \in 1 .. m : to[l] <= j <=> l <= c

LEMMA NextCount ==
    ASSUME NEW m \in Nat, NEW n \in Nat, NEW to, InOrder(to, m, n),
           NEW j \in Nat, NEW c, IsCount(c, to, m, j)
    PROVE  /\ \A l \in 1 .. m : j + 1 = to[l] => l = c + 1 /\ IsCount(c + 1, to, m, j + 1)
           /\ (\A l \in 1 .. m : j + 1 # to[l]) => IsCount(c, to, m, j + 1)
  <1>1. /\ \A l \in 1 .. m : to[l] \in Nat
        /\ \A k, l \in 1 .. m : k < l => to[k] < to[l]
        /\ c \in 0 .. m /\ \A l \in 1 .. m : to[l] <= j <=> l <= c
    BY DEF InOrder, IsCount
  <1>2. ASSUME NEW l \in 1 .. m, j + 1 = to[l] PROVE l = c + 1 /\ IsCount(c + 1, to, m, j + 1)
    <2>1. ~(l <= c)
      BY <1>1, <1>2
    <2>2. l > c + 1 => FALSE
      <3>1. SUFFICES ASSUME l > c + 1 PROVE FALSE
        OBVIOUS
      <3>2. c + 1 \in 1 .. m /\ c + 1 < l
        BY <1>1, <3>1
      <3>3. to[c + 1] < to[l]
        BY <1>1, <3>2
      <3>4. to[c + 1] <= j
        BY <1>1, <1>2, <3>2, <3>3
      <3>5. c + 1 <= c
        BY <1>1, <3>2, <3>4
      <3> QED
        BY <1>1, <3>5
    <2>3. l = c + 1
      BY <1>1, <2>1, <2>2
    <2>4. ASSUME NEW k \in 1 .. m PROVE to[k] <= j + 1 <=> k <= c + 1
      <3>1. k < l => to[k] < to[l]
        BY <1>1
      <3>2. k > l => to[k] > to[l]
        BY <1>1
      <3> QED
        BY <1>1, <1>2, <2>3, <3>1, <3>2
    <2> QED
      BY <1>1, <2>3, <2>4 DEF IsCount
  <1>3. ASSUME \A l \in 1 .. m : j + 1 # to[l] PROVE IsCount(c, to, m, j + 1)
    <2>1. \A l \in 1 .. m : to[l] <= j + 1 <=> to[l] <= j
      BY <1>1, <1>3
    <2> QED
      BY <1>1, <2>1 DEF IsCount
  <1> QED
    BY <1>2, <1>3

\* Sequences with nothing in them may come anywhere.
LEMMA FlattenMoved ==
    ASSUME NEW S, NEW ss \in Seq(Seq(S)), NEW tt \in Seq(Seq(S)), NEW to,
           InOrder(to, Len(ss), Len(tt)),
           \A l \in 1 .. Len(ss) : tt[to[l]] = ss[l],
           \A k \in 1 .. Len(tt) : tt[k] = <<>> \/ \E l \in 1 .. Len(ss) : k = to[l]
    PROVE  FlattenSeq(tt) = FlattenSeq(ss)
  <1> PICK m, n : m = Len(ss) /\ n = Len(tt)
    OBVIOUS
  <1>1. m \in Nat /\ n \in Nat /\ InOrder(to, m, n)
    OBVIOUS
  <1>2. PICK f : /\ Builds(f, ss, m) /\ FlattenSeq(ss) = f[m]
                 /\ \A k \in 0 .. m : f[k] \in Seq(S)
    BY FlattenBuilds
  <1>3. PICK g : /\ Builds(g, tt, n) /\ FlattenSeq(tt) = g[n]
                 /\ \A k \in 0 .. n : g[k] \in Seq(S)
    BY FlattenBuilds
  <1> DEFINE G == {j \in Nat : j <= n => \E c : IsCount(c, to, m, j) /\ g[j] = f[c]}
  <1>4. 0 \in G
    <2>1. \A l \in 1 .. m : to[l] \in Nat /\ to[l] >= 1
      BY <1>1 DEF InOrder
    <2>2. IsCount(0, to, m, 0)
      BY <1>1, <2>1 DEF IsCount
    <2>3. g[0] = f[0]
      BY <1>2, <1>3 DEF Builds
    <2> QED
      BY <2>2, <2>3
  <1>5. ASSUME NEW j \in Nat, j \in G PROVE j + 1 \in G
    <2> SUFFICES ASSUME j + 1 <= n PROVE \E c : IsCount(c, to, m, j + 1) /\ g[j + 1] = f[c]
      OBVIOUS
    <2>1. j \in 0 .. n - 1 /\ j + 1 \in 1 .. n /\ j <= n /\ j \in 0 .. n
      BY <1>1
    <2>2. PICK c : IsCount(c, to, m, j) /\ g[j] = f[c]
      BY <1>5, <2>1
    <2> HIDE DEF G
    <2>3. g[j + 1] = g[j] \o tt[j + 1] /\ g[j] \in Seq(S)
      BY <1>3, <2>1 DEF Builds
    <2>4. /\ \A l \in 1 .. m : j + 1 = to[l] => l = c + 1 /\ IsCount(c + 1, to, m, j + 1)
          /\ (\A l \in 1 .. m : j + 1 # to[l]) => IsCount(c, to, m, j + 1)
      BY <1>1, <2>2, NextCount
    <2>5. CASE \E l \in 1 .. m : j + 1 = to[l]
      <3>1. PICK l \in 1 .. m : j + 1 = to[l]
        BY <2>5
      <3>2. l = c + 1 /\ IsCount(c + 1, to, m, j + 1)
        BY <2>4, <3>1
      <3>3. tt[j + 1] = ss[c + 1]
        BY <3>1, <3>2
      <3>4. c \in 0 .. m - 1
        <4>1. c \in 0 .. m /\ c + 1 \in 1 .. m
          BY <2>2, <3>1, <3>2 DEF IsCount
        <4> QED
          BY <1>1, <4>1
      <3>5. f[c + 1] = f[c] \o ss[c + 1]
        BY <1>2, <3>4 DEF Builds
      <3>6. g[j + 1] = f[c + 1]
        BY <2>2, <2>3, <3>3, <3>5
      <3> QED
        BY <3>2, <3>6
    <2>6. CASE \A l \in 1 .. m : j + 1 # to[l]
      <3>1. tt[j + 1] = <<>>
        BY <2>1, <2>6
      <3>2. g[j + 1] = g[j]
        BY <2>3, <3>1, EmptyFirst
      <3> QED
        BY <2>2, <2>4, <2>6, <3>2
    <2> QED
      BY <2>5, <2>6
  <1>6. G = Nat
    <2> HIDE DEF G
    <2>1. G \subseteq Nat
      BY DEF G
    <2> QED
      BY <1>4, <1>5, <2>1, Induction
  <1>7. PICK c : IsCount(c, to, m, n) /\ g[n] = f[c]
    <2>1. n \in G /\ n <= n
      <3> HIDE DEF G
      <3> QED
        BY <1>1, <1>6
    <2> QED
      BY <2>1
  <1>8. c = m
    <2>1. c \in 0 .. m /\ \A l \in 1 .. m : to[l] <= n <=> l <= c
      BY <1>7 DEF IsCount
    <2>2. \A l \in 1 .. m : to[l] <= n
      BY <1>1 DEF InOrder
    <2>3. m # 0 => m \in 1 .. m
      BY <1>1
    <2> QED
      BY <1>1, <2>1, <2>2, <2>3
  <1> QED
    BY <1>2, <1>3, <1>7, <1>8

\* r is made of the first n sequences of ss: that of sequence b begin behind off[b].
Places(off, r, ss, n) ==
    /\ \A b \in 1 .. n : off[b] \in Nat /\ off[b] + Len(ss[b]) <= Len(r)
    /\ \A b \in 1 .. n : \A j \in 1 .. Len(ss[b]) : r[off[b] + j] = ss[b][j]
    /\ \A k \in 1 .. Len(r) : \E b \in 1 .. n : \E j \in 1 .. Len(ss[b]) : k = off[b] + j
    /\ \A b, c \in 1 .. n : b < c => off[b] + Len(ss[b]) <= off[c]
    /\ \A b \in 1 .. n - 1 : off[b + 1] = off[b] + Len(ss[b])

LEMMA PlaceOne ==
    ASSUME NEW S, NEW g \in Seq(S), NEW s \in Seq(S), NEW off, NEW ss, NEW n \in Nat,
           \A b \in 1 .. n : Len(ss[b]) \in Nat,
           Places(off, g, ss, n), off[n + 1] = Len(g), s = ss[n + 1],
           n > 0 => off[n] + Len(ss[n]) = Len(g)
    PROVE  Places(off, g \o s, ss, n + 1)
  <1> PICK h, a, m : h = g \o s /\ a = Len(g) /\ m = Len(s)
    OBVIOUS
  <1>1. /\ Len(h) = a + m /\ a \in Nat /\ m \in Nat
        /\ \A k \in 1 .. a : h[k] = g[k]
        /\ \A k \in 1 .. m : h[a + k] = s[k]
    BY Concat
  <1>2. /\ \A b \in 1 .. n : off[b] \in Nat /\ off[b] + Len(ss[b]) <= a
        /\ \A b \in 1 .. n : \A j \in 1 .. Len(ss[b]) : g[off[b] + j] = ss[b][j]
        /\ \A k \in 1 .. a : \E b \in 1 .. n : \E j \in 1 .. Len(ss[b]) : k = off[b] + j
        /\ \A b, c \in 1 .. n : b < c => off[b] + Len(ss[b]) <= off[c]
        /\ \A b \in 1 .. n - 1 : off[b + 1] = off[b] + Len(ss[b])
    BY DEF Places
  <1>3. \A b \in 1 .. n + 1 : b \in 1 .. n \/ b = n + 1
    OBVIOUS
  <1>4. off[n + 1] = a /\ Len(ss[n + 1]) = m /\ ss[n + 1] = s
    OBVIOUS
  <1>5. ASSUME NEW b \in 1 .. n + 1 PROVE off[b] \in Nat /\ off[b] + Len(ss[b]) <= Len(h)
    <2>1. CASE b \in 1 .. n
      <3>1. off[b] \in Nat /\ off[b] + Len(ss[b]) <= a /\ Len(ss[b]) \in Nat
        BY <1>2, <2>1
      <3> QED
        BY <1>1, <3>1
    <2>2. CASE b = n + 1
      BY <1>1, <1>4, <2>2
    <2> QED
      BY <1>3, <2>1, <2>2
  <1>6. ASSUME NEW b \in 1 .. n + 1, NEW j \in 1 .. Len(ss[b]) PROVE h[off[b] + j] = ss[b][j]
    <2>1. CASE b \in 1 .. n
      <3>1. off[b] \in Nat /\ off[b] + Len(ss[b]) <= a /\ g[off[b] + j] = ss[b][j] /\ Len(ss[b]) \in Nat
        BY <1>2, <2>1
      <3>2. off[b] + j \in 1 .. a
        BY <1>1, <3>1
      <3> QED
        BY <1>1, <3>1, <3>2
    <2>2. CASE b = n + 1
      <3>1. j \in 1 .. m
        BY <1>4, <2>2
      <3> QED
        BY <1>1, <1>4, <2>2, <3>1
    <2> QED
      BY <1>3, <2>1, <2>2
  <1>7. ASSUME NEW k \in 1 .. Len(h)
        PROVE  \E b \in 1 .. n + 1 : \E j \in 1 .. Len(ss[b]) : k = off[b] + j
    <2>1. CASE k <= a
      <3>0. k \in 1 .. a
        BY <1>1, <2>1
      <3>1. PICK b \in 1 .. n : \E j \in 1 .. Len(ss[b]) : k = off[b] + j
        BY <1>2, <3>0
      <3>2. b \in 1 .. n + 1
        OBVIOUS
      <3> QED
        BY <3>1, <3>2
    <2>2. CASE k > a
      <3>1. k - a \in 1 .. m /\ k = a + (k - a)
        BY <1>1, <2>2
      <3>2. n + 1 \in 1 .. n + 1
        OBVIOUS
      <3>3. \E j \in 1 .. Len(ss[n + 1]) : k = off[n + 1] + j
        BY <1>4, <3>1
      <3> QED
        BY <3>2, <3>3
    <2> QED
      BY <1>1, <2>1, <2>2
  <1>8. ASSUME NEW b \in 1 .. n + 1, NEW c \in 1 .. n + 1, b < c
        PROVE  off[b] + Len(ss[b]) <= off[c]
    <2>1. b \in 1 .. n
      BY <1>8
    <2>2. CASE c \in 1 .. n
      BY <1>2, <1>8, <2>1, <2>2
    <2>3. CASE c = n + 1
      BY <1>2, <1>4, <2>1, <2>3
    <2> QED
      BY <1>3, <2>2, <2>3
  <1>9. ASSUME NEW b \in 1 .. (n + 1) - 1 PROVE off[b + 1] = off[b] + Len(ss[b])
    <2>1. CASE b \in 1 .. n - 1
      BY <1>2, <2>1
    <2>2. CASE b = n
      <3>1. n > 0
        BY <2>2
      <3> QED
        BY <1>4, <2>2, <3>1
    <2> QED
      BY <2>1, <2>2
  <1>10. Places(off, h, ss, n + 1)
    BY <1>5, <1>6, <1>7, <1>8, <1>9 DEF Places
  <1> QED
    BY <1>10

\* Every sequence has its place in what they are put together to.
LEMMA FlattenPlaces ==
    ASSUME NEW S, NEW ss \in Seq(Seq(S))
    PROVE  \E off : Places(off, FlattenSeq(ss), ss, Len(ss))
  <1> PICK n : n = Len(ss)
    OBVIOUS
  <1>1. n \in Nat /\ \A b \in 1 .. n : ss[b] \in Seq(S) /\ Len(ss[b]) \in Nat
    OBVIOUS
  <1>2. PICK f : /\ Builds(f, ss, n) /\ FlattenSeq(ss) = f[n]
                 /\ \A k \in 0 .. n : f[k] \in Seq(S)
    BY FlattenBuilds
  <1>3. f[0] = <<>> /\ \A k \in 0 .. n - 1 : f[k + 1] = f[k] \o ss[k + 1]
    BY <1>2 DEF Builds
  <1> PICK off : off = [b \in 1 .. n |-> Len(f[b - 1])]
    OBVIOUS
  <1>4. \A k \in 0 .. n - 1 : off[k + 1] = Len(f[k])
    <2> TAKE k \in 0 .. n - 1
    <2>1. k + 1 \in 1 .. n /\ (k + 1) - 1 = k
      BY <1>1
    <2> QED
      BY <2>1
  <1> DEFINE G == {m \in Nat : m <= n =>
                     /\ Places(off, f[m], ss, m)
                     /\ m > 0 => off[m] + Len(ss[m]) = Len(f[m])}
  <1>5. 0 \in G
    <2>1. Len(f[0]) = 0 /\ 1 .. 0 = {} /\ 1 .. 0 - 1 = {}
      BY <1>3
    <2>2. Places(off, f[0], ss, 0)
      BY <2>1 DEF Places
    <2> QED
      BY <2>2
  <1>6. ASSUME NEW m \in Nat, m \in G PROVE m + 1 \in G
    <2> SUFFICES ASSUME m + 1 <= n
                 PROVE  /\ Places(off, f[m + 1], ss, m + 1)
                        /\ off[m + 1] + Len(ss[m + 1]) = Len(f[m + 1])
      OBVIOUS
    <2>1. m \in 0 .. n - 1 /\ m + 1 \in 1 .. n /\ m <= n /\ m \in 0 .. n
      BY <1>1
    <2>2. Places(off, f[m], ss, m) /\ (m > 0 => off[m] + Len(ss[m]) = Len(f[m]))
      BY <1>6, <2>1
    <2> HIDE DEF G
    <2> PICK g, s : g = f[m] /\ s = ss[m + 1]
      OBVIOUS
    <2>3. g \in Seq(S) /\ s \in Seq(S) /\ f[m + 1] = g \o s /\ off[m + 1] = Len(g)
      BY <1>1, <1>2, <1>3, <1>4, <2>1
    <2>4. Places(off, g, ss, m) /\ (m > 0 => off[m] + Len(ss[m]) = Len(g))
      BY <2>2
    <2>5. \A b \in 1 .. m : Len(ss[b]) \in Nat
      BY <1>1, <2>1
    <2>6. Places(off, g \o s, ss, m + 1)
      BY <2>3, <2>4, <2>5, PlaceOne
    <2>7. Len(g \o s) = Len(g) + Len(s)
      BY <2>3, Concat
    <2> QED
      BY <2>3, <2>6, <2>7
  <1>7. G = Nat
    <2> HIDE DEF G
    <2>1. G \subseteq Nat
      BY DEF G
    <2> QED
      BY <1>5, <1>6, <2>1, Induction
  <1>8. Places(off, f[n], ss, n)
    <2>1. n \in G /\ n <= n
      <3> HIDE DEF G
      <3> QED
        BY <1>1, <1>7
    <2> QED
      BY <2>1
  <1> QED
    BY <1>2, <1>8

\* r has the elements of s at the positions P, in order: r[k] is that at place to[k].
Chosen(to, r, s, P) ==
    /\ InOrder(to, Len(r), Len(s))
    /\ \A k \in 1 .. Len(r) : to[k] \in P /\ r[k] = s[to[k]]
    /\ \A l \in 1 .. Len(s) : l \in P => \E k \in 1 .. Len(r) : l = to[k]



\* AtPositions keeps what it chooses, in order, and nothing else.
LEMMA AtPositionsChooses ==
    ASSUME NEW S, NEW s \in Seq(S), NEW P
    PROVE  /\ AtPositions(s, P) \in Seq(S)
           /\ \E to : Chosen(to, AtPositions(s, P), s, P)
  <1> DEFINE n == Len(s)
             ss == [k \in DOMAIN s |-> IF k \in P THEN <<s[k]>> ELSE <<>>]
             r == AtPositions(s, P)
  <1>1. n \in Nat /\ \A k \in 1 .. n : s[k] \in S
    OBVIOUS
  <1>2. ss \in Seq(Seq(S)) /\ Len(ss) = n
    <2>1. DOMAIN s = 1 .. n
      OBVIOUS
    <2>2. \A k \in 1 .. n : <<s[k]>> \in Seq(S)
      BY <1>1
    <2>3. <<>> \in Seq(S)
      OBVIOUS
    <2> PICK Q : Q = Seq(S)
      OBVIOUS
    <2>4. \A k \in 1 .. n : ss[k] \in Q
      BY <2>1, <2>2, <2>3
    <2>5. ss = [k \in 1 .. n |-> ss[k]]
      BY <2>1
    <2> HIDE DEF ss, n
    <2>6. ss \in [1 .. n -> Q]
      BY <2>4, <2>5
    <2> QED
      BY <1>1, <2>6
  <1>3. r = FlattenSeq(ss)
    BY DEF AtPositions
  <1>4. \A k \in 1 .. n : /\ k \in P => ss[k] = <<s[k]>> /\ Len(ss[k]) = 1 /\ ss[k][1] = s[k]
                          /\ k \notin P => Len(ss[k]) = 0
    OBVIOUS
  <1> HIDE DEF ss, n, r
  <1>5. PICK off : Places(off, r, ss, n)
    BY <1>2, <1>3, FlattenPlaces
  <1>6. r \in Seq(S)
    BY <1>2, <1>3, FlattenType
  <1> PICK m : m = Len(r)
    OBVIOUS
  <1>7. m \in Nat
    BY <1>6
  <1>8. /\ \A b \in 1 .. n : off[b] \in Nat /\ off[b] + Len(ss[b]) <= m
        /\ \A b \in 1 .. n : \A j \in 1 .. Len(ss[b]) : r[off[b] + j] = ss[b][j]
        /\ \A k \in 1 .. m : \E b \in 1 .. n : \E j \in 1 .. Len(ss[b]) : k = off[b] + j
        /\ \A b, c \in 1 .. n : b < c => off[b] + Len(ss[b]) <= off[c]
    BY <1>5 DEF Places
  <1>9. ASSUME NEW k \in 1 .. m PROVE \E b \in 1 .. n : b \in P /\ k = off[b] + 1
    <2>1. PICK b \in 1 .. n : \E j \in 1 .. Len(ss[b]) : k = off[b] + j
      BY <1>8
    <2>2. PICK j \in 1 .. Len(ss[b]) : k = off[b] + j
      BY <2>1
    <2>3. b \in P
      <3>1. b \notin P => Len(ss[b]) = 0
        BY <1>4
      <3>2. Len(ss[b]) # 0
        BY <2>2
      <3> QED
        BY <3>1, <3>2
    <2>4. j = 1
      <3>1. Len(ss[b]) = 1
        BY <1>4, <2>3
      <3> QED
        BY <2>2, <3>1
    <2> QED
      BY <2>2, <2>3, <2>4
  <1>10. ASSUME NEW b \in 1 .. n, b \in P
         PROVE  /\ off[b] \in Nat /\ off[b] + 1 \in 1 .. m /\ r[off[b] + 1] = s[b]
                /\ \A c \in 1 .. n : b < c => off[b] + 1 <= off[c]
    <2>1. Len(ss[b]) = 1 /\ ss[b][1] = s[b]
      BY <1>4, <1>10
    <2>2. off[b] \in Nat /\ off[b] + 1 <= m
      BY <1>8, <2>1
    <2>3. 1 \in 1 .. Len(ss[b])
      BY <2>1
    <2>4. r[off[b] + 1] = s[b]
      BY <1>8, <2>1, <2>3
    <2> QED
      BY <1>7, <1>8, <2>1, <2>2, <2>4
  <1> PICK to : to = [k \in 1 .. m |-> CHOOSE b \in 1 .. n : b \in P /\ k = off[b] + 1]
    OBVIOUS
  <1>11. \A k \in 1 .. m : to[k] \in 1 .. n /\ to[k] \in P /\ k = off[to[k]] + 1
    BY <1>9
  <1>12. ASSUME NEW k \in 1 .. m, NEW l \in 1 .. m, k < l PROVE to[k] < to[l]
    <2>0. PICK b, c : b = to[k] /\ c = to[l]
      OBVIOUS
    <2>1. b \in 1 .. n /\ b \in P /\ k = off[b] + 1 /\ c \in 1 .. n /\ c \in P /\ l = off[c] + 1
      BY <1>11, <2>0
    <2>2. off[b] \in Nat
      BY <1>10, <2>1
    <2>3. off[c] \in Nat /\ \A d \in 1 .. n : c < d => off[c] + 1 <= off[d]
      BY <1>10, <2>1
    <2>4. (c < b => off[c] + 1 <= off[b]) /\ (b = c => off[b] = off[c])
      BY <2>1, <2>3
    <2>5. off[b] + 1 < off[c] + 1
      BY <1>12, <2>1
    <2>6. b < c
      <3> PICK x, y : x = off[b] /\ y = off[c]
        OBVIOUS
      <3>1. /\ x \in Nat /\ y \in Nat /\ x + 1 < y + 1 /\ (c < b => y + 1 <= x)
            /\ (b = c => x = y)
        BY <2>2, <2>3, <2>4, <2>5
      <3>2. b \in Nat /\ c \in Nat
        BY <1>1, <2>1
      <3>3. ~(c < b) /\ b # c
        BY <3>1
      <3> QED
        BY <3>2, <3>3
    <2> QED
      BY <2>0, <2>6
  <1>13. ASSUME NEW l \in 1 .. n, l \in P PROVE \E k \in 1 .. m : l = to[k]
    <2>1. off[l] + 1 \in 1 .. m /\ off[l] \in Nat
      BY <1>10, <1>13
    <2> PICK b : b = to[off[l] + 1]
      OBVIOUS
    <2>2. b \in 1 .. n /\ b \in P /\ off[l] + 1 = off[b] + 1
      BY <1>11, <2>1
    <2>3. off[b] \in Nat /\ (b < l => off[b] + 1 <= off[l]) /\ (l < b => off[l] + 1 <= off[b])
      BY <1>10, <1>13, <2>2
    <2>4. b = l
      BY <2>1, <2>2, <2>3
    <2> QED
      BY <2>1, <2>4
  <1>14. \A k \in 1 .. m : r[k] = s[to[k]]
    BY <1>10, <1>11
  <1>15. Chosen(to, r, s, P)
    <2>1. InOrder(to, m, n)
      BY <1>11, <1>12 DEF InOrder
    <2> QED
      BY <1>11, <1>13, <1>14, <2>1 DEF Chosen, n
  <1> QED
    BY <1>6, <1>15 DEF r

-----------------------------------------------------------------------------
(* Sequences of sequences with at most one element                         *)

\* ss is n sequences, each of them empty or of one element.
IsShort(ss, n) ==
    /\ ss = [k \in 1 .. n |-> ss[k]]
    /\ \A k \in 1 .. n : ss[k] = <<>> \/ \E x : ss[k] = <<x>>

LEMMA ShortType ==
    ASSUME NEW n \in Nat, NEW ss, IsShort(ss, n), NEW S, \A k \in 1 .. n : ss[k][1] \in S
    PROVE  ss \in Seq(Seq(S)) /\ Len(ss) = n
  <1>1. ASSUME NEW k \in 1 .. n PROVE ss[k] \in Seq(S)
    <2>1. ss[k] = <<>> \/ \E x : ss[k] = <<x>>
      BY DEF IsShort
    <2>2. CASE ss[k] = <<>>
      BY <2>2
    <2>3. CASE \E x : ss[k] = <<x>>
      <3>1. PICK x : ss[k] = <<x>>
        BY <2>3
      <3>2. x = ss[k][1]
        BY <3>1
      <3>3. x \in S
        BY <3>2
      <3> QED
        BY <3>1, <3>3, OneElement, Zenon
    <2> QED
      BY <2>1, <2>2, <2>3
  <1> PICK Q : Q = Seq(S)
    OBVIOUS
  <1>2. ss = [k \in 1 .. n |-> ss[k]] /\ \A k \in 1 .. n : ss[k] \in Q
    BY <1>1 DEF IsShort
  <1>3. ss \in [1 .. n -> Q]
    BY <1>2
  <1> QED
    BY <1>3

\* Empty sequences may come anywhere.
LEMMA ShortMoved ==
    ASSUME NEW m \in Nat, NEW n \in Nat, NEW ss, NEW tt, IsShort(ss, m), IsShort(tt, n),
           NEW to, InOrder(to, m, n),
           \A l \in 1 .. m : tt[to[l]] = ss[l],
           \A k \in 1 .. n : tt[k] = <<>> \/ \E l \in 1 .. m : k = to[l]
    PROVE  FlattenSeq(tt) = FlattenSeq(ss)
  <1> PICK S : S = {ss[k][1] : k \in 1 .. m} \cup {tt[k][1] : k \in 1 .. n}
    OBVIOUS
  <1>1. /\ \A k \in 1 .. m : ss[k][1] \in S
        /\ \A k \in 1 .. n : tt[k][1] \in S
    OBVIOUS
  <1>2. ss \in Seq(Seq(S)) /\ Len(ss) = m
    BY <1>1, ShortType
  <1>3. tt \in Seq(Seq(S)) /\ Len(tt) = n
    BY <1>1, ShortType
  <1> QED
    BY <1>2, <1>3, FlattenMoved

\* Nothing comes of empty sequences.
LEMMA FlattenNone ==
    ASSUME NEW n \in Nat, NEW tt, IsShort(tt, n), \A k \in 1 .. n : tt[k] = <<>>
    PROVE  FlattenSeq(tt) = <<>>
  <1> PICK ss : ss = <<>>
    OBVIOUS
  <1>1. 1 .. 0 = {} /\ ss = [k \in 1 .. 0 |-> ss[k]]
    OBVIOUS
  <1>2. IsShort(ss, 0) /\ InOrder(<<>>, 0, n)
    BY <1>1 DEF IsShort, InOrder
  <1>3. FlattenSeq(tt) = FlattenSeq(ss)
    BY <1>1, <1>2, ShortMoved
  <1>4. FlattenSeq(ss) = <<>>
    BY DEF FlattenSeq
  <1> QED
    BY <1>3, <1>4

\* One sequence, and only empty ones beside it: it alone is left.
LEMMA FlattenOne ==
    ASSUME NEW n \in Nat, NEW tt, IsShort(tt, n), NEW c \in 1 .. n, NEW x, tt[c] = <<x>>,
           \A k \in 1 .. n : k # c => tt[k] = <<>>
    PROVE  FlattenSeq(tt) = <<x>>
  <1> PICK s : s = <<x>>
    OBVIOUS
  <1> PICK ss : ss = <<s>>
    OBVIOUS
  <1>1. /\ 1 .. 1 = {1} /\ ss[1] = s /\ Len(ss) = 1 /\ ss = [k \in 1 .. 1 |-> ss[k]]
        /\ ss \in Seq({s})
    OBVIOUS
  <1> PICK to : to = [k \in {1} |-> c]
    OBVIOUS
  <1>2. to[1] = c
    OBVIOUS
  <1>3. IsShort(ss, 1)
    BY <1>1 DEF IsShort
  <1>4. InOrder(to, 1, n)
    BY <1>1, <1>2 DEF InOrder
  <1>5. \A l \in 1 .. 1 : tt[to[l]] = ss[l]
    BY <1>1, <1>2
  <1>6. \A k \in 1 .. n : tt[k] = <<>> \/ \E l \in 1 .. 1 : k = to[l]
    BY <1>1, <1>2
  <1>7. FlattenSeq(tt) = FlattenSeq(ss)
    BY <1>3, <1>4, <1>5, <1>6, ShortMoved
  <1>8. FlattenSeq(ss) = ss[1]
    <2>1. Len(ss) \in Nat /\ Len(ss) # 0
      BY <1>1
    <2>2. PICK g : FlattenSeq(ss) = g[Len(ss)] /\ Flattens(g, ss, Len(ss))
      BY <2>1, FlattenIs
    <2>3. Flattens(g, ss, 1)
      BY <1>1, <2>2
    <2>4. 1 \in Nat /\ 1 > 0
      OBVIOUS
    <2>5. g[1] = ss[1]
      BY <2>3, <2>4, FlattensAt
    <2> QED
      BY <1>1, <2>2, <2>5
  <1> QED
    BY <1>1, <1>7, <1>8

-----------------------------------------------------------------------------
(* A body with more instructions in it                                     *)

\* What the passes insert, but for the wrappers and their calls.
IsExtra(i) == i.src = 0 /\ (i.op = "cast" \/ (i.op = "call" /\ i.fn \in OwnFunctions))

\* What is inserted for the analysis.
IsAnnotation(i) == IsExtra(i) /\ ~IsBufferCall(i)

\* All of an instruction that ProgramPreserved is about.
SameCore(i, j) == i.op = j.op /\ i.fn = j.fn /\ i.args = j.args /\ i.src = j.src

\* r is b with more instructions in it: that at place l is at place to[l].
Follows(to, r, b) ==
    /\ InOrder(to, Len(b), Len(r))
    /\ \A l \in 1 .. Len(b) : SameCore(r[to[l]], b[l])
    /\ \A k \in 1 .. Len(r) : IsExtra(r[k]) \/ \E l \in 1 .. Len(b) : k = to[l]

\* The body of a wrapper has one call of the program, at place c, and reaches it.
Forwards(b, c) ==
    /\ c \in 1 .. Len(b)
    /\ b[c].op = "call" /\ b[c].src # 0
    /\ \A k \in 1 .. c : b[k].op # "ret"
    /\ \A k \in 1 .. Len(b) : k # c =>
         IsExtra(b[k]) \/ (b[k].src = 0 /\ b[k].op \in {"br", "ret"})

\* A wrapper with more instructions in it still makes its call.
LEMMA ForwardsMore ==
    ASSUME NEW b, NEW r, Len(b) \in Nat, Len(r) \in Nat, NEW to, Follows(to, r, b),
           NEW c, Forwards(b, c)
    PROVE  Forwards(r, to[c])
  <1>1. /\ \A l \in 1 .. Len(b) : to[l] \in 1 .. Len(r)
        /\ \A k, l \in 1 .. Len(b) : k < l => to[k] < to[l]
        /\ \A l \in 1 .. Len(b) : SameCore(r[to[l]], b[l])
        /\ \A k \in 1 .. Len(r) : IsExtra(r[k]) \/ \E l \in 1 .. Len(b) : k = to[l]
    BY DEF Follows, InOrder
  <1>2. /\ c \in 1 .. Len(b)
        /\ b[c].op = "call" /\ b[c].src # 0
        /\ \A k \in 1 .. c : b[k].op # "ret"
        /\ \A k \in 1 .. Len(b) : k # c =>
             IsExtra(b[k]) \/ (b[k].src = 0 /\ b[k].op \in {"br", "ret"})
    BY DEF Forwards
  <1> PICK d : d = to[c]
    OBVIOUS
  <1>3. d \in 1 .. Len(r) /\ r[d].op = "call" /\ r[d].src # 0
    BY <1>1, <1>2 DEF SameCore
  <1>4. ASSUME NEW k \in 1 .. d PROVE r[k].op # "ret"
    <2>1. k \in 1 .. Len(r)
      BY <1>3
    <2>2. CASE IsExtra(r[k])
      BY <2>2 DEF IsExtra
    <2>3. CASE \E l \in 1 .. Len(b) : k = to[l]
      <3>1. PICK l \in 1 .. Len(b) : k = to[l]
        BY <2>3
      <3>2. l \in 1 .. c
        <4>1. c < l => to[c] < to[l]
          BY <1>1, <1>2
        <4> QED
          BY <1>2, <1>3, <3>1, <4>1
      <3>3. r[k].op = b[l].op
        BY <1>1, <3>1 DEF SameCore
      <3>4. b[l].op # "ret"
        BY <1>2, <3>2
      <3> QED
        BY <3>3, <3>4
    <2> QED
      BY <1>1, <2>1, <2>2, <2>3
  <1>5. ASSUME NEW k \in 1 .. Len(r), k # d
        PROVE  IsExtra(r[k]) \/ (r[k].src = 0 /\ r[k].op \in {"br", "ret"})
    <2>1. CASE \E l \in 1 .. Len(b) : k = to[l]
      <3>1. PICK l \in 1 .. Len(b) : k = to[l]
        BY <2>1
      <3>2. l # c
        BY <1>5, <3>1
      <3>3. IsExtra(b[l]) \/ (b[l].src = 0 /\ b[l].op \in {"br", "ret"})
        BY <1>2, <3>2
      <3>4. SameCore(r[k], b[l])
        BY <1>1, <3>1
      <3> QED
        BY <3>3, <3>4 DEF SameCore, IsExtra
    <2> QED
      BY <1>1, <2>1
  <1>6. Forwards(r, d)
    BY <1>3, <1>4, <1>5 DEF Forwards
  <1> QED
    BY <1>6

\* So does one that has lost instructions, but not that call.
LEMMA ForwardsLess ==
    ASSUME NEW b, NEW r, Len(b) \in Nat, Len(r) \in Nat, NEW to, Follows(to, r, b),
           NEW d, Forwards(r, d)
    PROVE  \E c : d = to[c] /\ Forwards(b, c)
  <1>1. /\ \A l \in 1 .. Len(b) : to[l] \in 1 .. Len(r)
        /\ \A k, l \in 1 .. Len(b) : k < l => to[k] < to[l]
        /\ \A l \in 1 .. Len(b) : SameCore(r[to[l]], b[l])
        /\ \A k \in 1 .. Len(r) : IsExtra(r[k]) \/ \E l \in 1 .. Len(b) : k = to[l]
    BY DEF Follows, InOrder
  <1>2. /\ d \in 1 .. Len(r)
        /\ r[d].op = "call" /\ r[d].src # 0
        /\ \A k \in 1 .. d : r[k].op # "ret"
        /\ \A k \in 1 .. Len(r) : k # d =>
             IsExtra(r[k]) \/ (r[k].src = 0 /\ r[k].op \in {"br", "ret"})
    BY DEF Forwards
  <1>3. ~IsExtra(r[d])
    BY <1>2 DEF IsExtra
  <1>4. PICK c \in 1 .. Len(b) : d = to[c]
    BY <1>1, <1>2, <1>3
  <1>5. b[c].op = "call" /\ b[c].src # 0
    BY <1>1, <1>2, <1>4 DEF SameCore
  <1>6. ASSUME NEW k \in 1 .. c PROVE b[k].op # "ret"
    <2>1. k \in 1 .. Len(b) /\ (k = c \/ k < c)
      BY <1>4
    <2>2. to[k] \in 1 .. d
      BY <1>1, <1>2, <1>4, <2>1
    <2> QED
      BY <1>1, <1>2, <2>1, <2>2 DEF SameCore
  <1>7. ASSUME NEW k \in 1 .. Len(b), k # c
        PROVE  IsExtra(b[k]) \/ (b[k].src = 0 /\ b[k].op \in {"br", "ret"})
    <2>1. k < c \/ c < k
      BY <1>7
    <2>2. to[k] \in 1 .. Len(r) /\ to[k] # d
      BY <1>1, <1>2, <1>4, <2>1
    <2>3. SameCore(r[to[k]], b[k])
      BY <1>1
    <2>4. IsExtra(r[to[k]]) \/ (r[to[k]].src = 0 /\ r[to[k]].op \in {"br", "ret"})
      BY <1>2, <2>2
    <2> QED
      BY <2>3, <2>4 DEF SameCore, IsExtra
  <1>8. Forwards(b, c)
    BY <1>4, <1>5, <1>6, <1>7 DEF Forwards
  <1> QED
    BY <1>4, <1>8

-----------------------------------------------------------------------------
(* What a call of a wrapper does                                           *)

WithArgs(i, args) == [i EXCEPT !.args = args]

LEMMA WithArgsIs ==
    ASSUME NEW i, IsRecord(i), NEW args, NEW j, j = WithArgs(i, args)
    PROVE  /\ IsRecord(j) /\ j.args = args
           /\ j.op = i.op /\ j.fn = i.fn /\ j.meta = i.meta
           /\ j.tags = i.tags /\ j.addr = i.addr /\ j.src = i.src
  <1> PICK op, fn, old, meta, tags, addr, src :
        /\ op = i.op /\ fn = i.fn /\ old = i.args /\ meta = i.meta /\ tags = i.tags
        /\ addr = i.addr /\ src = i.src
    OBVIOUS
  <1> DEFINE r == RecordOf(op, fn, old, meta, tags, addr, src)
  <1>1. i = r
    BY DEF IsRecord
  <1>2. [r EXCEPT !.args = args] = RecordOf(op, fn, args, meta, tags, addr, src)
    BY DEF RecordOf
  <1> HIDE DEF r
  <1>3. j = RecordOf(op, fn, args, meta, tags, addr, src)
    BY <1>1, <1>2, Zenon DEF WithArgs
  <1> QED
    BY <1>3, RecordFields

\* The operands that a wrapper called with these gives to i.
OperandsFor(i, operands) ==
    [k \in DOMAIN i.args |->
       IF i.args[k][1] = "param" THEN operands[i.args[k][2]] ELSE i.args[k]]

\* A call of a wrapper hands its operands to what the wrapper does.
LEMMA WithOperandsIs ==
    ASSUME NEW i, IsRecord(i), NEW operands, NEW j, j = WithOperands(i, operands)
    PROVE  /\ IsRecord(j) /\ j.args = OperandsFor(i, operands)
           /\ j.op = i.op /\ j.fn = i.fn /\ j.meta = i.meta
           /\ j.tags = i.tags /\ j.addr = i.addr /\ j.src = i.src
  <1>1. j = WithArgs(i, OperandsFor(i, operands))
    BY DEF WithOperands, WithArgs, OperandsFor
  <1> QED
    BY <1>1, WithArgsIs

\* The same operands are given to two instructions that are the same.
LEMMA SameOperands ==
    ASSUME NEW i, NEW j, IsRecord(i), IsRecord(j), SameCore(i, j), NEW operands
    PROVE  Core(WithOperands(i, operands)) = Core(WithOperands(j, operands))
  <1> PICK x, y : x = WithOperands(i, operands) /\ y = WithOperands(j, operands)
    OBVIOUS
  <1>1. /\ x.args = OperandsFor(i, operands) /\ x.op = i.op /\ x.fn = i.fn /\ x.src = i.src
    BY WithOperandsIs
  <1>2. /\ y.args = OperandsFor(j, operands) /\ y.op = j.op /\ y.fn = j.fn /\ y.src = j.src
    BY WithOperandsIs
  <1>3. i.args = j.args /\ i.op = j.op /\ i.fn = j.fn /\ i.src = j.src
    BY DEF SameCore
  <1>4. OperandsFor(i, operands) = OperandsFor(j, operands)
    BY <1>3 DEF OperandsFor
  <1>5. Core(x) = Core(y)
    BY <1>1, <1>2, <1>3, <1>4, Zenon DEF Core
  <1> QED
    BY <1>5

\* What the body b of a wrapper does with these operands.
Inline(b, operands) ==
    LET run == AtPositions(b, Reached(b))
    IN  [k \in DOMAIN run |-> WithOperands(run[k], operands)]

OwnOf(i) == IF i.src # 0 THEN <<Core(i)>> ELSE <<>>

\* What is the program's own in a run, instruction for instruction.
LEMMA OwnIs ==
    ASSUME NEW n \in Nat, NEW run, DOMAIN run = 1 .. n
    PROVE  /\ IsShort([k \in DOMAIN run |-> OwnOf(run[k])], n)
           /\ Own(run) = FlattenSeq([k \in DOMAIN run |-> OwnOf(run[k])])
  <1>1. \A i : OwnOf(i) = <<>> \/ \E x : OwnOf(i) = <<x>>
    BY DEF OwnOf
  <1> QED
    BY <1>1 DEF IsShort, Own, OwnOf

LEMMA OwnOne ==
    ASSUME NEW i
    PROVE  Own(<<i>>) = OwnOf(i)
  <1> PICK run : run = <<i>>
    OBVIOUS
  <1>1. DOMAIN run = 1 .. 1 /\ run[1] = i /\ 1 \in 1 .. 1 /\ 1 \in Nat
    OBVIOUS
  <1>2. \A k \in 1 .. 1 : k = 1
    OBVIOUS
  <1> PICK tt : tt = [k \in DOMAIN run |-> OwnOf(run[k])]
    OBVIOUS
  <1>3. IsShort(tt, 1) /\ Own(run) = FlattenSeq(tt) /\ tt[1] = OwnOf(i)
    BY <1>1, OwnIs
  <1>4. CASE i.src = 0
    <2>1. \A k \in 1 .. 1 : tt[k] = <<>>
      BY <1>2, <1>3, <1>4 DEF OwnOf
    <2>2. FlattenSeq(tt) = <<>>
      BY <1>1, <1>3, <2>1, FlattenNone
    <2> QED
      BY <1>3, <1>4, <2>2 DEF OwnOf
  <1>5. CASE i.src # 0
    <2> PICK x : x = Core(i)
      OBVIOUS
    <2>1. tt[1] = <<x>>
      BY <1>3, <1>5 DEF OwnOf
    <2>2. FlattenSeq(tt) = <<x>>
      BY <1>1, <1>2, <1>3, <2>1, FlattenOne
    <2> QED
      BY <1>3, <1>5, <2>2 DEF OwnOf
  <1> QED
    BY <1>4, <1>5

\* Of the program a wrapper does the call that it is there for.
LEMMA InlineOwn ==
    ASSUME NEW S, NEW b \in Seq(S), \A i \in S : IsRecord(i), NEW c, Forwards(b, c), NEW operands
    PROVE  Own(Inline(b, operands)) = <<Core(WithOperands(b[c], operands))>>
  <1> PICK P, r : P = Reached(b) /\ r = AtPositions(b, P)
    OBVIOUS
  <1>1. PICK to : Chosen(to, r, b, P) /\ r \in Seq(S)
    BY AtPositionsChooses
  <1>2. /\ \A k \in 1 .. Len(r) : to[k] \in 1 .. Len(b) /\ to[k] \in P /\ r[k] = b[to[k]]
        /\ \A k, l \in 1 .. Len(r) : k < l => to[k] < to[l]
        /\ \A l \in 1 .. Len(b) : l \in P => \E k \in 1 .. Len(r) : l = to[k]
    BY <1>1 DEF Chosen, InOrder
  <1>3. /\ c \in 1 .. Len(b) /\ b[c].op = "call" /\ b[c].src # 0
        /\ \A k \in 1 .. c : b[k].op # "ret"
        /\ \A k \in 1 .. Len(b) : k # c => b[k].src = 0
    BY DEF Forwards, IsExtra
  <1>4. c \in P
    BY <1>3 DEF Reached
  <1>5. PICK d \in 1 .. Len(r) : c = to[d]
    BY <1>2, <1>3, <1>4
  <1>6. \A k \in 1 .. Len(r) : k # d => to[k] # c
    <2> TAKE k \in 1 .. Len(r)
    <2>1. k < d \/ k = d \/ d < k
      BY <1>1
    <2> QED
      BY <1>2, <1>5, <2>1
  <1>7. \A k \in 1 .. Len(r) : IsRecord(r[k])
    BY <1>1
  <1> PICK run : run = Inline(b, operands)
    OBVIOUS
  <1>8. /\ DOMAIN run = 1 .. Len(r) /\ Len(r) \in Nat
        /\ \A k \in 1 .. Len(r) : run[k] = WithOperands(r[k], operands)
    BY <1>1 DEF Inline
  <1>9. \A k \in 1 .. Len(r) : run[k].src = r[k].src
    BY <1>7, <1>8, WithOperandsIs
  <1>9a. PICK tt, x : tt = [k \in DOMAIN run |-> OwnOf(run[k])] /\ x = Core(run[d])
    OBVIOUS
  <1>10. IsShort(tt, Len(r)) /\ Own(run) = FlattenSeq(tt)
    BY <1>8, <1>9a, OwnIs
  <1>11. tt[d] = <<x>>
    <2>1. run[d].src # 0
      BY <1>2, <1>3, <1>5, <1>9
    <2> QED
      BY <1>8, <1>9a, <2>1 DEF OwnOf
  <1>12. ASSUME NEW k \in 1 .. Len(r), k # d PROVE tt[k] = <<>>
    <2>0. to[k] \in 1 .. Len(b) /\ to[k] # c /\ r[k] = b[to[k]]
      BY <1>2, <1>6, <1>12
    <2>1. run[k].src = 0
      BY <1>3, <1>9, <2>0
    <2> QED
      BY <1>8, <1>9a, <2>1 DEF OwnOf
  <1>13. FlattenSeq(tt) = <<x>>
    <2>1. PICK n : n = Len(r)
      OBVIOUS
    <2>2. n \in Nat /\ d \in 1 .. n /\ IsShort(tt, n) /\ tt[d] = <<x>>
      BY <1>8, <1>10, <1>11, <2>1
    <2>3. \A k \in 1 .. n : k # d => tt[k] = <<>>
      BY <1>12, <2>1
    <2> QED
      BY <2>2, <2>3, FlattenOne, Zenon
  <1>14. x = Core(WithOperands(b[c], operands))
    BY <1>2, <1>5, <1>8, <1>9a
  <1> QED
    BY <1>10, <1>13, <1>14

-----------------------------------------------------------------------------
(* The module as it runs                                                   *)

\* What a function of the program has that is not in the input.
IsAddition(i) == i.src # 0 \/ IsExtra(i) \/ IsWrapperCall(i)

\* Each wrapper that is called is there, and does the call that it is there for.
Runs(fs) ==
    /\ IsModule(fs)
    /\ \A i \in InstructionsOf(fs) : IsRecord(i)
    /\ \A f \in DOMAIN fs : IsWrapper(fs[f].name) => \E c : Forwards(fs[f].body, c)
    /\ \A f, g \in DOMAIN fs : fs[f].name = fs[g].name /\ IsWrapper(fs[f].name) => f = g
    /\ \A i \in InstructionsOf(fs) :
         IsWrapperCall(i) => \E f \in DOMAIN fs : fs[f].name = i.fn
    /\ \A f \in DOMAIN fs : ~IsWrapper(fs[f].name) =>
         \A k \in DOMAIN fs[f].body : IsAddition(fs[f].body[k])

\* The parts of Runs, one by one.
LEMMA RunsIs ==
    ASSUME NEW fs, Runs(fs)
    PROVE  /\ IsModule(fs) /\ Len(fs) \in Nat /\ DOMAIN fs = 1 .. Len(fs)
           /\ \A f \in DOMAIN fs : fs[f].body \in Seq(InstructionsOf(fs))
           /\ \A i \in InstructionsOf(fs) : IsRecord(i)
           /\ \A f \in DOMAIN fs : IsWrapper(fs[f].name) => \E c : Forwards(fs[f].body, c)
           /\ \A f, g \in DOMAIN fs : fs[f].name = fs[g].name /\ IsWrapper(fs[f].name) => f = g
           /\ \A i \in InstructionsOf(fs) :
                IsWrapperCall(i) => \E f \in DOMAIN fs : fs[f].name = i.fn
           /\ \A f \in DOMAIN fs : ~IsWrapper(fs[f].name) =>
                \A k \in DOMAIN fs[f].body : IsAddition(fs[f].body[k])
  BY ModuleIs DEF Runs

\* A call of a wrapper does what its body does.
LEMMA DoesInline ==
    ASSUME NEW fs, Runs(fs), NEW i, IsWrapperCall(i), NEW g \in DOMAIN fs, fs[g].name = i.fn
    PROVE  Does(fs, i) = Inline(fs[g].body, i.args) /\ IsWrapper(fs[g].name)
  <1>1. IsWrapper(fs[g].name)
    BY DEF IsWrapper, IsWrapperCall
  <1>2. fs[g] \in ToSet(fs) /\ \A f \in ToSet(fs) : f.name = i.fn => f = fs[g]
    <2>1. \A f, h \in DOMAIN fs : fs[f].name = fs[h].name /\ IsWrapper(fs[f].name) => f = h
      BY RunsIs
    <2> QED
      BY <1>1, <2>1 DEF ToSet
  <1>3. PICK w : w = CHOOSE f \in ToSet(fs) : f.name = i.fn
    OBVIOUS
  <1>4. w = fs[g]
    BY <1>2, <1>3
  <1>5. Does(fs, i) = Inlined(fs, i)
    BY DEF Does
  <1>6. Inlined(fs, i) = Inline(w.body, i.args)
    BY <1>3 DEF Inlined, Inline
  <1> QED
    BY <1>1, <1>4, <1>5, <1>6

\* What is the program's of what an instruction does.
LEMMA OwnDoes ==
    ASSUME NEW fs, Runs(fs), NEW i \in InstructionsOf(fs)
    PROVE  /\ ~IsWrapperCall(i) => Own(Does(fs, i)) = OwnOf(i)
           /\ IsWrapperCall(i) =>
                \E g \in DOMAIN fs : fs[g].name = i.fn /\ IsWrapper(fs[g].name)
           /\ \A g \in DOMAIN fs : \A c :
                IsWrapperCall(i) /\ fs[g].name = i.fn /\ Forwards(fs[g].body, c) =>
                  Own(Does(fs, i)) = <<Core(WithOperands(fs[g].body[c], i.args))>>
  <1>1. ~IsWrapperCall(i) => Own(Does(fs, i)) = OwnOf(i)
    BY OwnOne DEF Does
  <1>2. ASSUME IsWrapperCall(i)
        PROVE  \E g \in DOMAIN fs : fs[g].name = i.fn /\ IsWrapper(fs[g].name)
    BY <1>2, RunsIs, DoesInline
  <1>3. ASSUME NEW g \in DOMAIN fs, NEW c, IsWrapperCall(i), fs[g].name = i.fn,
               Forwards(fs[g].body, c)
        PROVE  Own(Does(fs, i)) = <<Core(WithOperands(fs[g].body[c], i.args))>>
    <2>1. Does(fs, i) = Inline(fs[g].body, i.args)
      BY <1>3, DoesInline
    <2>2. /\ fs[g].body \in Seq(InstructionsOf(fs))
          /\ \A j \in InstructionsOf(fs) : IsRecord(j)
      BY RunsIs
    <2> PICK b, S, args : b = fs[g].body /\ S = InstructionsOf(fs) /\ args = i.args
      OBVIOUS
    <2>3. b \in Seq(S) /\ (\A j \in S : IsRecord(j)) /\ Forwards(b, c)
      BY <1>3, <2>2
    <2>4. Own(Inline(b, args)) = <<Core(WithOperands(b[c], args))>>
      BY <2>3, InlineOwn
    <2> QED
      BY <2>1, <2>4
  <1> QED
    BY <1>1, <1>2, <1>3

\* gs is fs with more instructions.
Ordered(gs, fs) ==
    /\ IsModule(gs) /\ IsModule(fs)
    /\ DOMAIN gs = DOMAIN fs
    /\ \A f \in DOMAIN fs : /\ gs[f].name = fs[f].name
                            /\ \E to : Follows(to, gs[f].body, fs[f].body)

\* Observed, instruction for instruction.
LEMMA ObservedIs ==
    ASSUME NEW fs, Runs(fs), NEW f \in DOMAIN fs, NEW ss,
           ss = [k \in DOMAIN fs[f].body |-> Own(Does(fs, fs[f].body[k]))]
    PROVE  /\ Observed(fs, f) = FlattenSeq(ss) /\ IsShort(ss, Len(fs[f].body))
           /\ Len(fs[f].body) \in Nat /\ DOMAIN fs[f].body = 1 .. Len(fs[f].body)
  <1>1. /\ Len(fs[f].body) \in Nat /\ DOMAIN fs[f].body = 1 .. Len(fs[f].body)
        /\ \A k \in 1 .. Len(fs[f].body) : fs[f].body[k] \in InstructionsOf(fs)
    BY RunsIs
  <1>2. ASSUME NEW k \in 1 .. Len(fs[f].body)
        PROVE  ss[k] = <<>> \/ \E x : ss[k] = <<x>>
    <2> PICK i : i = fs[f].body[k]
      OBVIOUS
    <2>1. i \in InstructionsOf(fs) /\ ss[k] = Own(Does(fs, i))
      BY <1>1
    <2>2. CASE ~IsWrapperCall(i)
      <3>1. Own(Does(fs, i)) = OwnOf(i)
        BY <2>1, <2>2, OwnDoes
      <3>2. OwnOf(i) = <<>> \/ \E x : OwnOf(i) = <<x>>
        BY DEF OwnOf
      <3> QED
        BY <2>1, <3>1, <3>2
    <2>3. CASE IsWrapperCall(i)
      <3>1. PICK g \in DOMAIN fs : fs[g].name = i.fn /\ IsWrapper(fs[g].name)
        BY <2>1, <2>3, OwnDoes
      <3>2. PICK c : Forwards(fs[g].body, c)
        BY <3>1, RunsIs
      <3>3. Own(Does(fs, i)) = <<Core(WithOperands(fs[g].body[c], i.args))>>
        BY <2>1, <2>3, <3>1, <3>2, OwnDoes
      <3> QED
        BY <2>1, <3>3
    <2> QED
      BY <2>2, <2>3
  <1>3. IsShort(ss, Len(fs[f].body))
    BY <1>1, <1>2 DEF IsShort
  <1> QED
    BY <1>1, <1>3 DEF Observed

LEMMA SameCalls ==
    ASSUME NEW i, NEW j, SameCore(i, j)
    PROVE  /\ IsWrapperCall(i) <=> IsWrapperCall(j)
           /\ OwnOf(i) = OwnOf(j)
           /\ IsAddition(i) <=> IsAddition(j)
  BY DEF SameCore, IsWrapperCall, OwnOf, Core, IsAddition, IsExtra

LEMMA ExtraIsNoCall ==
    ASSUME NEW i, IsExtra(i)
    PROVE  ~IsWrapperCall(i) /\ OwnOf(i) = <<>> /\ IsAddition(i)
  BY WrappersAreReserved DEF IsExtra, IsWrapperCall, OwnOf, IsAddition

\* Of the program, the same instruction does the same in both.
LEMMA DoesSame ==
    ASSUME NEW gs, NEW fs, Ordered(gs, fs), Runs(gs), Runs(fs),
           NEW i \in InstructionsOf(gs), NEW j \in InstructionsOf(fs), SameCore(i, j)
    PROVE  Own(Does(gs, i)) = Own(Does(fs, j))
  <1>1. (IsWrapperCall(i) <=> IsWrapperCall(j)) /\ OwnOf(i) = OwnOf(j)
    BY SameCalls
  <1>2. CASE ~IsWrapperCall(j)
    BY <1>1, <1>2, OwnDoes
  <1>3. CASE IsWrapperCall(j)
    <2>1. PICK g \in DOMAIN fs : fs[g].name = j.fn /\ IsWrapper(fs[g].name)
      BY <1>3, OwnDoes
    <2>2. i.fn = j.fn /\ i.args = j.args
      BY DEF SameCore
    <2>3. PICK to : Follows(to, gs[g].body, fs[g].body)
      BY <2>1 DEF Ordered
    <2>4. g \in DOMAIN gs /\ gs[g].name = i.fn
      BY <2>1, <2>2 DEF Ordered
    <2>5. PICK c : Forwards(fs[g].body, c)
      BY <2>1, RunsIs
    <2> PICK b, r, S, T : /\ b = fs[g].body /\ r = gs[g].body
                          /\ S = InstructionsOf(fs) /\ T = InstructionsOf(gs)
      OBVIOUS
    <2>6. b \in Seq(S) /\ r \in Seq(T) /\ \A x \in S \cup T : IsRecord(x)
      BY <2>1, <2>4, RunsIs
    <2>7. Len(b) \in Nat /\ Len(r) \in Nat /\ Follows(to, r, b) /\ Forwards(b, c)
      BY <2>3, <2>5, <2>6
    <2>8. Forwards(r, to[c])
      BY <2>7, ForwardsMore
    <2>9. /\ c \in 1 .. Len(b) /\ to[c] \in 1 .. Len(r) /\ SameCore(r[to[c]], b[c])
      BY <2>7 DEF Forwards, Follows, InOrder
    <2>10. IsRecord(b[c]) /\ IsRecord(r[to[c]])
      BY <2>6, <2>9
    <2>11. Own(Does(fs, j)) = <<Core(WithOperands(b[c], j.args))>>
      BY <1>3, <2>1, <2>7, OwnDoes
    <2>12. Own(Does(gs, i)) = <<Core(WithOperands(r[to[c]], i.args))>>
      BY <1>1, <1>3, <2>4, <2>8, OwnDoes
    <2>13. Core(WithOperands(r[to[c]], i.args)) = Core(WithOperands(b[c], j.args))
      BY <2>2, <2>9, <2>10, SameOperands
    <2> QED
      BY <2>11, <2>12, <2>13
  <1> QED
    BY <1>2, <1>3

\* Instructions of the passes, inserted anywhere, change no call of the
\* program.
LEMMA OrderedObserved ==
    ASSUME NEW gs, NEW fs, Ordered(gs, fs), Runs(gs), Runs(fs), NEW f \in DOMAIN fs
    PROVE  Observed(gs, f) = Observed(fs, f)
  <1>0. PICK b, r, m, n : /\ b = fs[f].body /\ r = gs[f].body /\ m = Len(b) /\ n = Len(r)
    OBVIOUS
  <1>1. PICK to : Follows(to, r, b)
    BY <1>0 DEF Ordered
  <1>1a. f \in DOMAIN gs
    BY DEF Ordered
  <1>2. PICK ss : ss = [k \in DOMAIN fs[f].body |-> Own(Does(fs, fs[f].body[k]))]
    OBVIOUS
  <1>3. PICK tt : tt = [k \in DOMAIN gs[f].body |-> Own(Does(gs, gs[f].body[k]))]
    OBVIOUS
  <1>4. /\ Observed(fs, f) = FlattenSeq(ss) /\ IsShort(ss, m)
        /\ m \in Nat /\ DOMAIN b = 1 .. m
    BY <1>0, <1>2, ObservedIs
  <1>5. /\ Observed(gs, f) = FlattenSeq(tt) /\ IsShort(tt, n)
        /\ n \in Nat /\ DOMAIN r = 1 .. n
    BY <1>0, <1>1a, <1>3, ObservedIs
  <1>6. /\ \A l \in 1 .. m : b[l] \in InstructionsOf(fs)
        /\ \A k \in 1 .. n : r[k] \in InstructionsOf(gs)
    BY <1>0, <1>1a, <1>4, <1>5, RunsIs, ModuleIs
  <1>7. /\ InOrder(to, m, n)
        /\ \A l \in 1 .. m : to[l] \in 1 .. n /\ SameCore(r[to[l]], b[l])
        /\ \A k \in 1 .. n : IsExtra(r[k]) \/ \E l \in 1 .. m : k = to[l]
    BY <1>0, <1>1 DEF Follows, InOrder
  <1>8. ASSUME NEW l \in 1 .. m PROVE tt[to[l]] = ss[l]
    <2>1. r[to[l]] \in InstructionsOf(gs) /\ b[l] \in InstructionsOf(fs)
      BY <1>6, <1>7
    <2>2. Own(Does(gs, r[to[l]])) = Own(Does(fs, b[l]))
      BY <1>7, <2>1, DoesSame
    <2>3. tt[to[l]] = Own(Does(gs, r[to[l]])) /\ ss[l] = Own(Does(fs, b[l]))
      BY <1>0, <1>2, <1>3, <1>4, <1>5, <1>7
    <2> QED
      BY <2>2, <2>3
  <1>9. ASSUME NEW k \in 1 .. n, IsExtra(r[k]) PROVE tt[k] = <<>>
    <2>1. ~IsWrapperCall(r[k]) /\ OwnOf(r[k]) = <<>>
      BY <1>9, ExtraIsNoCall
    <2>2. Own(Does(gs, r[k])) = <<>>
      BY <1>6, <2>1, OwnDoes
    <2> QED
      BY <1>0, <1>3, <1>5, <2>2
  <1>10. \A k \in 1 .. n : tt[k] = <<>> \/ \E l \in 1 .. m : k = to[l]
    BY <1>7, <1>9
  <1>11. FlattenSeq(tt) = FlattenSeq(ss)
    BY <1>4, <1>5, <1>7, <1>8, <1>10, ShortMoved
  <1> QED
    BY <1>4, <1>5, <1>11

\* Where the instructions of one module are in the other.
LEMMA OrderedPlaces ==
    ASSUME NEW gs, NEW fs, Ordered(gs, fs), NEW f \in DOMAIN fs
    PROVE  /\ f \in DOMAIN gs /\ gs[f].name = fs[f].name
           /\ \A k \in DOMAIN gs[f].body :
                \/ IsExtra(gs[f].body[k])
                \/ \E l \in DOMAIN fs[f].body : SameCore(gs[f].body[k], fs[f].body[l])
           /\ \A l \in DOMAIN fs[f].body :
                \E k \in DOMAIN gs[f].body : SameCore(gs[f].body[k], fs[f].body[l])
  <1>1. f \in DOMAIN gs /\ gs[f].name = fs[f].name /\ IsModule(gs) /\ IsModule(fs)
    BY DEF Ordered
  <1>2. PICK to : Follows(to, gs[f].body, fs[f].body)
    BY DEF Ordered
  <1>3. /\ DOMAIN gs[f].body = 1 .. Len(gs[f].body)
        /\ DOMAIN fs[f].body = 1 .. Len(fs[f].body)
    BY <1>1, ModuleIs
  <1>4. /\ \A l \in 1 .. Len(fs[f].body) :
             to[l] \in 1 .. Len(gs[f].body) /\ SameCore(gs[f].body[to[l]], fs[f].body[l])
        /\ \A k \in 1 .. Len(gs[f].body) :
             IsExtra(gs[f].body[k]) \/ \E l \in 1 .. Len(fs[f].body) : k = to[l]
    BY <1>2 DEF Follows, InOrder
  <1> QED
    BY <1>1, <1>3, <1>4

LEMMA InstructionIsIn ==
    ASSUME NEW fs, NEW i \in InstructionsOf(fs)
    PROVE  \E f \in DOMAIN fs : \E k \in DOMAIN fs[f].body : i = fs[f].body[k]
  BY DEF InstructionsOf, ToSet

\* The body that a wrapper has in the other module.
LEMMA OrderedBodies ==
    ASSUME NEW gs, NEW fs, Ordered(gs, fs), NEW f \in DOMAIN fs
    PROVE  (\E c : Forwards(gs[f].body, c)) <=> (\E c : Forwards(fs[f].body, c))
  <1>1. f \in DOMAIN gs /\ IsModule(gs) /\ IsModule(fs)
    BY DEF Ordered
  <1>2. PICK to : Follows(to, gs[f].body, fs[f].body)
    BY DEF Ordered
  <1>3. Len(gs[f].body) \in Nat /\ Len(fs[f].body) \in Nat
    BY <1>1, ModuleIs
  <1> PICK b, r : b = fs[f].body /\ r = gs[f].body
    OBVIOUS
  <1>4. Len(b) \in Nat /\ Len(r) \in Nat /\ Follows(to, r, b)
    BY <1>2, <1>3
  <1>5. ASSUME NEW c, Forwards(b, c) PROVE \E d : Forwards(r, d)
    BY <1>4, <1>5, ForwardsMore
  <1>6. ASSUME NEW d, Forwards(r, d) PROVE \E c : Forwards(b, c)
    BY <1>4, <1>6, ForwardsLess
  <1> QED
    BY <1>5, <1>6

\* A module that gets more instructions still runs.
LEMMA OrderedRuns ==
    ASSUME NEW gs, NEW fs, Ordered(gs, fs)
    PROVE  /\ Runs(fs) /\ (\A i \in InstructionsOf(gs) : IsRecord(i)) => Runs(gs)
           /\ Runs(gs) /\ (\A i \in InstructionsOf(fs) : IsRecord(i)) => Runs(fs)
  <1>1. IsModule(gs) /\ IsModule(fs) /\ DOMAIN gs = DOMAIN fs
    BY DEF Ordered
  <1>2. \A f \in DOMAIN fs : gs[f].name = fs[f].name
    BY DEF Ordered
  <1>3. /\ \A f \in DOMAIN fs : \A k \in DOMAIN fs[f].body : fs[f].body[k] \in InstructionsOf(fs)
        /\ \A f \in DOMAIN gs : \A k \in DOMAIN gs[f].body : gs[f].body[k] \in InstructionsOf(gs)
    BY <1>1, ModuleIs
  <1>4. ASSUME Runs(fs), \A i \in InstructionsOf(gs) : IsRecord(i)
        PROVE  Runs(gs)
    <2>1. \A f \in DOMAIN gs : IsWrapper(gs[f].name) => \E c : Forwards(gs[f].body, c)
      BY <1>1, <1>2, <1>4, RunsIs, OrderedBodies
    <2>2. \A f, g \in DOMAIN gs : gs[f].name = gs[g].name /\ IsWrapper(gs[f].name) => f = g
      BY <1>1, <1>2, <1>4, RunsIs
    <2>3. ASSUME NEW i \in InstructionsOf(gs), IsWrapperCall(i)
          PROVE  \E f \in DOMAIN gs : gs[f].name = i.fn
      <3>1. PICK f \in DOMAIN gs : \E k \in DOMAIN gs[f].body : i = gs[f].body[k]
        BY InstructionIsIn
      <3>2. PICK k \in DOMAIN gs[f].body : i = gs[f].body[k]
        BY <3>1
      <3>3. ~IsExtra(i)
        BY <2>3, ExtraIsNoCall
      <3>4. PICK l \in DOMAIN fs[f].body : SameCore(i, fs[f].body[l])
        BY <1>1, <3>2, <3>3, OrderedPlaces
      <3>5. IsWrapperCall(fs[f].body[l]) /\ fs[f].body[l].fn = i.fn
        BY <2>3, <3>4, SameCalls DEF SameCore
      <3>6. fs[f].body[l] \in InstructionsOf(fs)
        BY <1>1, <1>3
      <3>7. \E g \in DOMAIN fs : fs[g].name = fs[f].body[l].fn
        BY <1>4, <3>5, <3>6, RunsIs
      <3> QED
        BY <1>1, <1>2, <3>5, <3>7
    <2>4. ASSUME NEW f \in DOMAIN gs, ~IsWrapper(gs[f].name), NEW k \in DOMAIN gs[f].body
          PROVE  IsAddition(gs[f].body[k])
      <3>1. CASE IsExtra(gs[f].body[k])
        BY <3>1, ExtraIsNoCall
      <3>2. CASE ~IsExtra(gs[f].body[k])
        <4>1. PICK l \in DOMAIN fs[f].body : SameCore(gs[f].body[k], fs[f].body[l])
          BY <1>1, <3>2, OrderedPlaces
        <4>2. f \in DOMAIN fs /\ ~IsWrapper(fs[f].name)
          BY <1>1, <1>2, <2>4
        <4>3. IsAddition(fs[f].body[l])
          BY <1>4, <4>2, RunsIs
        <4> QED
          BY <4>1, <4>3, SameCalls
      <3> QED
        BY <3>1, <3>2
    <2> QED
      BY <1>1, <1>4, <2>1, <2>2, <2>3, <2>4 DEF Runs
  <1>5. ASSUME Runs(gs), \A i \in InstructionsOf(fs) : IsRecord(i)
        PROVE  Runs(fs)
    <2>1. \A f \in DOMAIN fs : IsWrapper(fs[f].name) => \E c : Forwards(fs[f].body, c)
      BY <1>1, <1>2, <1>5, RunsIs, OrderedBodies
    <2>2. \A f, g \in DOMAIN fs : fs[f].name = fs[g].name /\ IsWrapper(fs[f].name) => f = g
      BY <1>1, <1>2, <1>5, RunsIs
    <2>3. ASSUME NEW j \in InstructionsOf(fs), IsWrapperCall(j)
          PROVE  \E f \in DOMAIN fs : fs[f].name = j.fn
      <3>1. PICK f \in DOMAIN fs : \E l \in DOMAIN fs[f].body : j = fs[f].body[l]
        BY InstructionIsIn
      <3>2. PICK l \in DOMAIN fs[f].body : j = fs[f].body[l]
        BY <3>1
      <3>3. PICK k \in DOMAIN gs[f].body : SameCore(gs[f].body[k], j)
        BY <3>2, OrderedPlaces
      <3>4. IsWrapperCall(gs[f].body[k]) /\ gs[f].body[k].fn = j.fn
        BY <2>3, <3>3, SameCalls DEF SameCore
      <3>5. gs[f].body[k] \in InstructionsOf(gs)
        BY <1>1, <1>3
      <3>6. \E g \in DOMAIN gs : gs[g].name = gs[f].body[k].fn
        BY <1>5, <3>4, <3>5, RunsIs
      <3> QED
        BY <1>1, <1>2, <3>4, <3>6
    <2>4. ASSUME NEW f \in DOMAIN fs, ~IsWrapper(fs[f].name), NEW l \in DOMAIN fs[f].body
          PROVE  IsAddition(fs[f].body[l])
      <3>1. PICK k \in DOMAIN gs[f].body : SameCore(gs[f].body[k], fs[f].body[l])
        BY OrderedPlaces
      <3>2. f \in DOMAIN gs /\ ~IsWrapper(gs[f].name)
        BY <1>1, <1>2, <2>4
      <3>3. IsAddition(gs[f].body[k])
        BY <1>5, <3>2, RunsIs
      <3> QED
        BY <3>1, <3>3, SameCalls
    <2> QED
      BY <1>1, <1>5, <2>1, <2>2, <2>3, <2>4 DEF Runs
  <1> QED
    BY <1>4, <1>5

-----------------------------------------------------------------------------
(* What a visit and the removal of the marks do to the order               *)

\* A body is itself with nothing inserted.
LEMMA ItselfFollows ==
    ASSUME NEW b, Len(b) \in Nat
    PROVE  \E to : Follows(to, b, b)
  <1> PICK n : n = Len(b)
    OBVIOUS
  <1> PICK to : to = [k \in 1 .. n |-> k]
    OBVIOUS
  <1>1. InOrder(to, n, n)
    BY DEF InOrder
  <1>2. Follows(to, b, b)
    BY <1>1 DEF Follows, SameCore
  <1> QED
    BY <1>2

\* A body that a block is inserted in follows what it was.
LEMMA SplicedFollows ==
    ASSUME NEW b, NEW r, NEW before, NEW new, NEW n \in Nat, NEW m \in Nat, NEW p \in 1 .. n,
           n = Len(b), m = Len(before), IsSpliced(r, b, p, before, new),
           SameCore(new, b[p]), \A k \in 1 .. m : IsExtra(before[k])
    PROVE  \E to : Follows(to, r, b)
  <1>1. /\ Len(r) = n + m
        /\ \A k \in 1 .. p - 1 : r[k] = b[k]
        /\ \A k \in 1 .. m : r[p - 1 + k] = before[k]
        /\ r[p + m] = new
        /\ \A k \in p + 1 .. n : r[k + m] = b[k]
    BY DEF IsSpliced
  <1>2. PICK to : to = [l \in 1 .. n |-> IF l < p THEN l ELSE l + m]
    OBVIOUS
  <1>3. \A l \in 1 .. n : to[l] = IF l < p THEN l ELSE l + m
    BY <1>2
  <1>4. InOrder(to, n, n + m)
    BY <1>3 DEF InOrder
  <1>5. ASSUME NEW l \in 1 .. n PROVE SameCore(r[to[l]], b[l])
    <2>1. CASE l < p
      <3>1. l \in 1 .. p - 1 /\ to[l] = l
        BY <1>3, <2>1
      <3> QED
        BY <1>1, <3>1 DEF SameCore
    <2>2. CASE l = p
      <3>1. to[l] = p + m
        BY <1>3, <2>2
      <3> QED
        BY <1>1, <2>2, <3>1
    <2>3. CASE l > p
      <3>1. l \in p + 1 .. n /\ to[l] = l + m
        BY <1>3, <2>3
      <3> QED
        BY <1>1, <3>1 DEF SameCore
    <2> QED
      BY <2>1, <2>2, <2>3
  <1>6. ASSUME NEW k \in 1 .. n + m
        PROVE  IsExtra(r[k]) \/ \E l \in 1 .. n : k = to[l]
    <2>1. CASE k < p
      <3>1. k \in 1 .. n /\ to[k] = k
        BY <1>3, <2>1
      <3> QED
        BY <3>1
    <2>2. CASE k >= p /\ k < p + m
      <3>1. k - (p - 1) \in 1 .. m /\ k = p - 1 + (k - (p - 1))
        BY <2>2
      <3>2. r[k] = before[k - (p - 1)]
        BY <1>1, <3>1
      <3> QED
        BY <3>1, <3>2
    <2>3. CASE k >= p + m
      <3>1. k - m \in 1 .. n /\ to[k - m] = (k - m) + m /\ (k - m) + m = k
        BY <1>3, <2>3
      <3> QED
        BY <3>1
    <2> QED
      BY <2>1, <2>2, <2>3
  <1>7. Follows(to, r, b)
    BY <1>1, <1>4, <1>5, <1>6 DEF Follows
  <1> QED
    BY <1>7

\* Every pass that visits an instruction keeps the others where they were.
LEMMA VisitOrders ==
    ASSUME Positioned, at[2] <= Len(Body), NEW B, NEW before \in Seq(B), NEW new,
           Visit(before, new), \A i \in B : IsExtra(i), SameCore(new, Current)
    PROVE  Ordered(functions', functions)
  <1>1. /\ IsModule(functions) /\ at[1] \in DOMAIN functions
        /\ \A f \in DOMAIN functions : Len(functions[f].body) \in Nat
        /\ Body = functions[at[1]].body
    BY ModuleIs DEF Positioned, Body
  <1> PICK n, m, p : n = Len(Body) /\ m = Len(before) /\ p = at[2]
    OBVIOUS
  <1>2. n \in Nat /\ m \in Nat /\ p \in 1 .. n /\ Current = Body[p]
    BY <1>1 DEF Positioned, Current
  <1>3. /\ Positioned' /\ at'[1] = at[1]
        /\ DOMAIN functions' = DOMAIN functions
        /\ \A f \in DOMAIN functions : functions'[f].name = functions[f].name
        /\ \A f \in DOMAIN functions \ {at[1]} : functions'[f] = functions[f]
        /\ IsSpliced(Body', Body, p, before, new)
    BY VisitStep DEF IsSpliced
  <1>4. IsModule(functions') /\ Body' = functions'[at[1]].body
    BY <1>3 DEF Positioned, Body
  <1>5. \A k \in 1 .. m : IsExtra(before[k])
    OBVIOUS
  <1>6. \E to : Follows(to, Body', Body)
    <2> PICK b, r : b = Body /\ r = Body'
      OBVIOUS
    <2>1. /\ n = Len(b) /\ IsSpliced(r, b, p, before, new) /\ SameCore(new, b[p])
      BY <1>2, <1>3
    <2>2. \E to : Follows(to, r, b)
      BY <1>2, <1>5, <2>1, SplicedFollows
    <2> QED
      BY <2>2
  <1>7. ASSUME NEW f \in DOMAIN functions
        PROVE  \E to : Follows(to, functions'[f].body, functions[f].body)
    <2>1. CASE f = at[1]
      BY <1>1, <1>4, <1>6, <2>1
    <2>2. CASE f # at[1]
      <3>1. functions'[f].body = functions[f].body
        BY <1>3, <2>2
      <3> QED
        BY <1>1, <3>1, ItselfFollows
    <2> QED
      BY <2>1, <2>2
  <1> QED
    BY <1>1, <1>3, <1>4, <1>7 DEF Ordered

\* AddSources inserts casts and calls of intrinsics.
LEMMA InsertedAreAnnotations ==
    ASSUME NEW operands, NEW tags, NEW i \in Inserted(operands, tags)
    PROVE  IsAnnotation(i)
  <1>1. ASSUME NEW operand \in operands, i = Instruction("cast", "", <<operand>>)
        PROVE  IsAnnotation(i)
    <2> DEFINE name == ""
    <2>1. i = Instruction("cast", name, <<operand>>)
      BY <1>1
    <2> HIDE DEF name
    <2> QED
      BY <2>1, MadeInstruction DEF IsAnnotation, IsExtra, IsBufferCall
  <1>2. ASSUME NEW operand \in operands, i = SetModified(operand)
        PROVE  IsAnnotation(i)
    BY <1>2, MadeInstruction DEF IsAnnotation, IsBufferCall, IsExtra, SetModified, OwnFunctions
  <1>3. ASSUME NEW operand \in operands, NEW tag \in tags,
               i = Instruction("call", "add_tag", <<operand, <<"tag", tag>>>>)
        PROVE  IsAnnotation(i)
    BY <1>3, MadeInstruction DEF IsAnnotation, IsBufferCall, IsExtra, OwnFunctions
  <1> QED
    BY <1>1, <1>2, <1>3 DEF Inserted

\* AddSources keeps the program's instructions in order.
LEMMA AddSourcesOrders ==
    ASSUME PassesInv, AddSources
    PROVE  Ordered(functions', functions)
  <1>1. Positioned /\ at[2] <= Len(Body) /\ IsInstruction(Current)
    BY CurrentIs DEF PassesInv, ModuleInv, AddSources, Visiting
  <1>2. PICK operands : SourceBlocks(Current) \in Seq(Seq(Inserted(operands, SourceTags(Current))))
    BY <1>1, SourceBlocksType
  <1> PICK B, before : /\ B = Inserted(operands, SourceTags(Current))
                       /\ before = FlattenSeq(SourceBlocks(Current))
    OBVIOUS
  <1>3. Visit(before, Current) /\ before \in Seq(B)
    BY <1>2, AddSourcesVisit, FlattenType
  <1>4. \A i \in B : IsExtra(i)
    BY InsertedAreAnnotations DEF IsAnnotation
  <1>5. SameCore(Current, Current)
    BY DEF SameCore
  <1> QED
    BY <1>1, <1>3, <1>4, <1>5, VisitOrders

\* The block that AddLogging puts before the current instruction.
LoggerBlockHere ==
    LoggerBlockOf(LoggerInit, BufferLoggerCall(Body[at[2] - 1]), LoggerShutdown,
                  at[2], FunctionName, Current.op, at[2] > 1 /\ IsLogged(Body[at[2] - 1]))

\* AddLogging inserts calls of the logger.
LEMMA LoggerCallsAre ==
    ASSUME NEW i, i = LoggerInit \/ i = LoggerShutdown \/ \E call : i = BufferLoggerCall(call)
    PROVE  IsLoggerCall(i) /\ IsExtra(i)
  <1>1. ASSUME NEW fn, NEW args, i = Instruction("call", fn, args),
               fn \in {"clam_prov_logging_init", "clam_prov_logging_buffer",
                       "clam_prov_logging_shutdown"}
        PROVE  IsLoggerCall(i) /\ IsExtra(i)
    BY <1>1, MadeInstruction DEF IsLoggerCall, IsExtra, OwnFunctions
  <1> QED
    BY <1>1 DEF LoggerInit, LoggerShutdown, BufferLoggerCall

LEMMA LoggerBlockType ==
    ASSUME NEW i, NEW c, NEW l, NEW opens \in BOOLEAN, NEW logs \in BOOLEAN,
           NEW closes \in BOOLEAN
    PROVE  BlockOf(i, c, l, opens, logs, closes) \in Seq({i, c, l})
  <1> PICK S : S = {i, c, l}
    OBVIOUS
  <1>1. <<i>> \in Seq(S) /\ <<c>> \in Seq(S) /\ <<l>> \in Seq(S) /\ <<>> \in Seq(S)
    OBVIOUS
  <1> PICK x, y, z : /\ x = IF opens THEN <<i>> ELSE <<>>
                     /\ y = IF logs THEN <<c>> ELSE <<>>
                     /\ z = IF closes THEN <<l>> ELSE <<>>
    OBVIOUS
  <1>2. x \in Seq(S) /\ y \in Seq(S) /\ z \in Seq(S)
    BY <1>1
  <1>3. x \o y \in Seq(S)
    BY <1>2, Concat
  <1>4. (x \o y) \o z \in Seq(S)
    BY <1>2, <1>3, Concat
  <1> QED
    BY <1>4 DEF BlockOf

LEMMA AddLoggingVisit ==
    ASSUME AddLogging
    PROVE  /\ Visit(LoggerBlockHere, Current)
           /\ \E S : /\ LoggerBlockHere \in Seq(S)
                     /\ \A i \in S : IsLoggerCall(i) /\ IsExtra(i)
  <1>1. Visit(LoggerBlockHere, Current)
    BY DEF AddLogging, LoggerBlockHere, LoggerBlockOf, BlockOf, InsertBufferLoggerCall
  <1> PICK i, c, l : i = LoggerInit /\ c = BufferLoggerCall(Body[at[2] - 1]) /\ l = LoggerShutdown
    OBVIOUS
  <1> PICK opens \in BOOLEAN, logs \in BOOLEAN, closes \in BOOLEAN :
        /\ opens = (FunctionName = "main" /\ at[2] = 1)
        /\ logs = (at[2] > 1 /\ IsLogged(Body[at[2] - 1]))
        /\ closes = (FunctionName = "main" /\ Current.op = "ret")
    BY DEF IsLogged
  <1>2. LoggerBlockHere = BlockOf(i, c, l, opens, logs, closes)
    BY Zenon DEF LoggerBlockHere, LoggerBlockOf
  <1>3. LoggerBlockHere \in Seq({i, c, l})
    BY <1>2, LoggerBlockType
  <1>4. \A x \in {i, c, l} : IsLoggerCall(x) /\ IsExtra(x)
    BY LoggerCallsAre
  <1> QED
    BY <1>1, <1>3, <1>4

\* AddLogging keeps the program's instructions in order.
LEMMA AddLoggingOrders ==
    ASSUME PassesInv, AddLogging
    PROVE  Ordered(functions', functions)
  <1>1. Positioned /\ at[2] <= Len(Body)
    BY DEF PassesInv, ModuleInv, AddLogging, Visiting
  <1>2. PICK S : LoggerBlockHere \in Seq(S) /\ \A i \in S : IsExtra(i)
    BY AddLoggingVisit
  <1>3. PICK before : before = LoggerBlockHere
    OBVIOUS
  <1>4. before \in Seq(S) /\ Visit(before, Current)
    BY <1>2, <1>3, AddLoggingVisit
  <1>5. SameCore(Current, Current)
    BY DEF SameCore
  <1> QED
    BY <1>1, <1>2, <1>4, <1>5, VisitOrders

\* removeSources takes nothing of the program away.
LEMMA RemoveSourcesOrders ==
    ASSUME PassesInv, PassesInv', RemoveSources,
           \A i \in InstructionsOf(functions) : IsIntrinsic(i) => i.src = 0
    PROVE  Ordered(functions, functions')
  <1> DEFINE kept(f) == {k \in DOMAIN functions[f].body : ~IsIntrinsic(functions[f].body[k])}
             B == [f \in DOMAIN functions |-> AtPositions(functions[f].body, kept(f))]
             S == InstructionsOf(functions)
  <1>1. IsModule(functions) /\ IsModule(functions')
    BY DEF PassesInv, ModuleInv, Positioned
  <1>2. functions' = WithBodies(functions, B)
    BY DEF RemoveSources, WithBodies
  <1>3. ASSUME NEW f \in DOMAIN functions
        PROVE  /\ functions[f].body \in Seq(S)
               /\ B[f] \in Seq(S)
               /\ \E to : Chosen(to, B[f], functions[f].body, kept(f))
    <2>1. functions[f].body \in Seq(S)
      BY <1>1, ModuleIs
    <2>2. B[f] = AtPositions(functions[f].body, kept(f))
      OBVIOUS
    <2> HIDE DEF S, B, kept
    <2> QED
      BY <2>1, <2>2, AtPositionsChooses
  <1>4. HasBodies(functions', functions, B)
    <2>1. B \in [DOMAIN functions -> Seq(S)]
      <3>1. B = [f \in DOMAIN functions |-> B[f]]
        OBVIOUS
      <3> HIDE DEF B, S
      <3> QED
        BY <1>3, <3>1
    <2> HIDE DEF B, S
    <2> QED
      BY <1>1, <1>2, <2>1, NewBodies
  <1>5. ASSUME NEW f \in DOMAIN functions
        PROVE  \E to : Follows(to, functions[f].body, functions'[f].body)
    <2> PICK b, r, P : b = functions[f].body /\ r = B[f] /\ P = kept(f)
      OBVIOUS
    <2>1. r = functions'[f].body
      BY <1>4 DEF HasBodies
    <2>2. PICK to : Chosen(to, r, b, P)
      BY <1>3
    <2>3. b \in Seq(S)
      BY <1>3
    <2>4. ASSUME NEW k \in 1 .. Len(b), k \notin P PROVE IsExtra(b[k])
      <3>1. k \in DOMAIN b /\ b[k] \in S
        BY <2>3
      <3>2. IsIntrinsic(b[k])
        BY <2>4, <3>1
      <3>3. b[k].src = 0
        BY <3>1, <3>2
      <3> QED
        BY <3>2, <3>3 DEF IsIntrinsic, IsExtra, OwnFunctions
    <2> HIDE DEF B, S, kept
    <2>5. Follows(to, b, r)
      BY <2>2, <2>4 DEF Chosen, Follows, SameCore
    <2> QED
      BY <2>1, <2>5
  <1> HIDE DEF B
  <1>6. DOMAIN functions' = DOMAIN functions
        /\ \A f \in DOMAIN functions : functions'[f].name = functions[f].name
    BY <1>4 DEF HasBodies
  <1> QED
    BY <1>1, <1>5, <1>6 DEF Ordered

-----------------------------------------------------------------------------
(* The body of a new wrapper                                               *)

IsConcatenation(b, f, l, n, m) == b = f \o l /\ Len(f) = n /\ Len(l) = m

IsBoth(b, f, l, n, m) ==
    /\ \A k \in 1 .. n : b[k] = f[k]
    /\ \A k \in 1 .. m : b[n + k] = l[k]

LEMMA ConcatenationIs ==
    ASSUME NEW S, NEW f \in Seq(S), NEW l \in Seq(S), NEW b, NEW n, NEW m,
           IsConcatenation(b, f, l, n, m)
    PROVE  b \in Seq(S) /\ Len(b) = n + m /\ IsBoth(b, f, l, n, m)
  <1>0. b = f \o l /\ n = Len(f) /\ m = Len(l)
    BY DEF IsConcatenation
  <1>1. b \in Seq(S)
    <2>1. f \o l \in Seq(S)
      OBVIOUS
    <2> QED
      BY <1>0, <2>1
  <1>2. Len(b) = Len(f) + Len(l) /\ n = Len(f) /\ m = Len(l)
    <2>1. Len(f \o l) = Len(f) + Len(l)
      OBVIOUS
    <2> QED
      BY <1>0, <2>1
  <1>3. ASSUME NEW k \in 1 .. Len(f) PROVE b[k] = f[k]
    BY DEF IsConcatenation
  <1>4. ASSUME NEW k \in 1 .. Len(l) PROVE b[Len(f) + k] = l[k]
    BY DEF IsConcatenation
  <1> QED
    BY <1>1, <1>2, <1>3, <1>4 DEF IsBoth

Frames(b, x, mid, y, z) == b = (<<x>> \o mid) \o <<y, z>>

LEMMA Framed ==
    ASSUME NEW S, NEW x \in S, NEW mid \in Seq(S), NEW y \in S, NEW z \in S, NEW b,
           Frames(b, x, mid, y, z)
    PROVE  /\ b \in Seq(S) /\ Len(b) = Len(mid) + 3 /\ Len(mid) \in Nat
           /\ b[1] = x /\ b[Len(mid) + 2] = y /\ b[Len(mid) + 3] = z
           /\ \A k \in 1 .. Len(mid) : b[k + 1] = mid[k]
  <1>1. PICK one, two : one = <<x>> /\ two = <<y, z>>
    OBVIOUS
  <1>2. one \in Seq(S) /\ Len(one) = 1 /\ one[1] = x
    BY <1>1, OneOf
  <1>3. two \in Seq(S) /\ Len(two) = 2 /\ two[1] = y /\ two[2] = z
    BY <1>1, TwoOf
  <1>4. PICK n : n = Len(mid)
    OBVIOUS
  <1>5. PICK first : first = one \o mid
    OBVIOUS
  <1>6. /\ first \in Seq(S) /\ Len(first) = n + 1 /\ n \in Nat
        /\ first[1] = x /\ \A k \in 1 .. n : first[1 + k] = mid[k]
    <2>1. n \in Nat
      BY <1>4
    <2>2. IsConcatenation(first, one, mid, 1, n)
      BY <1>2, <1>4, <1>5 DEF IsConcatenation
    <2>3. first \in Seq(S) /\ Len(first) = 1 + n /\ IsBoth(first, one, mid, 1, n)
      BY <1>2, <2>2, ConcatenationIs
    <2>4. 1 \in 1 .. 1 /\ 1 + n = n + 1
      BY <2>1
    <2>5. first[1] = one[1]
      BY <2>3, <2>4 DEF IsBoth
    <2>6. \A k \in 1 .. n : first[1 + k] = mid[k]
      BY <2>3 DEF IsBoth
    <2> QED
      BY <1>2, <2>1, <2>3, <2>4, <2>5, <2>6
  <1>7. b = first \o two
    BY <1>1, <1>5 DEF Frames
  <1>8. /\ b \in Seq(S) /\ Len(b) = n + 1 + 2
        /\ \A k \in 1 .. n + 1 : b[k] = first[k]
        /\ \A k \in 1 .. 2 : b[n + 1 + k] = two[k]
    <2>1. IsConcatenation(b, first, two, n + 1, 2)
      BY <1>3, <1>6, <1>7 DEF IsConcatenation
    <2>2. b \in Seq(S) /\ Len(b) = n + 1 + 2 /\ IsBoth(b, first, two, n + 1, 2)
      BY <1>3, <1>6, <2>1, ConcatenationIs
    <2> QED
      BY <2>2 DEF IsBoth
  <1>9. b[1] = x
    BY <1>6, <1>8
  <1>10. b[n + 2] = y /\ b[n + 3] = z
    <2>3. 1 \in 1 .. 2 /\ 2 \in 1 .. 2
      OBVIOUS
    <2>4. b[n + 1 + 1] = two[1]
      BY <1>8, <2>3
    <2>5. b[n + 1 + 2] = two[2]
      BY <1>8, <2>3
    <2>1. b[n + 1 + 1] = y /\ b[n + 1 + 2] = z
      BY <1>3, <2>4, <2>5
    <2>2. n + 1 + 1 = n + 2 /\ n + 1 + 2 = n + 3
      BY <1>6
    <2> QED
      BY <2>1, <2>2
  <1>11. ASSUME NEW k \in 1 .. n PROVE b[k + 1] = mid[k]
    <2>1. k + 1 \in 1 .. n + 1 /\ k + 1 = 1 + k
      BY <1>6
    <2> QED
      BY <1>6, <1>8, <2>1
  <1>12. n + 1 + 2 = n + 3
    BY <1>6
  <1> QED
    BY <1>4, <1>6, <1>8, <1>9, <1>10, <1>11, <1>12

\* Marks before the call of a wrapper and a return after it hide nothing of
\* it.
LEMMA FramedForwards ==
    ASSUME NEW b, NEW n \in Nat, Len(b) = n + 3,
           b[1].op = "br", b[1].src = 0, b[n + 3].op = "ret", b[n + 3].src = 0,
           b[n + 2].op = "call", b[n + 2].src # 0, \A k \in 1 .. n : IsExtra(b[k + 1])
    PROVE  Forwards(b, n + 2)
  <1>1. ASSUME NEW k \in 1 .. n + 3
        PROVE  k = 1 \/ k = n + 2 \/ k = n + 3 \/ IsExtra(b[k])
    <2>1. k = 1 \/ k = n + 2 \/ k = n + 3 \/ (k - 1 \in 1 .. n /\ k = (k - 1) + 1)
      OBVIOUS
    <2> QED
      BY <2>1
  <1>2. ASSUME NEW k \in 1 .. n + 2 PROVE b[k].op # "ret"
    <2>1. k \in 1 .. n + 3 /\ k # n + 3
      OBVIOUS
    <2>2. k = 1 \/ k = n + 2 \/ IsExtra(b[k])
      BY <1>1, <2>1
    <2> QED
      BY <2>2 DEF IsExtra
  <1>3. n + 2 \in 1 .. n + 3
    OBVIOUS
  <1>4. \A k \in 1 .. n + 3 : k # n + 2 =>
          IsExtra(b[k]) \/ (b[k].src = 0 /\ b[k].op \in {"br", "ret"})
    BY <1>1
  <1> QED
    BY <1>2, <1>3, <1>4 DEF Forwards

\* The call in a wrapper is the original, with the parameters of the wrapper.
IsFormal(i, call) ==
    /\ IsRecord(i) /\ i.op = "call" /\ i.fn = call.fn /\ i.meta = call.meta
    /\ i.tags = call.tags /\ i.src = call.src
    /\ i.args = [k \in 1 .. Len(Signature[call.fn].params) |-> <<"param", k>>]

WrapperMarks(formal) ==
    [m \in DOMAIN Outputs |->
       Cast(formal, Outputs[m]) \o <<SetModified(formal.args[Outputs[m]])>>]

\* The operands of what is inserted are a sequence.
LEMMA InsertedOperands ==
    ASSUME NEW operands, NEW i \in Inserted(operands, {})
    PROVE  HasOperands(i)
  <1>1. ASSUME NEW operand \in operands, i = Instruction("cast", "", <<operand>>)
        PROVE  HasOperands(i)
    <2> DEFINE name == ""
    <2>1. i = Instruction("cast", name, <<operand>>)
      BY <1>1
    <2> HIDE DEF name
    <2>2. i.args = <<operand>>
      BY <2>1, MadeInstruction
    <2>3. i.args \in Seq({operand})
      BY <2>2
    <2> QED
      BY <2>3, SequenceOperands
  <1>2. ASSUME NEW operand \in operands, i = SetModified(operand)
        PROVE  HasOperands(i)
    <2>1. i.args = <<operand>>
      BY <1>2, MadeInstruction DEF SetModified
    <2>2. i.args \in Seq({operand})
      BY <2>1
    <2> QED
      BY <2>2, SequenceOperands
  <1> QED
    BY <1>1, <1>2 DEF Inserted

LEMMA WrapperMarksType ==
    ASSUME NEW formal, Outputs \in Seq(Nat)
    PROVE  \E B : /\ \A i \in B : IsAnnotation(i) /\ HasOperands(i)
                  /\ WrapperMarks(formal) \in Seq(Seq(B))
                  /\ \A m \in DOMAIN Outputs :
                       \E j \in 1 .. Len(WrapperMarks(formal)[m]) :
                         WrapperMarks(formal)[m][j] = SetModified(formal.args[Outputs[m]])
  <1> DEFINE operands == {Operand(formal, Outputs[m]) : m \in DOMAIN Outputs}
                           \cup {formal.args[Outputs[m]] : m \in DOMAIN Outputs}
             B == Inserted(operands, {})
             ss == WrapperMarks(formal)
  <1>1. DOMAIN Outputs = 1 .. Len(Outputs) /\ Len(Outputs) \in Nat
    OBVIOUS
  <1>2. ASSUME NEW m \in DOMAIN Outputs
        PROVE  /\ ss[m] \in Seq(B)
               /\ \E j \in 1 .. Len(ss[m]) : ss[m][j] = SetModified(formal.args[Outputs[m]])
    <2> PICK cast, mark, one : /\ cast = Cast(formal, Outputs[m])
                               /\ mark = SetModified(formal.args[Outputs[m]])
                               /\ one = <<mark>>
      OBVIOUS
    <2>1. cast \in Seq(B)
      <3>1. Operand(formal, Outputs[m]) \in operands
        OBVIOUS
      <3> HIDE DEF operands
      <3> QED
        BY <3>1, InsertedType
    <2>2. mark \in B
      <3>1. formal.args[Outputs[m]] \in operands
        OBVIOUS
      <3> HIDE DEF operands
      <3> QED
        BY <3>1 DEF Inserted
    <2>3. ss[m] = cast \o one
      BY DEF WrapperMarks
    <2> HIDE DEF B, ss
    <2>4. one \in Seq(B) /\ Len(one) = 1 /\ one[1] = mark
      BY <2>2, OneOf
    <2>5. /\ cast \o one \in Seq(B) /\ Len(cast \o one) = Len(cast) + 1 /\ Len(cast) \in Nat
          /\ (cast \o one)[Len(cast) + 1] = one[1]
      BY <2>1, <2>4, Concat
    <2>6. Len(cast) + 1 \in 1 .. Len(cast) + 1
      BY <2>5
    <2> QED
      BY <2>3, <2>4, <2>5, <2>6
  <1>3. ss = [m \in DOMAIN Outputs |-> ss[m]]
    BY DEF WrapperMarks
  <1>4. \A i \in B : IsAnnotation(i) /\ HasOperands(i)
    <2> HIDE DEF operands
    <2> QED
      BY InsertedAreAnnotations, InsertedOperands
  <1> HIDE DEF B, ss
  <1>5. PICK Q, l : Q = Seq(B) /\ l = Len(Outputs)
    OBVIOUS
  <1>6. l \in Nat /\ ss = [m \in 1 .. l |-> ss[m]] /\ \A m \in 1 .. l : ss[m] \in Q
    BY <1>1, <1>2, <1>3, <1>5
  <1>7. ss \in [1 .. l -> Q]
    BY <1>6
  <1>8. ss \in Seq(Seq(B))
    BY <1>5, <1>6, <1>7
  <1> QED
    BY <1>2, <1>4, <1>8 DEF ss

LEMMA WrapperBodyParts ==
    ASSUME NEW call, NEW addr
    PROVE  LET formal == AsFormal(call, addr,
                           [k \in 1 .. Len(Signature[call.fn].params) |-> <<"param", k>>])
           IN  WrapperBody(call, addr) =
                 (<<Instruction("br", "", <<>>)>> \o FlattenSeq(WrapperMarks(formal)))
                   \o <<formal, Instruction("ret", "", <<>>)>>
  BY Zenon DEF WrapperBody, WrapperMarks, AsFormal

Marked(b, c, operand) == \E j \in 1 .. c - 1 : b[j] = SetModified(operand)

\* Nothing beside the call is logged, all operands are sequences, and the body
\* ends with a return.
IsFrame(b, c) ==
    /\ b[Len(b)].op = "ret"
    /\ \A k \in 1 .. Len(b) : k # c => ~IsBufferCall(b[k]) /\ HasOperands(b[k])

\* The body that WrapSinks makes passes the call on, and marks what it sends
\* out.
LEMMA WrapperBodyHolds ==
    ASSUME NEW call, IsInstruction(call), call.src # 0, Outputs \in Seq(Nat), NEW addr,
           NEW b, b = WrapperBody(call, addr)
    PROVE  \E c : /\ Forwards(b, c) /\ IsFormal(b[c], call) /\ IsFrame(b, c)
                  /\ \A m \in DOMAIN Outputs : Marked(b, c, b[c].args[Outputs[m]])
  <1>1. PICK formals : formals = [k \in 1 .. Len(Signature[call.fn].params) |-> <<"param", k>>]
    OBVIOUS
  <1>2. PICK formal : formal = AsFormal(call, addr, formals)
    OBVIOUS
  <1>3. PICK br, ret : br = Instruction("br", "", <<>>) /\ ret = Instruction("ret", "", <<>>)
    OBVIOUS
  <1>4. PICK ss : ss = WrapperMarks(formal)
    OBVIOUS
  <1>5. PICK mid : mid = FlattenSeq(ss)
    OBVIOUS
  <1>6. b = (<<br>> \o mid) \o <<formal, ret>>
    BY <1>1, <1>2, <1>3, <1>4, <1>5, WrapperBodyParts
  <1>7. IsFormal(formal, call) /\ formal.args = formals
    BY <1>1, <1>2, AsFormalIs DEF IsInstruction, IsFormal
  <1>8. /\ br.op = "br" /\ br.src = 0 /\ ret.op = "ret" /\ ret.src = 0
        /\ HasOperands(br) /\ HasOperands(ret)
    <2>1. PICK name : name = ""
      OBVIOUS
    <2>2. br = Instruction("br", name, <<>>) /\ ret = Instruction("ret", name, <<>>)
      BY <1>3, <2>1
    <2>3. br.args = <<>> /\ ret.args = <<>>
      BY <2>2, MadeInstruction
    <2>4. HasOperands(br) /\ HasOperands(ret)
      BY <2>3, NoOperands
    <2> QED
      BY <2>2, <2>4, MadeInstruction
  <1>9. PICK B : /\ \A i \in B : IsAnnotation(i) /\ HasOperands(i)
                 /\ ss \in Seq(Seq(B))
                 /\ \A m \in DOMAIN Outputs :
                      \E j \in 1 .. Len(ss[m]) : ss[m][j] = SetModified(formal.args[Outputs[m]])
    BY <1>4, WrapperMarksType
  <1>10. mid \in Seq(B) /\ \E off : Places(off, mid, ss, Len(ss))
    BY <1>5, <1>9, FlattenType, FlattenPlaces
  <1>11. PICK n : n = Len(mid)
    OBVIOUS
  <1>12. /\ Len(b) = n + 3 /\ n \in Nat
         /\ b[1] = br /\ b[n + 2] = formal /\ b[n + 3] = ret
         /\ \A k \in 1 .. n : b[k + 1] = mid[k]
    <2>1. PICK S : S = B \cup {br, formal, ret}
      OBVIOUS
    <2>2. br \in S /\ formal \in S /\ ret \in S /\ B \subseteq S
      BY <2>1
    <2>3. mid \in Seq(S)
      BY <1>10, <2>2, SeqMonotonic
    <2> QED
      BY <1>6, <1>11, <2>2, <2>3, Framed DEF Frames
  <1>13. Forwards(b, n + 2)
    <2>1. \A k \in 1 .. n : IsExtra(b[k + 1])
      BY <1>9, <1>10, <1>11, <1>12 DEF IsAnnotation
    <2>2. b[n + 2].op = "call" /\ b[n + 2].src # 0
      BY <1>7, <1>12 DEF IsFormal
    <2> QED
      BY <1>8, <1>12, <2>1, <2>2, FramedForwards
  <1>14. ASSUME NEW m \in DOMAIN Outputs
         PROVE  Marked(b, n + 2, b[n + 2].args[Outputs[m]])
    <2>1. PICK j \in 1 .. Len(ss[m]) : ss[m][j] = SetModified(formal.args[Outputs[m]])
      BY <1>9
    <2>2. PICK off : Places(off, mid, ss, Len(ss))
      BY <1>10
    <2>3. m \in 1 .. Len(ss) /\ Len(ss[m]) \in Nat
      <3>1. DOMAIN ss = DOMAIN Outputs
        BY <1>4 DEF WrapperMarks
      <3> QED
        BY <1>9, <3>1
    <2>4. off[m] \in Nat /\ off[m] + Len(ss[m]) <= n /\ mid[off[m] + j] = ss[m][j]
      BY <1>11, <2>2, <2>3 DEF Places
    <2>5. PICK k : k = off[m] + j
      OBVIOUS
    <2>8. j \in Nat /\ j >= 1 /\ j <= Len(ss[m])
      BY <2>3
    <2>9. PICK o, s : o = off[m] /\ s = Len(ss[m])
      OBVIOUS
    <2>10. o \in Nat /\ s \in Nat /\ j \in Nat /\ j >= 1 /\ j <= s /\ o + s <= n
           /\ k = o + j /\ n \in Nat
      BY <1>12, <2>3, <2>4, <2>5, <2>8, <2>9
    <2>6. k \in 1 .. n /\ k + 1 \in 1 .. n + 2 - 1
      BY <2>10
    <2>7. b[k + 1] = SetModified(formal.args[Outputs[m]])
      BY <1>12, <2>1, <2>4, <2>5, <2>6
    <2> QED
      BY <1>12, <2>6, <2>7 DEF Marked
  <1>15. IsFormal(b[n + 2], call)
    BY <1>7, <1>12
  <1>16. PICK c : c = n + 2
    OBVIOUS
  <1>19. ASSUME NEW k \in 1 .. Len(b), k # c PROVE ~IsBufferCall(b[k]) /\ HasOperands(b[k])
    <2>1. k = 1 \/ k = n + 3 \/ (k - 1 \in 1 .. n /\ k = (k - 1) + 1)
      BY <1>12, <1>16, <1>19
    <2>2. CASE k = 1 \/ k = n + 3
      BY <1>8, <1>12, <2>2 DEF IsBufferCall
    <2>3. CASE k - 1 \in 1 .. n /\ k = (k - 1) + 1
      <3>1. b[k] = mid[k - 1] /\ mid[k - 1] \in B
        BY <1>10, <1>11, <1>12, <2>3
      <3> QED
        BY <1>9, <3>1 DEF IsAnnotation
    <2> QED
      BY <2>1, <2>2, <2>3
  <1>20. b[Len(b)].op = "ret"
    BY <1>8, <1>12
  <1>17. Forwards(b, c) /\ IsFormal(b[c], call) /\ IsFrame(b, c)
    BY <1>13, <1>15, <1>16, <1>19, <1>20 DEF IsFrame
  <1>18. ASSUME NEW m \in DOMAIN Outputs
         PROVE  Marked(b, c, b[c].args[Outputs[m]])
    BY <1>14, <1>16
  <1> QED
    BY <1>17, <1>18

=============================================================================
