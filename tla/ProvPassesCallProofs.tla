------------------------ MODULE ProvPassesCallProofs ------------------------
(***************************************************************************)
(* Where the calls of the program are: each call-site keeps its number     *)
(* from AddMetadata to the end, on one instruction, and after WrapSinks    *)
(* every sink is in a wrapper of its own.                                  *)
(*                                                                         *)
(* Most steps only move instructions, insert some that are clam-prov's     *)
(* own and erase those again (Rearranged), and that keeps everything that  *)
(* is said here.  What remains is AddMetadata, which puts the numbers, and *)
(* WrapSinks, which moves a call to another function.                      *)
(***************************************************************************)
EXTENDS ProvPassesProofs

\* No two instructions come from one instruction of the input.
SourcesOnce(fs) ==
    \A f, g \in DOMAIN fs : \A k \in DOMAIN fs[f].body, l \in DOMAIN fs[g].body :
      fs[f].body[k].src = fs[g].body[l].src /\ fs[f].body[k].src # 0 => f = g /\ k = l

\* The module that the passes work on.
InputInv == Clean(input)

\* Before AddMetadata the module is the input.
Untouched == {"start", "print", "configure"}

UntouchedInv ==
    pass \in Untouched =>
      functions = input /\ function_infos = <<>> /\ call_site_counter = 0

\* Number id is that of the call-site src.
IsNumberOf(id, src) ==
    \E p \in CallSites :
      input[p[1]].body[p[2]].src = src /\ id = Cardinality(CallSitesBefore(p))

IsSiteOnce(i) ==
    /\ i.meta # {} => i.src # 0 /\ i.fn \notin Reserved
    /\ \A id \in CallSiteIds(i) : IsNumberOf(id, i.src)

NumbersInv ==
    /\ SourcesOnce(functions)
    /\ DOMAIN function_infos \cap Reserved = {}
    /\ \A i \in InstructionsOf(functions) : IsSiteOnce(i)
    /\ pass \notin {"configure", "add_metadata"} =>
         \A i \in InstructionsOf(functions) :
           IsDirectCall(i) /\ i.fn \in DOMAIN function_infos => i.meta # {}

\* AddMetadata has been there.
Passed(f, k) == f < at[1] \/ (f = at[1] /\ k < at[2])

\* Two modules that differ in operands and metadata at most.
LookAlike(gs, fs) ==
    /\ DOMAIN gs = DOMAIN fs /\ Len(gs) = Len(fs)
    /\ \A f \in DOMAIN fs :
         /\ gs[f].name = fs[f].name
         /\ DOMAIN gs[f].body = DOMAIN fs[f].body
         /\ \A k \in DOMAIN fs[f].body :
              LET i == gs[f].body[k]
                  j == fs[f].body[k]
              IN  i.op = j.op /\ i.fn = j.fn /\ i.src = j.src /\ i.tags = j.tags

\* In AddMetadata the module is the input, but for the metadata in front of the
\* position; the next number is that of the next call-site.
IsNumberedUpTo(f, k) ==
    IF Passed(f, k) THEN <<f, k>> \in CallSites => functions[f].body[k].meta # {}
                    ELSE functions[f].body[k].meta = {}

AddingInv ==
    pass = "add_metadata" =>
      /\ call_site_counter = Cardinality(CallSitesBefore(at))
      /\ LookAlike(functions, input)
      /\ \A f \in DOMAIN functions : \A k \in DOMAIN functions[f].body : IsNumberedUpTo(f, k)

\* Instruction k of function f is a call of the function with this name.
Calls(fs, name, f, k) ==
    /\ f \in DOMAIN fs /\ k \in DOMAIN fs[f].body
    /\ IsDirectCall(fs[f].body[k]) /\ fs[f].body[k].fn = name

\* The functions are n wrappers more than m; each wrapper has at most one
\* instruction of the input, and there is one call of it.
HasWrappers(fs, m, n) ==
    /\ Len(fs) = m + n
    /\ \A f \in 1 .. m : fs[f].name \notin ToSet(WrapperName)
    /\ \A w \in 1 .. n :
         /\ fs[m + w].name = WrapperName[w]
         /\ \A k, l \in DOMAIN fs[m + w].body :
              fs[m + w].body[k].src # 0 /\ fs[m + w].body[l].src # 0 => k = l
         /\ \E f, k : Calls(fs, WrapperName[w], f, k)
    /\ \A name \in ToSet(WrapperName) : \A f, g, k, l :
         Calls(fs, name, f, k) /\ Calls(fs, name, g, l) => f = g /\ k = l
    /\ \A w \in n + 1 .. Len(WrapperName) : \A f, k : ~Calls(fs, WrapperName[w], f, k)

WrapperInv == HasWrappers(functions, Len(input), wrappers)

BeforeWrapping == {"start", "print", "configure", "add_metadata", "add_sources"}

\* A sink is in front of the position only when it is on the list.
IsFound(f, k) ==
    LET i == functions[f].body[k] IN
    IsSink(i) =>
      /\ f >= at[1]
      /\ IF Passed(f, k) THEN \E n \in 1 .. Len(calls_to_wrap) : calls_to_wrap[n] = i.addr
                         ELSE i.addr \notin DOMAIN output_param_map

\* Where the sinks are in the functions of the input.
SinksInv ==
    /\ pass \in BeforeWrapping => wrappers = 0 /\ output_param_map = <<>>
    /\ pass = "wrap_sinks" =>
         \A f \in DOMAIN input : \A k \in DOMAIN functions[f].body : IsFound(f, k)
    /\ pass \in Wrapped =>
         \A f \in DOMAIN input : \A k \in DOMAIN functions[f].body : ~IsSink(functions[f].body[k])

CallsInv ==
    /\ InputInv
    /\ UntouchedInv
    /\ NumbersInv
    /\ AddingInv
    /\ WrapperInv
    /\ SinksInv

-----------------------------------------------------------------------------
(* Instructions that move                                                  *)

\* A pass may change operands, tags and the address of a call.
IsKept(i, j) == i.op = j.op /\ i.fn = j.fn /\ i.meta = j.meta /\ i.src = j.src

\* The instruction at place l of function f of fs is at place to[f][l] of gs, and
\* what was not there before is clam-prov's own.  Only what is clam-prov's own
\* may be gone.
MovedTo(to, gs, fs) ==
    \A f \in DOMAIN fs :
      /\ \A k \in DOMAIN gs[f].body :
           \/ IsMade(gs[f].body[k])
           \/ \E l \in DOMAIN fs[f].body :
                k = to[f][l] /\ IsKept(gs[f].body[k], fs[f].body[l])
      /\ \A l \in DOMAIN fs[f].body : fs[f].body[l].fn \notin OwnFunctions =>
           /\ to[f][l] \in DOMAIN gs[f].body
           /\ IsKept(gs[f].body[to[f][l]], fs[f].body[l])

Rearranged(gs, fs) ==
    /\ IsModule(gs) /\ IsModule(fs)
    /\ DOMAIN gs = DOMAIN fs /\ Len(gs) = Len(fs)
    /\ \A f \in DOMAIN fs : gs[f].name = fs[f].name
    /\ \E to : MovedTo(to, gs, fs)

LEMMA SameLength ==
    ASSUME NEW fs, IsModule(fs), NEW gs, IsModule(gs), DOMAIN gs = DOMAIN fs
    PROVE  Len(gs) = Len(fs)
  <1>1. Len(fs) \in Nat /\ Len(gs) \in Nat /\ 1 .. Len(gs) = 1 .. Len(fs)
    BY ModuleIs
  <1>2. \A m, n \in Nat : 1 .. m = 1 .. n => m = n
    <2> TAKE m, n \in Nat
    <2> HAVE 1 .. m = 1 .. n
    <2>1. m = 0 \/ m \in 1 .. m
      OBVIOUS
    <2>2. n = 0 \/ n \in 1 .. n
      OBVIOUS
    <2> QED
      BY <2>1, <2>2
  <1> QED
    BY <1>1, <1>2

\* A visit that changes nothing but what may change.
LEMMA VisitMoves ==
    ASSUME Positioned, at[2] <= Len(Body), NEW B, NEW before \in Seq(B), NEW new,
           Visit(before, new), \A i \in B : IsMade(i), IsKept(new, Current)
    PROVE  Rearranged(functions', functions)
  <1> PICK p, m, n : p = at[2] /\ m = Len(before) /\ n = Len(Body)
    OBVIOUS
  <1>1. /\ DOMAIN functions' = DOMAIN functions
        /\ \A f \in DOMAIN functions \ {at[1]} : functions'[f] = functions[f]
        /\ \A f \in DOMAIN functions : functions'[f].name = functions[f].name
        /\ Len(Body') = n + m
        /\ \A k \in 1 .. p - 1 : Body'[k] = Body[k]
        /\ \A k \in 1 .. m : Body'[p - 1 + k] = before[k]
        /\ Body'[p + m] = new
        /\ \A k \in p + 1 .. n : Body'[k + m] = Body[k]
        /\ IsModule(functions') /\ at'[1] = at[1]
    BY VisitStep, SMTT(30) DEF Positioned
  <1>2. /\ DOMAIN before = 1 .. m /\ m \in Nat
        /\ at[1] \in DOMAIN functions /\ IsModule(functions)
        /\ DOMAIN Body = 1 .. n /\ n \in Nat /\ p \in 1 .. n
    <2>1. at[1] \in DOMAIN functions /\ IsModule(functions)
      BY DEF Positioned
    <2>2. DOMAIN Body = 1 .. n /\ n \in Nat
      BY <2>1, ModuleIs DEF Body
    <2> QED
      BY <2>1, <2>2 DEF Positioned
  <1>3. functions[at[1]].body = Body /\ functions'[at[1]].body = Body' /\ DOMAIN Body' = 1 .. n + m
    <2>1. functions[at[1]].body = Body /\ functions'[at[1]].body = Body'
      BY <1>1 DEF Body
    <2>2. DOMAIN Body' = 1 .. Len(Body')
      BY <1>1, <1>2, <2>1, ModuleIs
    <2> QED
      BY <1>1, <2>1, <2>2
  <1> PICK to : to = [f \in DOMAIN functions |->
                        [l \in DOMAIN functions[f].body |->
                           IF f # at[1] \/ l < p THEN l ELSE l + m]]
    OBVIOUS
  <1>4. \A f \in DOMAIN functions : \A l \in DOMAIN functions[f].body :
          to[f][l] = IF f # at[1] \/ l < p THEN l ELSE l + m
    OBVIOUS
  <1>5. \A i : IsKept(i, i)
    BY DEF IsKept
  <1>6. ASSUME NEW f \in DOMAIN functions, f # at[1]
        PROVE  /\ \A k \in DOMAIN functions'[f].body :
                    \E l \in DOMAIN functions[f].body :
                      k = to[f][l] /\ IsKept(functions'[f].body[k], functions[f].body[l])
               /\ \A l \in DOMAIN functions[f].body :
                    /\ to[f][l] \in DOMAIN functions'[f].body
                    /\ IsKept(functions'[f].body[to[f][l]], functions[f].body[l])
    <2>1. functions'[f] = functions[f]
      BY <1>1, <1>6
    <2>2. \A l \in DOMAIN functions[f].body : to[f][l] = l
      BY <1>4, <1>6
    <2> QED
      BY <1>5, <2>1, <2>2
  <1> PICK b, r, q : b = Body /\ r = Body' /\ q = to[at[1]]
    OBVIOUS
  <1>7. /\ \A l \in 1 .. n : q[l] = IF l < p THEN l ELSE l + m
        /\ \A k \in 1 .. p - 1 : r[k] = b[k]
        /\ \A k \in 1 .. m : r[p - 1 + k] = before[k]
        /\ IsKept(r[p + m], b[p])
        /\ \A k \in p + 1 .. n : r[k + m] = b[k]
        /\ p \in 1 .. n /\ n \in Nat /\ m \in Nat
    BY <1>1, <1>2, <1>3, <1>4 DEF Current
  <1>8. ASSUME NEW l \in 1 .. n
        PROVE  q[l] \in 1 .. n + m /\ IsKept(r[q[l]], b[l])
    <2>1. l < p \/ l = p \/ l \in p + 1 .. n
      BY <1>7
    <2>2. CASE l < p
      <3>1. l \in 1 .. p - 1 /\ l \in 1 .. n + m
        BY <1>7, <2>2
      <3>2. q[l] = l /\ r[l] = b[l]
        BY <1>7, <2>2, <3>1
      <3> QED
        BY <1>5, <3>1, <3>2
    <2>3. CASE l = p
      <3>1. p + m \in 1 .. n + m
        BY <1>7
      <3>2. q[p] = p + m
        <4>1. p \in 1 .. n /\ ~(p < p)
          BY <1>7
        <4>2. q[p] = IF p < p THEN p ELSE p + m
          BY <1>7, <4>1, Zenon
        <4> QED
          BY <4>1, <4>2
      <3> QED
        BY <1>7, <2>3, <3>1, <3>2
    <2>4. CASE l \in p + 1 .. n
      <3>1. l + m \in 1 .. n + m /\ ~(l < p)
        BY <1>7, <2>4
      <3>2. q[l] = l + m
        BY <1>7, <3>1
      <3>3. r[l + m] = b[l]
        BY <1>7, <2>4
      <3> QED
        BY <1>5, <3>1, <3>2, <3>3
    <2> QED
      BY <2>1, <2>2, <2>3, <2>4
  <1>9. ASSUME NEW k \in 1 .. n + m
        PROVE  IsMade(r[k]) \/ \E l \in 1 .. n : k = q[l]
    <2>1. k < p \/ k - p + 1 \in 1 .. m \/ k - m \in p .. n
      BY <1>7
    <2>2. CASE k < p
      <3>1. k \in 1 .. n
        BY <1>7, <2>2
      <3>2. q[k] = k
        BY <1>7, <2>2, <3>1
      <3> QED
        BY <3>1, <3>2
    <2>3. CASE k - p + 1 \in 1 .. m
      <3>1. p - 1 + (k - p + 1) = k
        BY <1>7
      <3>2. r[p - 1 + (k - p + 1)] = before[k - p + 1]
        BY <1>7, <2>3
      <3>3. before[k - p + 1] \in B
        BY <1>2, <2>3
      <3> QED
        BY <3>1, <3>2, <3>3
    <2>4. CASE k - m \in p .. n
      <3>1. k - m \in 1 .. n /\ ~(k - m < p) /\ (k - m) + m = k
        BY <1>7, <2>4
      <3>2. q[k - m] = (k - m) + m
        BY <1>7, <3>1
      <3> QED
        BY <3>1, <3>2
    <2> QED
      BY <2>1, <2>2, <2>3, <2>4
  <1>10. MovedTo(to, functions', functions)
    <2> SUFFICES ASSUME NEW f \in DOMAIN functions
                 PROVE  /\ \A k \in DOMAIN functions'[f].body :
                             \/ IsMade(functions'[f].body[k])
                             \/ \E l \in DOMAIN functions[f].body :
                                  /\ k = to[f][l]
                                  /\ IsKept(functions'[f].body[k], functions[f].body[l])
                        /\ \A l \in DOMAIN functions[f].body :
                             /\ to[f][l] \in DOMAIN functions'[f].body
                             /\ IsKept(functions'[f].body[to[f][l]], functions[f].body[l])
      BY DEF MovedTo
    <2>1. CASE f # at[1]
      BY <1>6, <2>1
    <2>2. CASE f = at[1]
      <3>1. /\ functions[f].body = b /\ functions'[f].body = r /\ to[f] = q
            /\ DOMAIN b = 1 .. n /\ DOMAIN r = 1 .. n + m
        BY <1>2, <1>3, <2>2
      <3>2. \A k \in 1 .. n + m : IsMade(r[k]) \/ \E l \in 1 .. n : k = q[l] /\ IsKept(r[k], b[l])
        <4> TAKE k \in 1 .. n + m
        <4>1. CASE \E l \in 1 .. n : k = q[l]
          <5>1. PICK l \in 1 .. n : k = q[l]
            BY <4>1
          <5> QED
            BY <1>8, <5>1
        <4> QED
          BY <1>9, <4>1
      <3>3. \A l \in 1 .. n : q[l] \in 1 .. n + m /\ IsKept(r[q[l]], b[l])
        BY <1>8
      <3> QED
        <4> DEFINE Goal(x, y, z) ==
              /\ \A k \in DOMAIN x : IsMade(x[k]) \/ \E l \in DOMAIN y : k = z[l] /\ IsKept(x[k], y[l])
              /\ \A l \in DOMAIN y : z[l] \in DOMAIN x /\ IsKept(x[z[l]], y[l])
        <4>1. Goal(r, b, q)
          BY <3>1, <3>2, <3>3, Zenon
        <4> HIDE DEF Goal
        <4>2. Goal(functions'[f].body, functions[f].body, to[f])
          BY <3>1, <4>1
        <4> QED
          BY <4>2, Zenon DEF Goal
    <2> QED
      BY <2>1, <2>2
  <1> QED
    BY <1>1, <1>2, <1>10, SameLength DEF Rearranged

\* r has the elements of s at the positions P up to m, that of position l at to[l].
PickedUpTo(r, s, P, to, m) ==
    /\ \A k \in 1 .. Len(r) : \E l \in 1 .. m : l \in P /\ k = to[l] /\ r[k] = s[l]
    /\ \A l \in 1 .. m : l \in P => to[l] \in 1 .. Len(r) /\ r[to[l]] = s[l]

LEMMA Appended ==
    ASSUME NEW S, NEW g \in Seq(S), NEW x \in S
    PROVE  /\ g \o <<x>> \in Seq(S)
           /\ Len(g \o <<x>>) = Len(g) + 1 /\ (g \o <<x>>)[Len(g) + 1] = x
           /\ \A k \in 1 .. Len(g) : (g \o <<x>>)[k] = g[k]
           /\ \A k \in 1 .. Len(g) + 1 : k \in 1 .. Len(g) \/ k = Len(g) + 1
           /\ Len(g) + 1 \in 1 .. Len(g) + 1 /\ \A k \in 1 .. Len(g) : k \in 1 .. Len(g) + 1
  OBVIOUS

LEMMA PickOne ==
    ASSUME NEW S, NEW g \in Seq(S), NEW s, NEW P, NEW to, NEW m \in Nat, NEW x \in S,
           PickedUpTo(g, s, P, to, m),
           m + 1 \in P, to[m + 1] = Len(g) + 1, x = s[m + 1]
    PROVE  PickedUpTo(g \o <<x>>, s, P, to, m + 1)
  <1> PICK h, n : h = g \o <<x>> /\ n = Len(g)
    OBVIOUS
  <1>1. /\ Len(h) = n + 1 /\ h[n + 1] = x /\ \A k \in 1 .. n : h[k] = g[k]
        /\ \A k \in 1 .. n + 1 : k \in 1 .. n \/ k = n + 1
        /\ n + 1 \in 1 .. n + 1 /\ \A k \in 1 .. n : k \in 1 .. n + 1
    BY Appended
  <1>2. /\ \A k \in 1 .. n : \E l \in 1 .. m : l \in P /\ k = to[l] /\ g[k] = s[l]
        /\ \A l \in 1 .. m : l \in P => to[l] \in 1 .. n /\ g[to[l]] = s[l]
    BY DEF PickedUpTo
  <1>3. /\ \A l \in 1 .. m + 1 : l \in 1 .. m \/ l = m + 1
        /\ m + 1 \in 1 .. m + 1 /\ \A l \in 1 .. m : l \in 1 .. m + 1
    OBVIOUS
  <1>4. ASSUME NEW k \in 1 .. n + 1
        PROVE  \E l \in 1 .. m + 1 : l \in P /\ k = to[l] /\ h[k] = s[l]
    <2>1. CASE k \in 1 .. n
      BY <1>1, <1>2, <1>3, <2>1
    <2>2. CASE k = n + 1
      BY <1>1, <1>3, <2>2
    <2> QED
      BY <1>1, <2>1, <2>2
  <1>5. ASSUME NEW l \in 1 .. m + 1, l \in P
        PROVE  to[l] \in 1 .. n + 1 /\ h[to[l]] = s[l]
    <2>1. CASE l \in 1 .. m
      BY <1>1, <1>2, <1>5, <2>1
    <2>2. CASE l = m + 1
      BY <1>1, <2>2
    <2> QED
      BY <1>3, <2>1, <2>2
  <1>6. PickedUpTo(h, s, P, to, m + 1)
    BY <1>1, <1>4, <1>5 DEF PickedUpTo
  <1> QED
    BY <1>6

LEMMA PickNone ==
    ASSUME NEW g, NEW s, NEW P, NEW to, NEW m \in Nat, PickedUpTo(g, s, P, to, m), m + 1 \notin P
    PROVE  PickedUpTo(g, s, P, to, m + 1)
  <1>1. \A l : l \in 1 .. m + 1 <=> l \in 1 .. m \/ l = m + 1
    OBVIOUS
  <1> QED
    BY <1>1 DEF PickedUpTo

\* AtPositions keeps the elements at these positions, each at a place of its own.
IsPicked(r, s, P, to) ==
    /\ \A k \in DOMAIN r : \E l \in DOMAIN s : l \in P /\ k = to[l] /\ r[k] = s[l]
    /\ \A l \in DOMAIN s : l \in P => to[l] \in DOMAIN r /\ r[to[l]] = s[l]

LEMMA PickedAll ==
    ASSUME NEW r, NEW s, NEW P, NEW to, NEW n, PickedUpTo(r, s, P, to, n),
           DOMAIN r = 1 .. Len(r), DOMAIN s = 1 .. n
    PROVE  IsPicked(r, s, P, to)
  BY Zenon DEF IsPicked, PickedUpTo

LEMMA AtPositionsPicks ==
    ASSUME NEW S, NEW s \in Seq(S), NEW P
    PROVE  \E to : IsPicked(AtPositions(s, P), s, P, to)
  <1> DEFINE n == Len(s)
             ss == [k \in DOMAIN s |-> IF k \in P THEN <<s[k]>> ELSE <<>>]
  <1>1. /\ DOMAIN s = 1 .. n /\ n \in Nat /\ \A k \in 1 .. n : s[k] \in S
        /\ Len(ss) = n
    OBVIOUS
  <1>2. AtPositions(s, P) = FlattenSeq(ss)
    BY DEF AtPositions
  <1>3. /\ \A k \in 1 .. n : k \in P => ss[k] = <<s[k]>>
        /\ \A k \in 1 .. n : k \notin P => ss[k] = <<>>
    BY <1>1
  <1>4. n = 0 => ss = <<>>
    BY <1>1
  <1> HIDE DEF n, ss
  <1>5. CASE n = 0
    <2>1. AtPositions(s, P) = <<>>
      BY <1>2, <1>4, <1>5 DEF FlattenSeq
    <2>2. DOMAIN s = {} /\ DOMAIN AtPositions(s, P) = {}
      BY <1>1, <1>5, <2>1
    <2> QED
      BY <2>2 DEF IsPicked
  <1>6. CASE n # 0
    <2>0. n \in Nat /\ n > 0 /\ Len(ss) \in Nat /\ Len(ss) # 0
      BY <1>1, <1>6
    <2>1. PICK f : FlattenSeq(ss) = f[n] /\ Flattens(f, ss, n)
      BY <1>1, <2>0, FlattenIs
    <2>2. f[1] = ss[1] /\ \A i \in 1 .. n - 1 : f[i + 1] = f[i] \o ss[i + 1]
      BY <2>0, <2>1, FlattensAt
    <2> PICK to : to = [l \in 1 .. n |-> Len(f[l])]
      OBVIOUS
    <2>3. \A l \in 1 .. n : to[l] = Len(f[l])
      OBVIOUS
    <2> DEFINE G == {m \in Nat : m \in 1 .. n => f[m] \in Seq(S) /\ PickedUpTo(f[m], s, P, to, m)}
    <2>4. 0 \in G
      OBVIOUS
    <2>5. ASSUME NEW m \in Nat, m \in G PROVE m + 1 \in G
      <3> SUFFICES ASSUME m + 1 \in 1 .. n
                   PROVE  f[m + 1] \in Seq(S) /\ PickedUpTo(f[m + 1], s, P, to, m + 1)
        OBVIOUS
      <3>1. \E g \in Seq(S) : PickedUpTo(g, s, P, to, m) /\ f[m + 1] = g \o ss[m + 1]
        <4>1. CASE m = 0
          <5>1. <<>> \in Seq(S) /\ 1 .. Len(<<>>) = {} /\ 1 .. m = {}
            BY <4>1
          <5>2. PickedUpTo(<<>>, s, P, to, m)
            BY <5>1 DEF PickedUpTo
          <5>3. f[m + 1] = <<>> \o ss[m + 1]
            <6>1. s[1] \in S /\ 1 \in 1 .. n
              BY <1>1, <2>0
            <6>2. <<>> \o <<s[1]>> = <<s[1]>> /\ <<>> \o <<>> = <<>>
              BY <6>1
            <6>3. <<>> \o ss[1] = ss[1]
              BY <1>3, <6>1, <6>2
            <6> QED
              BY <2>2, <4>1, <6>3
          <5> QED
            BY <5>1, <5>2, <5>3
        <4>2. CASE m # 0
          <5>1. m \in 1 .. n - 1 /\ m \in 1 .. n
            BY <2>0, <4>2
          <5>2. f[m] \in Seq(S) /\ PickedUpTo(f[m], s, P, to, m)
            BY <2>5, <5>1
          <5> QED
            BY <2>2, <5>1, <5>2
        <4> QED
          BY <4>1, <4>2
      <3> HIDE DEF G
      <3>2. PICK g \in Seq(S) : PickedUpTo(g, s, P, to, m) /\ f[m + 1] = g \o ss[m + 1]
        BY <3>1
      <3>3. s[m + 1] \in S /\ to[m + 1] = Len(f[m + 1])
        BY <1>1, <2>3
      <3>4. CASE m + 1 \in P
        <4>1. f[m + 1] = g \o <<s[m + 1]>>
          BY <1>3, <3>2, <3>4
        <4>2. g \o <<s[m + 1]>> \in Seq(S) /\ Len(g \o <<s[m + 1]>>) = Len(g) + 1
          BY <3>3, Appended
        <4> QED
          BY <3>2, <3>3, <3>4, <4>1, <4>2, PickOne
      <3>5. CASE m + 1 \notin P
        <4>1. f[m + 1] = g \o <<>> /\ g \o <<>> = g
          BY <1>3, <3>2, <3>5
        <4> QED
          BY <3>2, <3>5, <4>1, PickNone
      <3> QED
        BY <3>4, <3>5
    <2>6. G = Nat
      <3> HIDE DEF G
      <3>1. G \subseteq Nat
        BY DEF G
      <3> QED
        BY <2>4, <2>5, <3>1, Induction
    <2>7. f[n] \in Seq(S) /\ PickedUpTo(f[n], s, P, to, n)
      <3>1. n \in G /\ n \in 1 .. n
        <4> HIDE DEF G
        <4> QED
          BY <2>0, <2>6
      <3> QED
        BY <3>1
    <2> HIDE DEF G
    <2> PICK r : r = f[n]
      OBVIOUS
    <2>8. DOMAIN r = 1 .. Len(r)
      BY <2>7
    <2>9. IsPicked(r, s, P, to)
      <3>1. PickedUpTo(r, s, P, to, n) /\ DOMAIN s = 1 .. n
        BY <1>1, <2>7
      <3> QED
        BY <2>8, <3>1, PickedAll
    <2> QED
      BY <1>2, <2>1, <2>9
  <1> QED
    BY <1>5, <1>6

LEMMA KeptItself == \A i : IsKept(i, i)
  BY DEF IsKept

\* A module that stays as it is.
LEMMA SameRearranged ==
    ASSUME NEW fs, IsModule(fs)
    PROVE  Rearranged(fs, fs)
  <1> PICK to : to = [f \in DOMAIN fs |-> [l \in DOMAIN fs[f].body |-> l]]
    OBVIOUS
  <1>1. \A f \in DOMAIN fs : \A l \in DOMAIN fs[f].body : to[f][l] = l
    OBVIOUS
  <1>2. MovedTo(to, fs, fs)
    BY <1>1, KeptItself DEF MovedTo
  <1> QED
    BY <1>2 DEF Rearranged

\* RemoveSources takes away only what is clam-prov's own.
LEMMA RemoveSourcesMoves ==
    ASSUME PassesInv, RemoveSources
    PROVE  Rearranged(functions', functions)
  <1> DEFINE kept(f) == {k \in DOMAIN functions[f].body : ~IsIntrinsic(functions[f].body[k])}
             B == [f \in DOMAIN functions |-> AtPositions(functions[f].body, kept(f))]
             S == InstructionsOf(functions)
             to == [f \in DOMAIN functions |->
                      CHOOSE t : IsPicked(B[f], functions[f].body, kept(f), t)]
  <1>1. IsModule(functions)
    BY DEF PassesInv, ModuleInv, Positioned
  <1>2. functions' = WithBodies(functions, B)
    BY DEF RemoveSources, WithBodies
  <1>3. ASSUME NEW f \in DOMAIN functions
        PROVE  B[f] = AtPositions(functions[f].body, kept(f)) /\ functions[f].body \in Seq(S)
    BY <1>1, ModuleIs
  <1>4. ASSUME NEW f \in DOMAIN functions
        PROVE  B[f] \in Seq(S)
    <2> DEFINE T == {functions[f].body[k] : k \in (1 .. Len(functions[f].body)) \cap kept(f)}
    <2>1. functions[f].body \in Seq(S)
      BY <1>3
    <2>2. AtPositions(functions[f].body, kept(f)) \in Seq(T)
      <3> HIDE DEF kept, S
      <3> QED
        BY <2>1, AtPositionsType
    <2>3. T \subseteq S
      <3> HIDE DEF S, kept
      <3> QED
        BY <2>1
    <2> HIDE DEF T, S, B
    <2> QED
      BY <1>3, <2>2, <2>3, SeqMonotonic
  <1>5. ASSUME NEW f \in DOMAIN functions
        PROVE  IsPicked(B[f], functions[f].body, kept(f), to[f])
    <2>1. \E t : IsPicked(AtPositions(functions[f].body, kept(f)), functions[f].body, kept(f), t)
      <3> HIDE DEF kept, S, B
      <3> QED
        BY <1>3, AtPositionsPicks
    <2>2. \E t : IsPicked(B[f], functions[f].body, kept(f), t)
      <3> HIDE DEF kept, S, B
      <3> QED
        BY <1>3, <2>1
    <2>3. to[f] = CHOOSE t : IsPicked(B[f], functions[f].body, kept(f), t)
      <3> HIDE DEF kept, S, B
      <3> QED
        OBVIOUS
    <2> HIDE DEF kept, S, B, to
    <2> QED
      BY <2>2, <2>3
  <1>6. B \in [DOMAIN functions -> Seq(S)]
    <2>1. B = [f \in DOMAIN functions |-> B[f]]
      OBVIOUS
    <2> HIDE DEF B, S
    <2> QED
      BY <1>4, <2>1
  <1> HIDE DEF B, S, to
  <1>7. /\ IsModule(functions') /\ DOMAIN functions' = DOMAIN functions
        /\ \A f \in DOMAIN functions :
             functions'[f].name = functions[f].name /\ functions'[f].body = B[f]
    <2> PICK gs : gs = WithBodies(functions, B)
      OBVIOUS
    <2>1. IsModule(gs) /\ HasBodies(gs, functions, B)
      BY <1>1, <1>6, NewBodies
    <2> QED
      BY <1>2, <2>1 DEF HasBodies
  <1>8. MovedTo(to, functions', functions)
    <2> SUFFICES ASSUME NEW f \in DOMAIN functions
                 PROVE  /\ \A k \in DOMAIN functions'[f].body :
                             \/ IsMade(functions'[f].body[k])
                             \/ \E l \in DOMAIN functions[f].body :
                                  /\ k = to[f][l]
                                  /\ IsKept(functions'[f].body[k], functions[f].body[l])
                        /\ \A l \in DOMAIN functions[f].body :
                             functions[f].body[l].fn \notin OwnFunctions =>
                               /\ to[f][l] \in DOMAIN functions'[f].body
                               /\ IsKept(functions'[f].body[to[f][l]], functions[f].body[l])
      BY DEF MovedTo
    <2> PICK b, r, q, P : b = functions[f].body /\ r = functions'[f].body /\ q = to[f] /\ P = kept(f)
      OBVIOUS
    <2>1. IsPicked(r, b, P, q)
      BY <1>5, <1>7
    <2>2. \A l \in DOMAIN b : b[l].fn \notin OwnFunctions => l \in P
      BY DEF IsIntrinsic, OwnFunctions
    <2> HIDE DEF kept
    <2>3. /\ \A k \in DOMAIN r : \E l \in DOMAIN b : k = q[l] /\ IsKept(r[k], b[l])
          /\ \A l \in DOMAIN b : b[l].fn \notin OwnFunctions =>
               q[l] \in DOMAIN r /\ IsKept(r[q[l]], b[l])
      BY <2>1, <2>2, KeptItself DEF IsPicked
    <2> QED
      BY <2>3
  <1> QED
    BY <1>1, <1>7, <1>8, SameLength DEF Rearranged

\* Where an instruction of the new module comes from.
LEMMA ComesFrom ==
    ASSUME NEW gs, NEW fs, NEW to, MovedTo(to, gs, fs),
           NEW f \in DOMAIN fs, NEW k \in DOMAIN gs[f].body, ~IsMade(gs[f].body[k])
    PROVE  \E l \in DOMAIN fs[f].body : k = to[f][l] /\ IsKept(gs[f].body[k], fs[f].body[l])
  BY DEF MovedTo

LEMMA GoesTo ==
    ASSUME NEW gs, NEW fs, NEW to, MovedTo(to, gs, fs),
           NEW f \in DOMAIN fs, NEW l \in DOMAIN fs[f].body, fs[f].body[l].fn \notin OwnFunctions
    PROVE  to[f][l] \in DOMAIN gs[f].body /\ IsKept(gs[f].body[to[f][l]], fs[f].body[l])
  BY DEF MovedTo

LEMMA RearrangedInstructions ==
    ASSUME NEW gs, NEW fs, Rearranged(gs, fs), NEW i \in InstructionsOf(gs)
    PROVE  IsMade(i) \/ \E j \in InstructionsOf(fs) : IsKept(i, j)
  <1>1. /\ IsModule(gs) /\ IsModule(fs) /\ DOMAIN gs = DOMAIN fs
        /\ \E to : MovedTo(to, gs, fs)
    BY DEF Rearranged
  <1>2. PICK f \in DOMAIN fs : \E k \in DOMAIN gs[f].body : i = gs[f].body[k]
    BY <1>1, ModuleIs
  <1>3. PICK k \in DOMAIN gs[f].body : i = gs[f].body[k]
    BY <1>2
  <1>4. CASE ~IsMade(i)
    <2>1. PICK l \in DOMAIN fs[f].body : IsKept(i, fs[f].body[l])
      BY <1>1, <1>3, <1>4, ComesFrom
    <2>2. fs[f].body[l] \in InstructionsOf(fs)
      BY <1>1, ModuleIs
    <2> QED
      BY <2>1, <2>2
  <1> QED
    BY <1>4

LEMMA RearrangedSources ==
    ASSUME NEW gs, NEW fs, Rearranged(gs, fs), SourcesOnce(fs)
    PROVE  SourcesOnce(gs)
  <1>1. DOMAIN gs = DOMAIN fs /\ \E to : MovedTo(to, gs, fs)
    BY DEF Rearranged
  <1>2. PICK to : MovedTo(to, gs, fs)
    BY <1>1
  <1> SUFFICES ASSUME NEW f \in DOMAIN fs, NEW g \in DOMAIN fs,
                      NEW k \in DOMAIN gs[f].body, NEW l \in DOMAIN gs[g].body,
                      gs[f].body[k].src = gs[g].body[l].src, gs[f].body[k].src # 0
               PROVE  f = g /\ k = l
    BY <1>1 DEF SourcesOnce
  <1>3. ~IsMade(gs[f].body[k]) /\ ~IsMade(gs[g].body[l])
    BY DEF IsMade
  <1>4. PICK m \in DOMAIN fs[f].body : k = to[f][m] /\ IsKept(gs[f].body[k], fs[f].body[m])
    BY <1>2, <1>3, ComesFrom
  <1>5. PICK n \in DOMAIN fs[g].body : l = to[g][n] /\ IsKept(gs[g].body[l], fs[g].body[n])
    BY <1>2, <1>3, ComesFrom
  <1>6. fs[f].body[m].src = fs[g].body[n].src /\ fs[f].body[m].src # 0
    BY <1>4, <1>5 DEF IsKept
  <1>7. f = g /\ m = n
    BY <1>6 DEF SourcesOnce
  <1> QED
    BY <1>4, <1>5, <1>7

\* A wrapper is none of clam-prov's other functions.
LEMMA WrappersAreReserved ==
    /\ \A name \in ToSet(WrapperName) : name \notin OwnFunctions /\ name \in Reserved
    /\ DOMAIN WrapperName = 1 .. Len(WrapperName) /\ Len(WrapperName) \in Nat
    /\ \A n \in 1 .. Len(WrapperName) : WrapperName[n] \in ToSet(WrapperName)
    /\ OwnFunctions \subseteq Reserved
  <1>1. ToSet(WrapperName) \cap OwnFunctions = {}
    BY NamesAssumption
  <1>2. DOMAIN WrapperName = 1 .. Len(WrapperName) /\ Len(WrapperName) \in Nat
    BY NamesAssumption
  <1> QED
    BY <1>1, <1>2 DEF Reserved, ToSet

\* A call of a wrapper is none of the calls that the passes insert and erase.
LEMMA RearrangedCalls ==
    ASSUME NEW gs, NEW fs, NEW to, MovedTo(to, gs, fs), DOMAIN gs = DOMAIN fs,
           NEW name \in ToSet(WrapperName)
    PROVE  /\ \A f, k : Calls(gs, name, f, k) =>
                \E l : Calls(fs, name, f, l) /\ k = to[f][l]
           /\ \A f, l : Calls(fs, name, f, l) => Calls(gs, name, f, to[f][l])
  <1>1. name \notin OwnFunctions
    BY WrappersAreReserved
  <1>2. ASSUME NEW f, NEW k, Calls(gs, name, f, k)
        PROVE  \E l : Calls(fs, name, f, l) /\ k = to[f][l]
    <2>1. /\ f \in DOMAIN fs /\ k \in DOMAIN gs[f].body
          /\ IsDirectCall(gs[f].body[k]) /\ gs[f].body[k].fn = name
      BY <1>2 DEF Calls
    <2>2. ~IsMade(gs[f].body[k])
      BY <1>1, <2>1 DEF IsMade
    <2>3. PICK l \in DOMAIN fs[f].body : k = to[f][l] /\ IsKept(gs[f].body[k], fs[f].body[l])
      BY <2>1, <2>2, ComesFrom
    <2>4. Calls(fs, name, f, l)
      BY <2>1, <2>3 DEF Calls, IsKept, IsDirectCall
    <2> QED
      BY <2>3, <2>4
  <1>3. ASSUME NEW f, NEW l, Calls(fs, name, f, l)
        PROVE  Calls(gs, name, f, to[f][l])
    <2>1. /\ f \in DOMAIN fs /\ l \in DOMAIN fs[f].body
          /\ IsDirectCall(fs[f].body[l]) /\ fs[f].body[l].fn = name
      BY <1>3 DEF Calls
    <2>2. to[f][l] \in DOMAIN gs[f].body /\ IsKept(gs[f].body[to[f][l]], fs[f].body[l])
      BY <1>1, <2>1, GoesTo
    <2> QED
      BY <2>1, <2>2 DEF Calls, IsKept, IsDirectCall
  <1> QED
    BY <1>2, <1>3

LEMMA RearrangedWrappers ==
    ASSUME NEW gs, NEW fs, Rearranged(gs, fs), NEW m \in Nat, NEW n \in Nat,
           HasWrappers(fs, m, n), n <= Len(WrapperName)
    PROVE  HasWrappers(gs, m, n)
  <1>1. /\ DOMAIN gs = DOMAIN fs /\ Len(gs) = Len(fs) /\ DOMAIN fs = 1 .. m + n
        /\ \A f \in DOMAIN fs : gs[f].name = fs[f].name
        /\ \E to : MovedTo(to, gs, fs)
    BY ModuleIs DEF Rearranged, HasWrappers
  <1>2. PICK to : MovedTo(to, gs, fs)
    BY <1>1
  <1>3. Len(gs) = m + n /\ \A f \in 1 .. m : gs[f].name \notin ToSet(WrapperName)
    <2>1. \A f \in 1 .. m : f \in 1 .. m + n
      OBVIOUS
    <2> QED
      BY <1>1, <2>1 DEF HasWrappers
  <1>4. ASSUME NEW w \in 1 .. n
        PROVE  /\ gs[m + w].name = WrapperName[w]
               /\ \A k, l \in DOMAIN gs[m + w].body :
                    gs[m + w].body[k].src # 0 /\ gs[m + w].body[l].src # 0 => k = l
               /\ \E f, k : Calls(gs, WrapperName[w], f, k)
    <2> PICK f : f = m + w
      OBVIOUS
    <2>1. f \in DOMAIN fs
      <3>1. m + w \in 1 .. m + n
        OBVIOUS
      <3> QED
        BY <1>1, <3>1
    <2>2. /\ fs[f].name = WrapperName[w]
          /\ \A k, l \in DOMAIN fs[f].body : fs[f].body[k].src # 0 /\ fs[f].body[l].src # 0 => k = l
          /\ \E g, k : Calls(fs, WrapperName[w], g, k)
      BY DEF HasWrappers
    <2>3. ASSUME NEW k \in DOMAIN gs[f].body, gs[f].body[k].src # 0
          PROVE  \E l \in DOMAIN fs[f].body : k = to[f][l] /\ fs[f].body[l].src # 0
      <3>1. ~IsMade(gs[f].body[k])
        BY <2>3 DEF IsMade
      <3> QED
        BY <1>2, <2>1, <2>3, <3>1, ComesFrom DEF IsKept
    <2>4. \A k, l \in DOMAIN gs[f].body : gs[f].body[k].src # 0 /\ gs[f].body[l].src # 0 => k = l
      BY <2>2, <2>3
    <2>5. WrapperName[w] \in ToSet(WrapperName)
      BY WrappersAreReserved
    <2>6. \E g, k : Calls(gs, WrapperName[w], g, k)
      BY <1>1, <1>2, <2>2, <2>5, RearrangedCalls
    <2> QED
      BY <1>1, <2>1, <2>2, <2>4, <2>6
  <1>5. ASSUME NEW name \in ToSet(WrapperName), NEW f, NEW g, NEW k, NEW l,
               Calls(gs, name, f, k), Calls(gs, name, g, l)
        PROVE  f = g /\ k = l
    <2>1. PICK p : Calls(fs, name, f, p) /\ k = to[f][p]
      BY <1>1, <1>2, <1>5, RearrangedCalls
    <2>2. PICK q : Calls(fs, name, g, q) /\ l = to[g][q]
      BY <1>1, <1>2, <1>5, RearrangedCalls
    <2>3. f = g /\ p = q
      BY <2>1, <2>2 DEF HasWrappers
    <2> QED
      BY <2>1, <2>2, <2>3
  <1>6. ASSUME NEW w \in n + 1 .. Len(WrapperName), NEW f, NEW k, Calls(gs, WrapperName[w], f, k)
        PROVE  FALSE
    <2>1. WrapperName[w] \in ToSet(WrapperName)
      BY WrappersAreReserved
    <2>2. \E l : Calls(fs, WrapperName[w], f, l)
      BY <1>1, <1>2, <1>6, <2>1, RearrangedCalls
    <2> QED
      BY <2>2 DEF HasWrappers
  <1> QED
    BY <1>3, <1>4, <1>5, <1>6 DEF HasWrappers

\* The call-sites are the same as long as the input and the configuration are.
LEMMA SameCallSites ==
    ASSUME UNCHANGED <<input, function_infos>>
    PROVE  /\ CallSites' = CallSites
           /\ \A p : CallSitesBefore(p)' = CallSitesBefore(p)
           /\ \A id, src : IsNumberOf(id, src) => IsNumberOf(id, src)'
  <1>1. CallSites' = CallSites
    BY DEF CallSites, Program
  <1>2. \A p : CallSitesBefore(p)' = CallSitesBefore(p)
    BY <1>1 DEF CallSitesBefore
  <1>3. \A id, src : IsNumberOf(id, src) => IsNumberOf(id, src)'
    BY <1>1, <1>2 DEF IsNumberOf
  <1> QED
    BY <1>1, <1>2, <1>3

LEMMA MadeIsNoSite ==
    ASSUME NEW i, IsMade(i)
    PROVE  i.meta = {} /\ CallSiteIds(i) = {} /\ ~IsSink(i) /\ (IsDirectCall(i) => i.fn \in Reserved)
  BY WrappersAreReserved DEF IsMade, CallSiteIds, IsSink, HasParamOfType

LEMMA KeptIsSame ==
    ASSUME NEW i, NEW j, IsKept(i, j)
    PROVE  /\ i.meta = j.meta /\ i.fn = j.fn /\ i.src = j.src /\ CallSiteIds(i) = CallSiteIds(j)
           /\ IsDirectCall(i) = IsDirectCall(j) /\ (IsSink(i) => IsSink(j))
  <1>1. i.op = j.op /\ i.meta = j.meta /\ i.fn = j.fn /\ i.src = j.src
    BY DEF IsKept
  <1>2. IsDirectCall(i) = IsDirectCall(j)
    BY <1>1 DEF IsDirectCall
  <1> QED
    BY <1>1, <1>2 DEF CallSiteIds, IsSink, HasParamOfType

LEMMA NumbersKept ==
    ASSUME NumbersInv, Rearranged(functions', functions), UNCHANGED <<input, function_infos>>,
           pass' \notin {"configure", "add_metadata"} => pass \notin {"configure", "add_metadata"}
    PROVE  NumbersInv'
  <1>1. SourcesOnce(functions')
    BY RearrangedSources DEF NumbersInv
  <1>2. DOMAIN function_infos' \cap Reserved = {}
    BY DEF NumbersInv
  <1>3. ASSUME NEW i \in InstructionsOf(functions')
        PROVE  /\ IsSiteOnce(i)'
               /\ pass' \notin {"configure", "add_metadata"} =>
                    (IsDirectCall(i) /\ i.fn \in DOMAIN function_infos' => i.meta # {})
    <2>1. CASE IsMade(i)
      <3>1. i.meta = {} /\ CallSiteIds(i) = {} /\ (IsDirectCall(i) => i.fn \in Reserved)
        BY <2>1, MadeIsNoSite
      <3> QED
        BY <1>2, <3>1 DEF IsSiteOnce
    <2>2. CASE ~IsMade(i)
      <3>1. PICK j \in InstructionsOf(functions) : IsKept(i, j)
        BY <2>2, RearrangedInstructions
      <3>2. /\ i.meta = j.meta /\ i.fn = j.fn /\ i.src = j.src /\ CallSiteIds(i) = CallSiteIds(j)
            /\ IsDirectCall(i) = IsDirectCall(j)
        BY <3>1, KeptIsSame
      <3>3. /\ IsSiteOnce(j)
            /\ pass \notin {"configure", "add_metadata"} =>
                 (IsDirectCall(j) /\ j.fn \in DOMAIN function_infos => j.meta # {})
        BY DEF NumbersInv
      <3>4. IsSiteOnce(i)'
        BY <3>2, <3>3, SameCallSites DEF IsSiteOnce
      <3> QED
        BY <3>2, <3>3, <3>4
    <2> QED
      BY <2>1, <2>2
  <1> QED
    BY <1>1, <1>2, <1>3 DEF NumbersInv

LEMMA WrappersKept ==
    ASSUME PassesInv, WrapperInv, IsModule(input), Rearranged(functions', functions),
           UNCHANGED <<input, wrappers>>
    PROVE  WrapperInv'
  <1>1. Len(input) \in Nat /\ wrappers \in Nat /\ wrappers <= Len(WrapperName)
    BY ModuleIs, WrappersAreReserved DEF PassesInv
  <1>2. HasWrappers(functions', Len(input), wrappers)
    BY <1>1, RearrangedWrappers DEF WrapperInv
  <1> QED
    BY <1>2 DEF WrapperInv

\* Every pass but the first ones, AddMetadata and WrapSinks only moves, inserts
\* and erases instructions.
LEMMA MovesKeepCalls ==
    ASSUME PassesInv, CallsInv, Rearranged(functions', functions),
           UNCHANGED <<input, function_infos, wrappers, output_param_map>>,
           pass' \notin Untouched \cup {"add_metadata", "wrap_sinks"},
           pass' \notin {"configure", "add_metadata"} => pass \notin {"configure", "add_metadata"},
           pass' \in BeforeWrapping => pass \in BeforeWrapping,
           pass' \in Wrapped => pass \in Wrapped
    PROVE  CallsInv'
  <1>1. InputInv'
    BY DEF CallsInv, InputInv
  <1>2. UntouchedInv' /\ AddingInv'
    BY DEF UntouchedInv, AddingInv, Untouched
  <1>3. NumbersInv' /\ WrapperInv'
    BY NumbersKept, WrappersKept DEF CallsInv, InputInv, Clean
  <1>4. SinksInv'
    <2>1. ASSUME pass' \in Wrapped, NEW f \in DOMAIN input, NEW k \in DOMAIN functions'[f].body
          PROVE  ~IsSink(functions'[f].body[k])
      <3>1. f \in DOMAIN functions
        BY DEF PassesInv, ModuleInv
      <3>2. \A l \in DOMAIN functions[f].body : ~IsSink(functions[f].body[l])
        BY <2>1 DEF CallsInv, SinksInv
      <3>3. PICK to : MovedTo(to, functions', functions)
        BY DEF Rearranged
      <3>4. CASE IsMade(functions'[f].body[k])
        BY <3>4, MadeIsNoSite
      <3>5. CASE ~IsMade(functions'[f].body[k])
        BY <3>1, <3>2, <3>3, <3>5, ComesFrom, KeptIsSame
      <3> QED
        BY <3>4, <3>5
    <2> QED
      BY <2>1 DEF CallsInv, SinksInv
  <1> QED
    BY <1>1, <1>2, <1>3, <1>4 DEF CallsInv

-----------------------------------------------------------------------------
(* The passes that only move instructions                                  *)

LEMMA AddSourcesKeepsCalls == PassesInv /\ CallsInv /\ AddSources => CallsInv'
  <1> SUFFICES ASSUME PassesInv, CallsInv, AddSources PROVE CallsInv'
    OBVIOUS
  <1>1. PICK B, before :
          /\ before \in Seq(B) /\ ToSet(before) \subseteq B
          /\ \A i \in B : IsInstruction(i) /\ ~OpensOrCloses(i) /\ i.addr = 0 /\ IsMade(i)
          /\ Visit(before, Current)
    BY AddSourcesStep
  <1>2. /\ pass = "add_sources" /\ at[2] <= Len(Body)
        /\ UNCHANGED <<pass, input, function_infos, wrappers, output_param_map>>
    BY DEF AddSources, Visiting, metadata_vars, wrap_vars, history
  <1>3. Rearranged(functions', functions)
    BY <1>1, <1>2, KeptItself, VisitMoves DEF PassesInv, ModuleInv
  <1> QED
    BY <1>2, <1>3, MovesKeepCalls DEF Untouched, BeforeWrapping, Wrapped

LEMMA TagsKeepCalls == PassesInv /\ CallsInv /\ TagAnalysisResultsAsMetadata => CallsInv'
  <1> SUFFICES ASSUME PassesInv, CallsInv, TagAnalysisResultsAsMetadata PROVE CallsInv'
    OBVIOUS
  <1>1. PICK answer \in [DOMAIN ParamsOfType(Current, "output") -> Answers] :
          Visit(<<>>, SetTags(Current, answer))
    BY DEF TagAnalysisResultsAsMetadata
  <1>2. /\ pass = "tags" /\ at[2] <= Len(Body)
        /\ UNCHANGED <<pass, input, function_infos, wrappers, output_param_map>>
    BY DEF TagAnalysisResultsAsMetadata, Visiting, metadata_vars, wrap_vars
  <1> PICK new : new = SetTags(Current, answer)
    OBVIOUS
  <1>3. IsKept(new, Current)
    <2> PICK tags : tags = {FlattenSeq([n \in DOMAIN answer |-> CHOOSE t \in answer[n] : TRUE])}
      OBVIOUS
    <2>1. new = Current \/ new = WithTags(Current, tags)
      BY DEF SetTags, WithTags
    <2>2. IsRecord(Current)
      BY <1>2, CurrentIs DEF PassesInv, ModuleInv, IsInstruction
    <2>3. IsKept(WithTags(Current, tags), Current)
      BY <2>2, WithTagsIs DEF IsKept
    <2> QED
      BY <2>1, <2>3, KeptItself
  <1> PICK B, before : B = {} /\ before = <<>>
    OBVIOUS
  <1>4. before \in Seq(B) /\ Visit(before, new) /\ \A i \in B : IsMade(i)
    BY <1>1
  <1>5. Positioned
    BY DEF PassesInv, ModuleInv
  <1>6. Rearranged(functions', functions)
    BY <1>2, <1>3, <1>4, <1>5, VisitMoves
  <1> QED
    BY <1>2, <1>6, MovesKeepCalls DEF Untouched, BeforeWrapping, Wrapped

LEMMA RemoveSourcesKeepsCalls == PassesInv /\ CallsInv /\ RemoveSources => CallsInv'
  <1> SUFFICES ASSUME PassesInv, CallsInv, RemoveSources PROVE CallsInv'
    OBVIOUS
  <1>1. /\ pass = "remove_sources" /\ pass' = "dependency_map"
        /\ UNCHANGED <<input, function_infos, wrappers, output_param_map>>
    BY DEF RemoveSources, metadata_vars, wrap_vars, history
  <1>2. Rearranged(functions', functions)
    BY RemoveSourcesMoves
  <1> QED
    BY <1>1, <1>2, MovesKeepCalls DEF Untouched, BeforeWrapping, Wrapped

LEMMA OutputDependencyMapKeepsCalls == PassesInv /\ CallsInv /\ OutputDependencyMap => CallsInv'
  <1> SUFFICES ASSUME PassesInv, CallsInv, OutputDependencyMap PROVE CallsInv'
    OBVIOUS
  <1>1. /\ pass = "dependency_map" /\ at[2] <= Len(Body) /\ Visit(<<>>, Current)
        /\ UNCHANGED <<pass, input, function_infos, wrappers, output_param_map>>
    BY DEF OutputDependencyMap, Visiting, metadata_vars, wrap_vars, history
  <1>2. functions' = functions /\ IsModule(functions)
    BY <1>1, VisitSame DEF PassesInv, ModuleInv, Positioned
  <1> QED
    BY <1>1, <1>2, SameRearranged, MovesKeepCalls DEF Untouched, BeforeWrapping, Wrapped

LEMMA NoDependencyMapKeepsCalls == PassesInv /\ CallsInv /\ NoDependencyMap => CallsInv'
  <1> SUFFICES ASSUME PassesInv, CallsInv, NoDependencyMap PROVE CallsInv'
    OBVIOUS
  <1>1. /\ pass = "dependency_map" /\ pass' = "configure_logging"
        /\ UNCHANGED <<functions, input, function_infos, wrappers, output_param_map>>
    BY DEF NoDependencyMap, module_vars, metadata_vars, wrap_vars, history
  <1>2. IsModule(functions)
    BY DEF PassesInv, ModuleInv, Positioned
  <1> QED
    BY <1>1, <1>2, SameRearranged, MovesKeepCalls DEF Untouched, BeforeWrapping, Wrapped

LEMMA LoadConfigurationKeepsCalls == PassesInv /\ CallsInv /\ LoadConfiguration => CallsInv'
  <1> SUFFICES ASSUME PassesInv, CallsInv, LoadConfiguration PROVE CallsInv'
    OBVIOUS
  <1>1. /\ pass = "configure_logging" /\ pass' \in {"add_logging", "done"}
        /\ UNCHANGED <<functions, input, function_infos, wrappers, output_param_map>>
    BY DEF LoadConfiguration, module_vars, metadata_vars, wrap_vars, history
  <1>2. IsModule(functions)
    BY DEF PassesInv, ModuleInv, Positioned
  <1> QED
    BY <1>1, <1>2, SameRearranged, MovesKeepCalls DEF Untouched, BeforeWrapping, Wrapped

LEMMA AddLoggingKeepsCalls == PassesInv /\ CallsInv /\ AddLogging => CallsInv'
  <1> SUFFICES ASSUME PassesInv, CallsInv, AddLogging PROVE CallsInv'
    OBVIOUS
  <1>1. PICK S, before :
          /\ before \in Seq(S)
          /\ \A i \in S : IsInstruction(i) /\ IsMade(i)
          /\ IsLoggerBlock(before, at[2], FunctionName, Current.op)
          /\ Visit(before, Current)
    BY AddLoggingStep
  <1>2. /\ pass = "add_logging" /\ at[2] <= Len(Body)
        /\ UNCHANGED <<pass, input, function_infos, wrappers, output_param_map>>
    BY DEF AddLogging, Visiting, metadata_vars, wrap_vars, history
  <1>3. Rearranged(functions', functions)
    BY <1>1, <1>2, KeptItself, VisitMoves DEF PassesInv, ModuleInv
  <1> QED
    BY <1>2, <1>3, MovesKeepCalls DEF Untouched, BeforeWrapping, Wrapped

LEMMA WrapCrashesKeepsCalls == PassesInv /\ CallsInv /\ WrapCrashes => CallsInv'
  <1> SUFFICES ASSUME PassesInv, CallsInv, WrapCrashes PROVE CallsInv'
    OBVIOUS
  <1>1. /\ pass = "wrap_sinks" /\ pass' = "crashed"
        /\ UNCHANGED <<functions, input, function_infos, wrappers, output_param_map>>
    BY DEF WrapCrashes, Wrapping, module_vars, metadata_vars, wrap_vars, history
  <1>2. IsModule(functions)
    BY DEF PassesInv, ModuleInv, Positioned
  <1> QED
    BY <1>1, <1>2, SameRearranged, MovesKeepCalls DEF Untouched, BeforeWrapping, Wrapped

-----------------------------------------------------------------------------
(* The passes before AddMetadata                                           *)

\* What a module is before clam-prov inserts anything.
LEMMA CleanIs ==
    ASSUME NEW fs, Clean(fs)
    PROVE  /\ IsModule(fs) /\ SourcesOnce(fs)
           /\ \A f \in DOMAIN fs : fs[f].name \notin Reserved
           /\ \A f \in DOMAIN fs : \A k \in DOMAIN fs[f].body :
                LET i == fs[f].body[k] IN i.meta = {} /\ i.src # 0 /\ i.fn \notin Reserved
           /\ \A i \in InstructionsOf(fs) : i.meta = {} /\ i.tags = {} /\ i.fn \notin Reserved
           /\ Named(fs) \cap Reserved = {}
  <1>1. IsModule(fs) /\ \A f \in DOMAIN fs : fs[f].name \notin Reserved
    BY DEF Clean
  <1>2. \A i \in InstructionsOf(fs) :
          /\ i.src = i.addr /\ i.addr # 0 /\ i.meta = {} /\ i.tags = {}
          /\ i.fn \notin Reserved
    BY DEF Clean, IsOfInput, IsOfProgram
  <1>3. \A f \in DOMAIN fs : \A k \in DOMAIN fs[f].body : fs[f].body[k] \in InstructionsOf(fs)
    BY <1>1, ModuleIs
  <1>4. SourcesOnce(fs)
    <2> SUFFICES ASSUME NEW f \in DOMAIN fs, NEW g \in DOMAIN fs,
                        NEW k \in DOMAIN fs[f].body, NEW l \in DOMAIN fs[g].body,
                        fs[f].body[k].src = fs[g].body[l].src
                 PROVE  f = g /\ k = l
      BY DEF SourcesOnce
    <2>1. fs[f].body[k].addr = fs[g].body[l].addr /\ fs[f].body[k].addr # 0
      BY <1>2, <1>3
    <2> QED
      BY <2>1 DEF Clean, Distinct
  <1>5. ASSUME NEW name \in Named(fs) PROVE name \notin Reserved
    <2>1. PICK h \in ToSet(fs) : name = h.name \/ \E i \in ToSet(h.body) : name = i.fn
      BY <1>5 DEF Named
    <2>2. PICK f \in DOMAIN fs : h = fs[f]
      BY <2>1 DEF ToSet
    <2>3. CASE name = h.name
      BY <1>1, <2>2, <2>3
    <2>4. CASE \E i \in ToSet(h.body) : name = i.fn
      BY <1>2, <1>3, <2>2, <2>4 DEF ToSet
    <2> QED
      BY <2>1, <2>3, <2>4
  <1> QED
    BY <1>1, <1>2, <1>3, <1>4, <1>5

LEMMA LooksLikeItself ==
    ASSUME NEW fs
    PROVE  LookAlike(fs, fs)
  BY DEF LookAlike

\* What looks like the input has no wrappers in it.
LEMMA NoWrappers ==
    ASSUME NEW gs, NEW fs, Clean(fs), LookAlike(gs, fs)
    PROVE  SourcesOnce(gs) /\ HasWrappers(gs, Len(fs), 0)
  <1>1. /\ IsModule(fs) /\ SourcesOnce(fs)
        /\ \A f \in DOMAIN fs : fs[f].name \notin Reserved
        /\ \A f \in DOMAIN fs : \A k \in DOMAIN fs[f].body : fs[f].body[k].fn \notin Reserved
    BY CleanIs
  <1>2. Len(fs) \in Nat /\ DOMAIN fs = 1 .. Len(fs)
    BY <1>1, ModuleIs
  <1>3. /\ DOMAIN gs = DOMAIN fs /\ Len(gs) = Len(fs)
        /\ \A f \in DOMAIN fs :
             gs[f].name = fs[f].name /\ DOMAIN gs[f].body = DOMAIN fs[f].body
        /\ \A f \in DOMAIN fs : \A k \in DOMAIN fs[f].body :
             gs[f].body[k].fn = fs[f].body[k].fn /\ gs[f].body[k].src = fs[f].body[k].src
    BY DEF LookAlike
  <1>4. SourcesOnce(gs)
    BY <1>1, <1>3 DEF SourcesOnce
  <1>5. ASSUME NEW name \in ToSet(WrapperName), NEW f, NEW k PROVE ~Calls(gs, name, f, k)
    BY <1>1, <1>3, WrappersAreReserved DEF Calls
  <1>6. \A w \in 1 .. Len(WrapperName) : WrapperName[w] \in ToSet(WrapperName)
    BY WrappersAreReserved
  <1>7. \A f \in 1 .. Len(fs) : gs[f].name \notin ToSet(WrapperName)
    BY <1>1, <1>2, <1>3, WrappersAreReserved
  <1>8. Len(gs) = Len(fs) + 0 /\ 1 .. 0 = {}
    BY <1>2, <1>3
  <1>9. HasWrappers(gs, Len(fs), 0)
    BY <1>5, <1>6, <1>7, <1>8 DEF HasWrappers
  <1> QED
    BY <1>4, <1>9

LEMMA InitGivesCalls == Init => CallsInv
  <1> SUFFICES ASSUME Init PROVE CallsInv
    OBVIOUS
  <1>1. /\ arguments \in Arguments /\ input = arguments.input /\ functions = input
        /\ pass = "start" /\ function_infos = <<>> /\ call_site_counter = 0
        /\ wrappers = 0 /\ output_param_map = <<>>
    BY DEF Init
  <1>2. Clean(input)
    BY <1>1, InputIsClean
  <1>3. NumbersInv
    <2>1. SourcesOnce(functions) /\ \A i \in InstructionsOf(functions) : i.meta = {}
      BY <1>1, <1>2, CleanIs
    <2>2. DOMAIN function_infos = {}
      BY <1>1
    <2> QED
      BY <2>1, <2>2 DEF NumbersInv, IsSiteOnce, CallSiteIds
  <1>4. WrapperInv
    BY <1>1, <1>2, LooksLikeItself, NoWrappers DEF WrapperInv
  <1>5. UntouchedInv /\ AddingInv /\ SinksInv
    BY <1>1 DEF UntouchedInv, AddingInv, SinksInv, Wrapped
  <1> QED
    BY <1>2, <1>3, <1>4, <1>5 DEF CallsInv, InputInv

LEMMA StartKeepsCalls == PassesInv /\ CallsInv /\ Start => CallsInv'
  <1> SUFFICES ASSUME PassesInv, CallsInv, Start PROVE CallsInv'
    OBVIOUS
  <1>1. /\ arguments \in Arguments /\ functions = arguments.input
        /\ pass = "start" /\ pass' \in {"print", "configure"}
        /\ function_infos = <<>> /\ call_site_counter = 0 /\ wrappers = 0
        /\ output_param_map = <<>>
    BY DEF PassesInv, ModuleInv, CallsInv, UntouchedInv, Untouched, SinksInv, BeforeWrapping, Start
  <1>2. /\ UNCHANGED <<function_infos, call_site_counter, wrappers, output_param_map>>
        /\ functions' = IF arguments.add_main THEN WithMain(arguments.input) ELSE arguments.input
        /\ input' = functions'
    BY <1>1 DEF Start, metadata_vars, wrap_vars
  <1>3. Clean(input')
    <2>1. CASE arguments.add_main
      BY <1>1, <1>2, <2>1, WithMainIsClean
    <2>2. CASE ~arguments.add_main
      BY <1>1, <1>2, <2>2, InputIsClean
    <2> QED
      BY <2>1, <2>2
  <1>4. NumbersInv'
    <2>1. SourcesOnce(functions') /\ \A i \in InstructionsOf(functions') : i.meta = {}
      BY <1>2, <1>3, CleanIs
    <2>2. DOMAIN function_infos' = {}
      BY <1>1, <1>2
    <2> QED
      BY <2>1, <2>2 DEF NumbersInv, IsSiteOnce, CallSiteIds
  <1>5. WrapperInv'
    BY <1>1, <1>2, <1>3, LooksLikeItself, NoWrappers DEF WrapperInv
  <1>6. UntouchedInv' /\ AddingInv' /\ SinksInv'
    BY <1>1, <1>2 DEF UntouchedInv, AddingInv, SinksInv, Wrapped
  <1> QED
    BY <1>3, <1>4, <1>5, <1>6 DEF CallsInv, InputInv

\* A step that leaves the input as it is.
LEMMA UntouchedKeepsCalls ==
    ASSUME PassesInv, CallsInv, pass \in Untouched, pass' \in Untouched \cup {"add_sources", "done"},
           UNCHANGED <<functions, input, function_infos, call_site_counter, wrappers,
                       output_param_map>>
    PROVE  CallsInv'
  <1>1. functions = input /\ function_infos = <<>> /\ call_site_counter = 0 /\ Clean(input)
    BY DEF CallsInv, UntouchedInv, InputInv
  <1>2. IsModule(functions) /\ \A f \in DOMAIN functions : \A k \in DOMAIN functions[f].body :
          ~IsSink(functions[f].body[k])
    BY <1>1, CleanIs DEF IsSink, HasParamOfType
  <1>3. NumbersInv'
    <2>1. SourcesOnce(functions') /\ \A i \in InstructionsOf(functions') : i.meta = {}
      BY <1>1, CleanIs
    <2>2. DOMAIN function_infos' = {}
      BY <1>1
    <2> QED
      BY <2>1, <2>2 DEF NumbersInv, IsSiteOnce, CallSiteIds
  <1>4. WrapperInv'
    BY <1>1, <1>2, SameRearranged, WrappersKept DEF CallsInv
  <1>5. UntouchedInv' /\ AddingInv' /\ InputInv'
    BY <1>1 DEF UntouchedInv, AddingInv, Untouched, InputInv
  <1>6. SinksInv'
    <2>1. pass \in BeforeWrapping /\ pass' # "wrap_sinks"
      BY DEF Untouched, BeforeWrapping
    <2> QED
      BY <1>1, <1>2, <2>1 DEF CallsInv, SinksInv
  <1> QED
    BY <1>3, <1>4, <1>5, <1>6 DEF CallsInv

LEMMA PrintKeepsCalls == PassesInv /\ CallsInv /\ PrintSourcesAndSinks => CallsInv'
  <1> SUFFICES ASSUME PassesInv, CallsInv, PrintSourcesAndSinks PROVE CallsInv'
    OBVIOUS
  <1>1. /\ pass = "print" /\ pass' = pass /\ at[2] <= Len(Body) /\ Visit(<<>>, Current)
        /\ UNCHANGED <<input, function_infos, call_site_counter, wrappers, output_param_map>>
    BY DEF PrintSourcesAndSinks, Visiting, metadata_vars, wrap_vars
  <1>2. functions' = functions
    BY <1>1, VisitSame DEF PassesInv, ModuleInv
  <1> QED
    BY <1>1, <1>2, UntouchedKeepsCalls DEF Untouched

-----------------------------------------------------------------------------
(* Counting call-sites                                                     *)

LEMMA CallSiteIs ==
    ASSUME IsModule(input), NEW p \in CallSites
    PROVE  /\ p = <<p[1], p[2]>> /\ p[1] \in DOMAIN input /\ p[2] \in DOMAIN input[p[1]].body
           /\ p[1] \in Nat /\ p[2] \in Nat
  <1>1. PICK f \in DOMAIN input : p \in {f} \X DOMAIN input[f].body
    BY DEF CallSites, Program
  <1>2. p = <<p[1], p[2]>> /\ p[1] = f /\ p[2] \in DOMAIN input[f].body
    BY <1>1
  <1>3. f \in Nat /\ DOMAIN input[f].body \subseteq Nat
    <2>1. /\ DOMAIN input = 1 .. Len(input) /\ Len(input) \in Nat
          /\ DOMAIN input[f].body = 1 .. Len(input[f].body) /\ Len(input[f].body) \in Nat
      BY ModuleIs
    <2> QED
      BY <2>1
  <1> QED
    BY <1>2, <1>3

LEMMA CallSitesAreFinite ==
    ASSUME IsModule(input)
    PROVE  /\ IsFiniteSet(CallSites)
           /\ \A p : IsFiniteSet(CallSitesBefore(p)) /\ Cardinality(CallSitesBefore(p)) \in Nat
  <1> PICK n, g : n = Len(input) /\ g = [f \in DOMAIN input |-> Len(input[f].body)]
    OBVIOUS
  <1>1. /\ n \in Nat /\ DOMAIN input = 1 .. n
        /\ \A f \in 1 .. n : g[f] \in Nat /\ DOMAIN input[f].body = 1 .. g[f]
    BY ModuleIs
  <1>2. \E b \in Nat : \A f \in 1 .. n : g[f] <= b
    <2>1. \A f \in 1 .. n : g[f] \in Nat
      BY <1>1
    <2> QED
      BY <1>1, <2>1, Bounded
  <1> PICK b \in Nat : \A f \in 1 .. n : g[f] <= b
    BY <1>2
  <1>3. CallSites \subseteq (1 .. n) \X (1 .. b)
    <2> SUFFICES ASSUME NEW p \in CallSites PROVE p \in (1 .. n) \X (1 .. b)
      OBVIOUS
    <2>1. p = <<p[1], p[2]>> /\ p[1] \in 1 .. n /\ p[2] \in 1 .. g[p[1]]
      BY <1>1, CallSiteIs
    <2> PICK l, c : l = g[p[1]] /\ c = p[2]
      OBVIOUS
    <2>2. l \in Nat /\ l <= b /\ c \in 1 .. l
      BY <1>1, <2>1
    <2>3. c \in 1 .. b
      BY <2>2
    <2> QED
      BY <2>1, <2>3
  <1>4. IsFiniteSet((1 .. n) \X (1 .. b))
    <2>1. IsFiniteSet(1 .. n) /\ IsFiniteSet(1 .. b)
      BY <1>1, FS_Interval
    <2> QED
      BY <2>1, FS_Product
  <1>5. IsFiniteSet(CallSites)
    BY <1>3, <1>4, FS_Subset
  <1>6. ASSUME NEW p
        PROVE  IsFiniteSet(CallSitesBefore(p)) /\ Cardinality(CallSitesBefore(p)) \in Nat
    <2>1. CallSitesBefore(p) \subseteq CallSites
      BY DEF CallSitesBefore
    <2>2. IsFiniteSet(CallSitesBefore(p))
      BY <1>5, <2>1, FS_Subset
    <2> QED
      BY <2>2, FS_CardinalityType
  <1> QED
    BY <1>5, <1>6

\* One instruction further there is one call-site more, or as many.
LEMMA NextPlace ==
    ASSUME IsModule(input), NEW p, NEW q, p[1] \in Nat, p[2] \in Nat,
           q[1] = p[1], q[2] = p[2] + 1
    PROVE  /\ <<p[1], p[2]>> \in CallSites =>
                Cardinality(CallSitesBefore(q)) = Cardinality(CallSitesBefore(p)) + 1
           /\ <<p[1], p[2]>> \notin CallSites => CallSitesBefore(q) = CallSitesBefore(p)
  <1> PICK x, y : x = p[1] /\ y = p[2]
    OBVIOUS
  <1>1. \A s \in CallSites : s = <<s[1], s[2]>> /\ s[1] \in Nat /\ s[2] \in Nat
    BY CallSiteIs
  <1>2. \A s \in CallSites :
          s[1] < x \/ (s[1] = x /\ s[2] < y + 1) <=>
            (s[1] < x \/ (s[1] = x /\ s[2] < y)) \/ s = <<x, y>>
    <2> TAKE s \in CallSites
    <2>1. s = <<s[1], s[2]>> /\ s[1] \in Nat /\ s[2] \in Nat /\ x \in Nat /\ y \in Nat
      BY <1>1
    <2>2. s = <<x, y>> <=> s[1] = x /\ s[2] = y
      BY <2>1
    <2>3. s[2] < y + 1 <=> s[2] < y \/ s[2] = y
      BY <2>1
    <2>4. ~(s[1] < x /\ s[1] = x)
      BY <2>1
    <2> QED
      BY <2>2, <2>3, <2>4
  <1>3. CallSitesBefore(q) = CallSitesBefore(p) \cup (CallSites \cap {<<x, y>>})
    BY <1>2 DEF CallSitesBefore
  <1>4. <<x, y>> \notin CallSitesBefore(p)
    <2>1. ~(x < x) /\ ~(y < y)
      OBVIOUS
    <2>2. <<x, y>>[1] = x /\ <<x, y>>[2] = y
      OBVIOUS
    <2> QED
      BY <2>1, <2>2 DEF CallSitesBefore
  <1>5. ASSUME <<x, y>> \in CallSites
        PROVE  Cardinality(CallSitesBefore(q)) = Cardinality(CallSitesBefore(p)) + 1
    <2>1. CallSitesBefore(q) = CallSitesBefore(p) \cup {<<x, y>>}
      BY <1>3, <1>5
    <2>2. IsFiniteSet(CallSitesBefore(p))
      BY CallSitesAreFinite
    <2> PICK A, z : A = CallSitesBefore(p) /\ z = <<x, y>>
      OBVIOUS
    <2>3. Cardinality(A \cup {z}) = IF z \in A THEN Cardinality(A) ELSE Cardinality(A) + 1
      BY <2>2, FS_AddElement, Zenon
    <2>4. z \notin A
      BY <1>4
    <2>5. Cardinality(A \cup {z}) = Cardinality(A) + 1
      BY <2>3, <2>4
    <2> QED
      BY <2>1, <2>5
  <1>6. <<x, y>> \notin CallSites => CallSitesBefore(q) = CallSitesBefore(p)
    BY <1>3
  <1> QED
    BY <1>5, <1>6

\* Different call-sites have different numbers.
LEMMA NumbersDiffer ==
    ASSUME IsModule(input), NEW p \in CallSites, NEW q \in CallSites,
           Cardinality(CallSitesBefore(p)) = Cardinality(CallSitesBefore(q))
    PROVE  p = q
  <1> DEFINE Earlier(s, t) == s[1] < t[1] \/ (s[1] = t[1] /\ s[2] < t[2])
  <1>1. /\ p = <<p[1], p[2]>> /\ p[1] \in Nat /\ p[2] \in Nat
        /\ q = <<q[1], q[2]>> /\ q[1] \in Nat /\ q[2] \in Nat
    BY CallSiteIs
  <1>2. ASSUME NEW s \in CallSites, NEW t \in CallSites, Earlier(s, t)
        PROVE  Cardinality(CallSitesBefore(s)) # Cardinality(CallSitesBefore(t))
    <2>1. /\ s[1] \in Nat /\ s[2] \in Nat /\ t[1] \in Nat /\ t[2] \in Nat
          /\ \A u \in CallSites : u[1] \in Nat /\ u[2] \in Nat
      BY CallSiteIs
    <2> DEFINE A == CallSitesBefore(s)
               B == CallSitesBefore(t)
    <2>2. \A u \in CallSites : Earlier(u, s) => Earlier(u, t)
      BY <1>2, <2>1
    <2>3. A \cup {s} \subseteq B /\ s \notin A
      <3>1. ~Earlier(s, s)
        BY <2>1
      <3> QED
        BY <1>2, <2>2, <3>1 DEF CallSitesBefore
    <2>4. /\ IsFiniteSet(A) /\ IsFiniteSet(B)
          /\ Cardinality(A) \in Nat /\ Cardinality(B) \in Nat
      BY CallSitesAreFinite
    <2> HIDE DEF A, B
    <2>5. Cardinality(A \cup {s}) = Cardinality(A) + 1
      BY <2>3, <2>4, FS_AddElement
    <2>6. Cardinality(A \cup {s}) <= Cardinality(B)
      BY <2>3, <2>4, FS_Subset
    <2>7. Cardinality(A) # Cardinality(B)
      BY <2>4, <2>5, <2>6
    <2> QED
      BY <2>7 DEF A, B
  <1>3. p = q \/ Earlier(p, q) \/ Earlier(q, p)
    <2>1. p[1] < q[1] \/ q[1] < p[1] \/ p[1] = q[1]
      BY <1>1
    <2>2. p[2] < q[2] \/ q[2] < p[2] \/ p[2] = q[2]
      BY <1>1
    <2>3. p[1] = q[1] /\ p[2] = q[2] => p = q
      BY <1>1, Zenon
    <2> QED
      BY <2>1, <2>2, <2>3
  <1> HIDE DEF Earlier
  <1> QED
    BY <1>2, <1>3

-----------------------------------------------------------------------------
(* AddMetadata                                                             *)

\* A visit that inserts nothing.
LEMMA VisitWithNone ==
    ASSUME Positioned, at[2] <= Len(Body), NEW B, NEW before \in Seq(B), NEW new,
           Visit(before, new)
    PROVE  Len(before) = 0 =>
             /\ IsModule(functions') /\ HasReplaced(functions', functions, at[1], at[2], new)
             /\ at'[1] = at[1] /\ at'[2] = at[2] + 1
             /\ at[1] \in DOMAIN functions /\ at[2] \in DOMAIN functions[at[1]].body
             /\ Current = functions[at[1]].body[at[2]]
  <1> PICK p, m, n : p = at[2] /\ m = Len(before) /\ n = Len(Body)
    OBVIOUS
  <1>2. /\ IsModule(functions') /\ DOMAIN functions' = DOMAIN functions
        /\ at'[1] = at[1] /\ at'[2] = p + m + 1
        /\ \A f \in DOMAIN functions : functions'[f].name = functions[f].name
        /\ \A f \in DOMAIN functions \ {at[1]} : functions'[f] = functions[f]
        /\ Len(Body') = n + m
        /\ \A k \in 1 .. p - 1 : Body'[k] = Body[k]
        /\ Body'[p + m] = new
        /\ \A k \in p + 1 .. n : Body'[k + m] = Body[k]
    BY VisitStep, SMTT(30) DEF Positioned
  <1>1. SUFFICES ASSUME m = 0
                 PROVE  /\ IsModule(functions')
                        /\ HasReplaced(functions', functions, at[1], at[2], new)
                        /\ at'[1] = at[1] /\ at'[2] = at[2] + 1
                        /\ at[1] \in DOMAIN functions /\ at[2] \in DOMAIN functions[at[1]].body
                        /\ Current = functions[at[1]].body[at[2]]
    OBVIOUS
  <1>3. /\ at[1] \in DOMAIN functions /\ functions[at[1]].body = Body
        /\ DOMAIN Body = 1 .. n /\ n \in Nat /\ p \in 1 .. n
    BY ModuleIs DEF Positioned, Body
  <1>4. IsModule(functions') /\ functions'[at[1]].body = Body' /\ DOMAIN Body' = 1 .. Len(Body')
    <2>1. IsModule(functions') /\ functions'[at[1]].body = Body' /\ at[1] \in DOMAIN functions'
      BY <1>2, <1>3 DEF Body
    <2> QED
      BY <2>1, ModuleIs
  <1>5. p + m = p /\ n + m = n /\ p + m + 1 = p + 1 /\ \A k \in p + 1 .. n : k + m = k
    BY <1>1, <1>3
  <1>6. \A k \in 1 .. n : k = p \/ k \in 1 .. p - 1 \/ k \in p + 1 .. n
    BY <1>3
  <1>7. \A k \in 1 .. n : k # p => Body'[k] = Body[k]
    BY <1>2, <1>5, <1>6
  <1>8. HasReplaced(functions', functions, at[1], p, new)
    BY <1>2, <1>3, <1>4, <1>5, <1>7 DEF HasReplaced
  <1> QED
    BY <1>2, <1>3, <1>4, <1>5, <1>8 DEF Current

LEMMA VisitReplaces ==
    ASSUME Positioned, at[2] <= Len(Body), NEW new, Visit(<<>>, new)
    PROVE  /\ IsModule(functions') /\ HasReplaced(functions', functions, at[1], at[2], new)
           /\ at'[1] = at[1] /\ at'[2] = at[2] + 1
           /\ at[1] \in DOMAIN functions /\ at[2] \in DOMAIN functions[at[1]].body
           /\ Current = functions[at[1]].body[at[2]]
  <1>1. <<>> \in Seq({}) /\ Len(<<>>) = 0
    OBVIOUS
  <1> PICK B, before : B = {} /\ before = <<>>
    OBVIOUS
  <1>2. before \in Seq(B) /\ Len(before) = 0 /\ Visit(before, new)
    BY <1>1
  <1> QED
    BY <1>2, VisitWithNone

\* One instruction is replaced by one that differs in operands and metadata.
LEMMA ReplacedLooksAlike ==
    ASSUME NEW hs, NEW gs, NEW fs, LookAlike(gs, fs), NEW f, NEW k, NEW new,
           HasReplaced(hs, gs, f, k, new), Len(hs) = Len(gs),
           new.op = gs[f].body[k].op, new.fn = gs[f].body[k].fn, new.src = gs[f].body[k].src,
           new.tags = gs[f].body[k].tags
    PROVE  LookAlike(hs, fs)
  <1>1. /\ DOMAIN gs = DOMAIN fs /\ Len(gs) = Len(fs)
        /\ \A g \in DOMAIN fs :
             gs[g].name = fs[g].name /\ DOMAIN gs[g].body = DOMAIN fs[g].body
        /\ \A g \in DOMAIN fs : \A l \in DOMAIN fs[g].body :
             /\ gs[g].body[l].op = fs[g].body[l].op
             /\ gs[g].body[l].fn = fs[g].body[l].fn
             /\ gs[g].body[l].src = fs[g].body[l].src
             /\ gs[g].body[l].tags = fs[g].body[l].tags
    BY DEF LookAlike
  <1>2. /\ DOMAIN hs = DOMAIN gs
        /\ \A g \in DOMAIN gs : hs[g].name = gs[g].name
        /\ \A g \in DOMAIN gs \ {f} : hs[g] = gs[g]
        /\ DOMAIN hs[f].body = DOMAIN gs[f].body
        /\ hs[f].body[k] = new
        /\ \A l \in DOMAIN gs[f].body \ {k} : hs[f].body[l] = gs[f].body[l]
    BY DEF HasReplaced
  <1>3. ASSUME NEW g \in DOMAIN fs
        PROVE  /\ hs[g].name = fs[g].name /\ DOMAIN hs[g].body = DOMAIN fs[g].body
               /\ \A l \in DOMAIN fs[g].body :
                    /\ hs[g].body[l].op = fs[g].body[l].op
                    /\ hs[g].body[l].fn = fs[g].body[l].fn
                    /\ hs[g].body[l].src = fs[g].body[l].src
                    /\ hs[g].body[l].tags = fs[g].body[l].tags
    <2>1. CASE g # f
      BY <1>1, <1>2, <2>1
    <2>2. CASE g = f
      <3>1. hs[g].name = fs[g].name /\ DOMAIN hs[g].body = DOMAIN fs[g].body
        BY <1>1, <1>2, <2>2
      <3>2. ASSUME NEW l \in DOMAIN fs[g].body
            PROVE  /\ hs[g].body[l].op = gs[g].body[l].op
                   /\ hs[g].body[l].fn = gs[g].body[l].fn
                   /\ hs[g].body[l].src = gs[g].body[l].src
                   /\ hs[g].body[l].tags = gs[g].body[l].tags
        <4>1. CASE l = k
          BY <1>2, <2>2, <4>1
        <4>2. CASE l # k
          BY <1>1, <1>2, <2>2, <4>2
        <4> QED
          BY <4>1, <4>2
      <3> QED
        BY <1>1, <3>1, <3>2
    <2> QED
      BY <2>1, <2>2
  <1> QED
    BY <1>1, <1>2, <1>3 DEF LookAlike

\* AddMetadata gives the next number to the instruction that it visits, if that
\* is a call-site.
LEMMA AddMetadataStep ==
    ASSUME PassesInv, CallsInv, pass = "add_metadata", pass' = pass, at[2] <= Len(Body),
           NEW new, Visit(<<>>, new),
           new.op = Current.op, new.fn = Current.fn, new.src = Current.src,
           new.tags = Current.tags,
           UNCHANGED <<input, function_infos, wrappers, output_param_map>>,
           <<at[1], at[2]>> \in CallSites =>
             /\ call_site_counter' = call_site_counter + 1
             /\ new.meta # {} /\ CallSiteIds(new) = {call_site_counter},
           <<at[1], at[2]>> \notin CallSites =>
             call_site_counter' = call_site_counter /\ new.meta = {}
    PROVE  CallsInv'
  <1> PICK h, c, place : h = at[1] /\ c = at[2] /\ place = <<at[1], at[2]>>
    OBVIOUS
  <1>1. /\ IsModule(functions') /\ HasReplaced(functions', functions, h, c, new)
        /\ at'[1] = h /\ at'[2] = c + 1
        /\ h \in DOMAIN functions /\ c \in DOMAIN functions[h].body
        /\ Current = functions[h].body[c]
    BY VisitReplaces DEF PassesInv, ModuleInv
  <1>2. /\ IsModule(functions) /\ h \in Nat /\ c \in Nat
        /\ \A f \in DOMAIN functions : f \in Nat /\ \A k \in DOMAIN functions[f].body : k \in Nat
    <2>1. IsModule(functions)
      BY DEF PassesInv, ModuleInv, Positioned
    <2>2. /\ DOMAIN functions = 1 .. Len(functions) /\ Len(functions) \in Nat
          /\ \A f \in DOMAIN functions : /\ Len(functions[f].body) \in Nat
                                         /\ DOMAIN functions[f].body = 1 .. Len(functions[f].body)
      BY <2>1, ModuleIs
    <2>3. \A f \in DOMAIN functions : f \in Nat /\ \A k \in DOMAIN functions[f].body : k \in Nat
      BY <2>2
    <2> QED
      BY <1>1, <2>1, <2>3
  <1>3. /\ Clean(input) /\ LookAlike(functions, input)
        /\ call_site_counter = Cardinality(CallSitesBefore(at))
        /\ \A f \in DOMAIN functions : \A k \in DOMAIN functions[f].body : IsNumberedUpTo(f, k)
        /\ wrappers = 0 /\ output_param_map = <<>> /\ NumbersInv
    BY DEF CallsInv, InputInv, AddingInv, SinksInv, BeforeWrapping
  <1>4. LookAlike(functions', input)
    <2>1. Len(functions') = Len(functions)
      BY <1>1, <1>2, SameLength DEF HasReplaced
    <2> QED
      BY <1>1, <1>3, <2>1, ReplacedLooksAlike
  <1>5. SourcesOnce(functions') /\ WrapperInv'
    <2>1. SourcesOnce(functions') /\ HasWrappers(functions', Len(input), 0)
      BY <1>3, <1>4, NoWrappers
    <2> QED
      BY <1>3, <2>1 DEF WrapperInv
  <1>6. /\ h \in DOMAIN input /\ c \in DOMAIN input[h].body
        /\ input[h].body[c].src = new.src /\ input[h].body[c].fn = new.fn
        /\ new.src # 0 /\ new.fn \notin Reserved
    <2>1. /\ h \in DOMAIN input /\ c \in DOMAIN input[h].body
          /\ input[h].body[c].src = new.src /\ input[h].body[c].fn = new.fn
      BY <1>1, <1>3 DEF LookAlike
    <2> QED
      BY <1>3, <2>1, CleanIs
  <1>7. CallSitesBefore(place) = CallSitesBefore(at) /\ place[1] = h /\ place[2] = c
    BY DEF CallSitesBefore
  <1>8. /\ CallSites' = CallSites
        /\ \A id, src : IsNumberOf(id, src) => IsNumberOf(id, src)'
    BY SameCallSites
  <1>9. IsSiteOnce(new)'
    <2> PICK n, src : n = call_site_counter /\ src = new.src
      OBVIOUS
    <2>1. ASSUME place \in CallSites PROVE IsNumberOf(n, src)
      <3>1. input[place[1]].body[place[2]].src = src /\ n = Cardinality(CallSitesBefore(place))
        BY <1>3, <1>6, <1>7
      <3> QED
        BY <2>1, <3>1 DEF IsNumberOf
    <2>2. CASE place \in CallSites
      <3>1. CallSiteIds(new) = {n} /\ IsNumberOf(n, src)'
        BY <1>8, <2>1, <2>2
      <3> QED
        BY <1>6, <3>1 DEF IsSiteOnce
    <2>3. CASE place \notin CallSites
      <3>1. new.meta = {}
        BY <2>3
      <3> QED
        BY <3>1 DEF IsSiteOnce, CallSiteIds
    <2> QED
      BY <2>2, <2>3
  <1>10. ASSUME NEW i \in InstructionsOf(functions')
         PROVE  IsSiteOnce(i)'
    <2>1. PICK f \in DOMAIN functions' : \E k \in DOMAIN functions'[f].body : i = functions'[f].body[k]
      BY <1>1, ModuleIs
    <2>2. PICK k \in DOMAIN functions'[f].body : i = functions'[f].body[k]
      BY <2>1
    <2>3. i = new \/ (f \in DOMAIN functions /\ k \in DOMAIN functions[f].body /\ i = functions[f].body[k])
      BY <1>1, <2>2 DEF HasReplaced
    <2>4. CASE f \in DOMAIN functions /\ k \in DOMAIN functions[f].body /\ i = functions[f].body[k]
      <3>1. i \in InstructionsOf(functions)
        BY <1>2, <2>4, ModuleIs
      <3>2. IsSiteOnce(i)
        BY <1>3, <3>1 DEF NumbersInv
      <3> QED
        BY <1>8, <3>2 DEF IsSiteOnce
    <2> QED
      BY <1>9, <2>3, <2>4
  <1>11. NumbersInv'
    BY <1>3, <1>5, <1>10 DEF NumbersInv
  <1>12. call_site_counter' = Cardinality(CallSitesBefore(at))'
    <2> PICK q : q = at'
      OBVIOUS
    <2>1. CallSitesBefore(at)' = CallSitesBefore(q)
      BY <1>8 DEF CallSitesBefore
    <2>2. /\ place \in CallSites =>
               Cardinality(CallSitesBefore(q)) = Cardinality(CallSitesBefore(place)) + 1
          /\ place \notin CallSites => CallSitesBefore(q) = CallSitesBefore(place)
      <3>1. q[1] = place[1] /\ q[2] = place[2] + 1 /\ place[1] \in Nat /\ place[2] \in Nat
        BY <1>1, <1>2, <1>7
      <3>2. IsModule(input) /\ <<place[1], place[2]>> = place
        BY <1>3, <1>7, CleanIs
      <3> QED
        BY <3>1, <3>2, NextPlace
    <2> QED
      BY <1>3, <1>7, <2>1, <2>2
  <1>13. ASSUME NEW f \in DOMAIN functions', NEW k \in DOMAIN functions'[f].body
         PROVE  IsNumberedUpTo(f, k)'
    <2>1. f \in DOMAIN functions /\ k \in DOMAIN functions[f].body
      BY <1>1 DEF HasReplaced
    <2>2. f \in Nat /\ k \in Nat
      BY <1>2, <2>1
    <2>3. CASE f = h /\ k = c
      <3>1. functions'[f].body[k] = new
        BY <1>1, <2>3 DEF HasReplaced
      <3>2. Passed(f, k)'
        BY <1>1, <2>2, <2>3 DEF Passed
      <3>3. <<f, k>> \in CallSites' => new.meta # {}
        BY <1>8, <2>3
      <3> QED
        BY <3>1, <3>2, <3>3 DEF IsNumberedUpTo
    <2>4. CASE ~(f = h /\ k = c)
      <3>1. functions'[f].body[k] = functions[f].body[k]
        BY <1>1, <2>1, <2>4 DEF HasReplaced
      <3>2. Passed(f, k)' <=> Passed(f, k)
        <4>1. k < c + 1 <=> k < c \/ k = c
          BY <1>2, <2>2
        <4> QED
          BY <1>1, <2>4, <4>1 DEF Passed
      <3>3. IsNumberedUpTo(f, k)
        BY <1>3, <2>1
      <3> QED
        BY <1>8, <3>1, <3>2, <3>3 DEF IsNumberedUpTo
    <2> QED
      BY <2>3, <2>4
  <1>14. AddingInv'
    BY <1>3, <1>4, <1>12, <1>13 DEF AddingInv
  <1>15. InputInv' /\ UntouchedInv' /\ SinksInv'
    BY <1>3 DEF InputInv, UntouchedInv, Untouched, SinksInv, Wrapped
  <1> QED
    BY <1>5, <1>11, <1>14, <1>15 DEF CallsInv

LEMMA VisitsCallSite ==
    ASSUME PassesInv, CallsInv, pass = "add_metadata", at[2] <= Len(Body)
    PROVE  /\ <<at[1], at[2]>> \in CallSites <=>
                IsDirectCall(Current) /\ Current.fn \in DOMAIN function_infos
           /\ Current.meta = {} /\ Current.tags = {} /\ IsRecord(Current)
  <1> PICK h, c, place : h = at[1] /\ c = at[2] /\ place = <<at[1], at[2]>>
    OBVIOUS
  <1>1. /\ h \in DOMAIN functions /\ c \in DOMAIN functions[h].body
        /\ Current = functions[h].body[c] /\ h \in Nat /\ c \in Nat /\ IsRecord(Current)
    <2>1. /\ h \in DOMAIN functions /\ IsModule(functions)
          /\ c \in 1 .. Len(Body) + 1 /\ c <= Len(Body)
      BY DEF PassesInv, ModuleInv, Positioned
    <2>2. /\ DOMAIN functions = 1 .. Len(functions) /\ Len(functions) \in Nat
          /\ Len(Body) \in Nat /\ DOMAIN Body = 1 .. Len(Body)
      BY <2>1, ModuleIs DEF Body
    <2>3. h \in Nat /\ c \in Nat /\ c \in DOMAIN Body
      BY <2>1, <2>2
    <2>4. IsRecord(Current)
      BY CurrentIs DEF PassesInv, ModuleInv, IsInstruction
    <2> QED
      BY <2>1, <2>3, <2>4 DEF Body, Current
  <1>2. LookAlike(functions, input) /\ IsNumberedUpTo(h, c)
    BY <1>1 DEF CallsInv, AddingInv
  <1>3. Current.meta = {}
    <2>1. ~Passed(h, c)
      BY <1>1 DEF Passed
    <2> QED
      BY <1>1, <1>2, <2>1 DEF IsNumberedUpTo
  <1>4. /\ h \in DOMAIN input /\ c \in DOMAIN input[h].body
        /\ input[h].body[c].op = Current.op /\ input[h].body[c].fn = Current.fn
        /\ input[h].body[c].tags = Current.tags
    BY <1>1, <1>2 DEF LookAlike
  <1>4a. Current.tags = {}
    <2>1. Clean(input) /\ input[h].body[c] \in InstructionsOf(input)
      BY <1>4, CleanIs, ModuleIs DEF CallsInv, InputInv
    <2> QED
      BY <1>4, <2>1, CleanIs
  <1>5. place \in UNION {{f} \X DOMAIN input[f].body : f \in Program}
    <2>1. place \in {h} \X DOMAIN input[h].body
      BY <1>4
    <2> QED
      BY <1>4, <2>1 DEF Program
  <1>6. place[1] = h /\ place[2] = c
    OBVIOUS
  <1>7. place \in CallSites <=>
          IsDirectCall(input[h].body[c]) /\ input[h].body[c].fn \in DOMAIN function_infos
    BY <1>5, <1>6 DEF CallSites
  <1> QED
    BY <1>1, <1>3, <1>4, <1>4a, <1>7 DEF IsDirectCall

LEMMA AddMetadataSkipKeepsCalls == PassesInv /\ CallsInv /\ AddMetadata_Skip => CallsInv'
  <1> SUFFICES ASSUME PassesInv, CallsInv, AddMetadata_Skip PROVE CallsInv'
    OBVIOUS
  <1> PICK new : new = Current
    OBVIOUS
  <1>1. /\ pass = "add_metadata" /\ pass' = pass /\ at[2] <= Len(Body) /\ Visit(<<>>, new)
        /\ ~(IsDirectCall(Current) /\ Current.fn \in DOMAIN function_infos)
        /\ UNCHANGED <<input, function_infos, call_site_counter, wrappers, output_param_map>>
    BY DEF AddMetadata_Skip, Visiting, metadata_vars, wrap_vars, history
  <1>2. <<at[1], at[2]>> \notin CallSites /\ new.meta = {}
    BY <1>1, VisitsCallSite
  <1> QED
    BY <1>1, <1>2, AddMetadataStep

LEMMA ConditionalUpdateKeepsCalls == PassesInv /\ CallsInv /\ ConditionalUpdate => CallsInv'
  <1> SUFFICES ASSUME PassesInv, CallsInv, ConditionalUpdate PROVE CallsInv'
    OBVIOUS
  <1> PICK meta : meta = CallSiteMetadata(call_site_counter,
                           ParamToLabels(function_infos[Current.fn], Current))
    OBVIOUS
  <1> PICK new : new = WithMeta(Current, meta)
    OBVIOUS
  <1>1. /\ pass = "add_metadata" /\ pass' = pass /\ at[2] <= Len(Body) /\ Visit(<<>>, new)
        /\ IsDirectCall(Current) /\ Current.fn \in DOMAIN function_infos
        /\ call_site_counter' = call_site_counter + 1
        /\ UNCHANGED <<input, function_infos, wrappers, output_param_map>>
    BY DEF ConditionalUpdate, Visiting, wrap_vars, history, WithMeta
  <1>2. <<at[1], at[2]>> \in CallSites /\ IsRecord(Current)
    BY <1>1, VisitsCallSite
  <1>3. /\ new.op = Current.op /\ new.fn = Current.fn /\ new.src = Current.src
        /\ new.tags = Current.tags /\ new.meta = meta
    BY <1>2, WithMetaIs
  <1>4. new.meta # {} /\ CallSiteIds(new) = {call_site_counter}
    <2> PICK labels : labels = ParamToLabels(function_infos[Current.fn], Current)
      OBVIOUS
    <2> PICK m : m = [id |-> call_site_counter, params |-> labels]
      OBVIOUS
    <2>1. meta = {m} /\ m.id = call_site_counter
      BY DEF CallSiteMetadata
    <2> QED
      BY <1>3, <2>1 DEF CallSiteIds
  <1> QED
    BY <1>1, <1>2, <1>3, <1>4, AddMetadataStep

\* The configuration names functions of the module, which are none of clam-prov's.
LEMMA ConfiguredAreDeclared ==
    ASSUME NEW lines, NEW declared
    PROVE  DOMAIN FunctionInfos(lines, declared) \subseteq declared
  BY DEF FunctionInfos

LEMMA LoadInputFileKeepsCalls == PassesInv /\ CallsInv /\ LoadInputFile => CallsInv'
  <1> SUFFICES ASSUME PassesInv, CallsInv, LoadInputFile PROVE CallsInv'
    OBVIOUS
  <1>1. /\ pass = "configure" /\ at = <<1, 1>>
        /\ UNCHANGED <<functions, at, call_site_counter, input, wrappers, output_param_map>>
    BY DEF LoadInputFile, module_vars, wrap_vars, history, PassesInv, ModuleInv, Beginnings
  <1>2. CASE pass' = "add_sources" /\ UNCHANGED function_infos
    BY <1>1, <1>2, UntouchedKeepsCalls DEF Untouched
  <1>3. CASE /\ pass' = "add_metadata"
             /\ \E lines \in arguments.add_metadata_config :
                  function_infos' = FunctionInfos(lines, Declared)
    <2>1. functions = input /\ call_site_counter = 0 /\ Clean(input)
      BY <1>1 DEF CallsInv, UntouchedInv, Untouched, InputInv
    <2>2. /\ IsModule(input) /\ SourcesOnce(input)
          /\ \A f \in DOMAIN input : \A k \in DOMAIN input[f].body : input[f].body[k].meta = {}
          /\ \A i \in InstructionsOf(input) : i.meta = {}
          /\ Named(input) \cap Reserved = {}
      BY <2>1, CleanIs
    <2>3. DOMAIN function_infos' \cap Reserved = {}
      BY <1>3, <2>1, <2>2, ConfiguredAreDeclared DEF Declared
    <2>4. NumbersInv'
      BY <1>1, <1>3, <2>1, <2>2, <2>3 DEF NumbersInv, IsSiteOnce, CallSiteIds
    <2>5. WrapperInv'
      BY <1>1, <2>1, <2>2, SameRearranged, WrappersKept DEF CallsInv
    <2>6. AddingInv'
      <3>1. LookAlike(functions, input)'
        BY <1>1, <2>1, LooksLikeItself
      <3>2. CallSitesBefore(at)' = {}
        <4>1. \A p \in CallSites' : p[1] \in Nat /\ p[2] \in Nat /\ p[1] # 0 /\ p[2] # 0
          <5> SUFFICES ASSUME NEW p \in CallSites'
                       PROVE  p[1] \in Nat /\ p[2] \in Nat /\ p[1] # 0 /\ p[2] # 0
            OBVIOUS
          <5>1. PICK f \in DOMAIN input : p \in {f} \X DOMAIN input[f].body
            BY <1>1 DEF CallSites, Program
          <5>2. /\ DOMAIN input = 1 .. Len(input) /\ Len(input) \in Nat
                /\ DOMAIN input[f].body = 1 .. Len(input[f].body) /\ Len(input[f].body) \in Nat
            BY <2>2, ModuleIs
          <5>3. p[1] = f /\ p[2] \in DOMAIN input[f].body
            BY <5>1
          <5> QED
            BY <5>2, <5>3
        <4>2. at'[1] = 1 /\ at'[2] = 1
          BY <1>1
        <4>3. \A p \in CallSites' : ~(p[1] < 1) /\ ~(p[2] < 1)
          BY <4>1
        <4> QED
          BY <4>2, <4>3 DEF CallSitesBefore
      <3>3. call_site_counter' = Cardinality(CallSitesBefore(at))'
        BY <1>1, <2>1, <3>2, FS_EmptySet
      <3>4. ASSUME NEW f \in DOMAIN functions', NEW k \in DOMAIN functions'[f].body
            PROVE  IsNumberedUpTo(f, k)'
        <4>1. functions'[f].body[k].meta = {} /\ f \in DOMAIN input /\ k \in DOMAIN input[f].body
          BY <1>1, <2>1, <2>2
        <4>2. ~Passed(f, k)'
          <5>1. /\ DOMAIN input = 1 .. Len(input) /\ Len(input) \in Nat
                /\ DOMAIN input[f].body = 1 .. Len(input[f].body) /\ Len(input[f].body) \in Nat
            BY <2>2, <4>1, ModuleIs
          <5>2. ~(f < 1) /\ ~(k < 1)
            BY <4>1, <5>1
          <5>3. at'[1] = 1 /\ at'[2] = 1
            BY <1>1
          <5> QED
            BY <5>2, <5>3 DEF Passed
        <4> QED
          BY <4>1, <4>2 DEF IsNumberedUpTo
      <3> QED
        BY <3>1, <3>3, <3>4 DEF AddingInv
    <2>7. InputInv' /\ UntouchedInv'
      BY <1>1, <1>3, <2>1 DEF InputInv, UntouchedInv, Untouched
    <2>8. SinksInv'
      BY <1>1, <1>3 DEF CallsInv, SinksInv, BeforeWrapping, Wrapped
    <2> QED
      BY <2>4, <2>5, <2>6, <2>7, <2>8 DEF CallsInv
  <1> QED
    BY <1>2, <1>3 DEF LoadInputFile

-----------------------------------------------------------------------------
(* From one function to the next, and from one pass to the next            *)

LEMMA EndIs ==
    ASSUME PassesInv, EndOfFunction
    PROVE  /\ UNCHANGED <<functions, input, function_infos, call_site_counter, wrappers,
                          output_param_map, calls_to_wrap>>
           /\ \/ /\ at[1] < Len(functions) /\ pass' = pass
                 /\ at'[1] = at[1] + 1 /\ at'[2] = 1
              \/ /\ at[1] = Len(functions) /\ pass' = NextPass[pass]
                 /\ at'[1] = 1 /\ at'[2] = 1
           /\ IsModule(functions) /\ at[1] \in Nat /\ at[2] \in Nat /\ Len(functions) \in Nat
           /\ \A f \in DOMAIN functions :
                /\ f \in Nat /\ 1 <= f /\ f <= Len(functions)
                /\ \A k \in DOMAIN functions[f].body :
                     k \in Nat /\ 1 <= k /\ (f = at[1] => k < at[2])
           /\ pass = "wrap_sinks" => calls_to_wrap = <<>>
           /\ pass \in {"print", "add_metadata", "add_sources", "wrap_sinks", "tags",
                        "dependency_map", "add_logging"}
  <1> PICK n : n = Len(functions)
    OBVIOUS
  <1>1. /\ UNCHANGED <<functions, input, function_infos, call_site_counter, wrappers,
                       output_param_map, calls_to_wrap>>
        /\ pass = "wrap_sinks" => calls_to_wrap = <<>>
        /\ at[2] > Len(Body)
        /\ pass \in {"print", "add_metadata", "add_sources", "wrap_sinks", "tags",
                     "dependency_map", "add_logging"}
    BY DEF EndOfFunction, metadata_vars, wrap_vars, history, NextPass
  <1>2. /\ IsModule(functions) /\ at[1] \in DOMAIN functions /\ at[2] \in 1 .. Len(Body) + 1
        /\ DOMAIN functions = 1 .. n /\ n \in Nat
        /\ functions[at[1]].body = Body /\ Len(Body) \in Nat
        /\ \A f \in DOMAIN functions :
             /\ DOMAIN functions[f].body = 1 .. Len(functions[f].body)
             /\ Len(functions[f].body) \in Nat
    BY ModuleIs DEF PassesInv, ModuleInv, Positioned, Body
  <1>3. at[1] \in Nat /\ at[2] \in Nat /\ 1 <= at[1] /\ at[1] <= n
    BY <1>2
  <1>4. \/ at[1] < n /\ pass' = pass /\ at'[1] = at[1] + 1 /\ at'[2] = 1
        \/ at[1] = n /\ pass' = NextPass[pass] /\ at'[1] = 1 /\ at'[2] = 1
    <2>1. IF at[1] < n THEN at' = <<at[1] + 1, 1>> /\ pass' = pass
                       ELSE at' = <<1, 1>> /\ pass' = NextPass[pass]
      BY Zenon DEF EndOfFunction
    <2>2. \A x, y : <<x, y>>[1] = x /\ <<x, y>>[2] = y
      OBVIOUS
    <2>3. at[1] < n \/ at[1] = n
      BY <1>2, <1>3
    <2>4. CASE at[1] < n
      BY <2>1, <2>2, <2>4
    <2>5. CASE ~(at[1] < n)
      BY <2>1, <2>2, <2>3, <2>5
    <2> QED
      BY <2>4, <2>5
  <1>5. ASSUME NEW f \in DOMAIN functions
        PROVE  /\ f \in Nat /\ 1 <= f /\ f <= n
               /\ \A k \in DOMAIN functions[f].body :
                    k \in Nat /\ 1 <= k /\ (f = at[1] => k < at[2])
    <2>1. f \in Nat /\ 1 <= f /\ f <= n
      BY <1>2
    <2>2. ASSUME NEW k \in DOMAIN functions[f].body
          PROVE  k \in Nat /\ 1 <= k /\ (f = at[1] => k < at[2])
      <3> PICK m, l : m = Len(functions[f].body) /\ l = Len(Body)
        OBVIOUS
      <3>1. k \in 1 .. m /\ m \in Nat /\ (f = at[1] => m = l) /\ l < at[2] /\ l \in Nat
        BY <1>1, <1>2
      <3> QED
        BY <1>3, <3>1
    <2> QED
      BY <2>1, <2>2
  <1> QED
    BY <1>1, <1>2, <1>3, <1>4, <1>5

\* AddMetadata is through with a function: the next number stays the same.
LEMMA EndKeepsAdding ==
    ASSUME PassesInv, CallsInv, EndOfFunction, pass = "add_metadata", pass' = "add_metadata"
    PROVE  AddingInv'
  <1> PICK h, c : h = at[1] /\ c = at[2]
    OBVIOUS
  <1>1. /\ UNCHANGED <<functions, input, function_infos, call_site_counter>>
        /\ at'[1] = h + 1 /\ at'[2] = 1 /\ h \in Nat /\ c \in Nat
        /\ \A f \in DOMAIN functions :
             /\ f \in Nat
             /\ \A k \in DOMAIN functions[f].body : k \in Nat /\ 1 <= k /\ (f = h => k < c)
    BY EndIs DEF NextPass
  <1>2. /\ LookAlike(functions, input) /\ IsModule(input)
        /\ call_site_counter = Cardinality(CallSitesBefore(at))
        /\ \A f \in DOMAIN functions : \A k \in DOMAIN functions[f].body : IsNumberedUpTo(f, k)
    BY CleanIs DEF CallsInv, AddingInv, InputInv
  <1>3. ASSUME NEW f \in DOMAIN functions, NEW k \in DOMAIN functions[f].body
        PROVE  Passed(f, k)' <=> Passed(f, k)
    <2>1. f \in Nat /\ k \in Nat /\ 1 <= k /\ (f = h => k < c)
      BY <1>1
    <2>2. f < h + 1 <=> f < h \/ f = h
      BY <1>1, <2>1
    <2>3. ~(k < 1)
      BY <2>1
    <2> QED
      BY <1>1, <2>1, <2>2, <2>3 DEF Passed
  <1>4. CallSites' = CallSites
    BY <1>1, SameCallSites
  <1>5. CallSitesBefore(at)' = CallSitesBefore(at)
    <2>1. \A p \in CallSites : p[1] \in DOMAIN functions /\ p[2] \in DOMAIN functions[p[1]].body
      BY <1>2, CallSiteIs DEF LookAlike
    <2>2. \A p \in CallSites : Passed(p[1], p[2])' <=> Passed(p[1], p[2])
      BY <1>3, <2>1
    <2> QED
      BY <1>4, <2>2 DEF Passed, CallSitesBefore
  <1>6. ASSUME NEW f \in DOMAIN functions', NEW k \in DOMAIN functions'[f].body
        PROVE  IsNumberedUpTo(f, k)'
    BY <1>1, <1>2, <1>3, <1>4 DEF IsNumberedUpTo
  <1> QED
    BY <1>1, <1>2, <1>5, <1>6 DEF AddingInv

\* AddMetadata is through: every call-site has its number.
LEMMA EndNumbers ==
    ASSUME PassesInv, CallsInv, EndOfFunction, pass = "add_metadata", pass' # "add_metadata",
           NEW i \in InstructionsOf(functions), IsDirectCall(i), i.fn \in DOMAIN function_infos
    PROVE  i.meta # {}
  <1>1. /\ at[1] = Len(functions) /\ IsModule(functions) /\ at[1] \in Nat
        /\ \A f \in DOMAIN functions :
             /\ f \in Nat /\ f <= Len(functions)
             /\ \A k \in DOMAIN functions[f].body : f = at[1] => k < at[2]
    BY EndIs
  <1>2. PICK f \in DOMAIN functions : \E k \in DOMAIN functions[f].body : i = functions[f].body[k]
    BY <1>1, ModuleIs
  <1>3. PICK k \in DOMAIN functions[f].body : i = functions[f].body[k]
    BY <1>2
  <1>4. Passed(f, k)
    <2>1. f < at[1] \/ f = at[1]
      BY <1>1
    <2> QED
      BY <1>1, <2>1 DEF Passed
  <1>5. LookAlike(functions, input) /\ IsNumberedUpTo(f, k)
    BY DEF CallsInv, AddingInv
  <1>6. /\ f \in DOMAIN input /\ k \in DOMAIN input[f].body
        /\ input[f].body[k].op = i.op /\ input[f].body[k].fn = i.fn
    BY <1>3, <1>5 DEF LookAlike
  <1>7. <<f, k>> \in CallSites
    <2>1. <<f, k>> \in {f} \X DOMAIN input[f].body /\ <<f, k>>[1] = f /\ <<f, k>>[2] = k
      BY <1>6
    <2>2. IsDirectCall(input[f].body[k])
      BY <1>6 DEF IsDirectCall
    <2> QED
      BY <1>6, <2>1, <2>2 DEF CallSites, Program
  <1> QED
    BY <1>3, <1>4, <1>5, <1>7 DEF IsNumberedUpTo

LEMMA EndOfAddMetadata ==
    ASSUME PassesInv, CallsInv, EndOfFunction, pass = "add_metadata"
    PROVE  CallsInv'
  <1>1. /\ UNCHANGED <<functions, input, function_infos, call_site_counter, wrappers,
                       output_param_map>>
        /\ pass' \in {"add_metadata", "add_sources"} /\ IsModule(functions)
    BY EndIs DEF NextPass
  <1>2. SourcesOnce(functions) /\ DOMAIN function_infos \cap Reserved = {} /\ InputInv
    BY DEF CallsInv, NumbersInv
  <1>3. \A i \in InstructionsOf(functions') : IsSiteOnce(i)'
    <2>1. ASSUME NEW i \in InstructionsOf(functions) PROVE IsSiteOnce(i)'
      <3>1. IsSiteOnce(i)
        BY DEF CallsInv, NumbersInv
      <3> QED
        BY <1>1, <3>1, SameCallSites DEF IsSiteOnce
    <2> QED
      BY <1>1, <2>1
  <1>4. NumbersInv'
    BY <1>1, <1>2, <1>3, EndNumbers DEF NumbersInv
  <1>5. WrapperInv'
    BY <1>1, <1>2, CleanIs, SameRearranged, WrappersKept DEF CallsInv, InputInv
  <1>6. AddingInv'
    BY <1>1, EndKeepsAdding DEF AddingInv
  <1>7. InputInv' /\ UntouchedInv'
    BY <1>1, <1>2 DEF InputInv, UntouchedInv, Untouched
  <1>8. SinksInv'
    BY <1>1 DEF CallsInv, SinksInv, BeforeWrapping, Wrapped
  <1> QED
    BY <1>4, <1>5, <1>6, <1>7, <1>8 DEF CallsInv

\* WrapSinks starts with an empty map.
LEMMA EndOfAddSources ==
    ASSUME PassesInv, CallsInv, EndOfFunction, pass = "add_sources", pass' = "wrap_sinks"
    PROVE  CallsInv'
  <1>1. /\ UNCHANGED <<functions, input, function_infos, wrappers, output_param_map>>
        /\ IsModule(functions) /\ output_param_map = <<>> /\ InputInv
        /\ at'[1] = 1 /\ at'[2] = 1
        /\ \A f \in DOMAIN functions :
             /\ f \in Nat /\ 1 <= f
             /\ \A k \in DOMAIN functions[f].body : k \in Nat /\ 1 <= k
    <2>1. output_param_map = <<>> /\ InputInv
      BY DEF CallsInv, SinksInv, BeforeWrapping
    <2> QED
      BY <2>1, EndIs
  <1>2. Rearranged(functions', functions)
    BY <1>1, SameRearranged
  <1>3. NumbersInv' /\ WrapperInv'
    BY <1>1, <1>2, CleanIs, NumbersKept, WrappersKept DEF CallsInv, InputInv
  <1>4. ASSUME NEW f \in DOMAIN input', NEW k \in DOMAIN functions'[f].body
        PROVE  IsFound(f, k)'
    <2>1. f \in DOMAIN functions /\ k \in DOMAIN functions[f].body
      BY <1>1 DEF PassesInv, ModuleInv
    <2>2. f >= 1 /\ ~(f < 1) /\ ~(k < 1)
      BY <1>1, <2>1
    <2>3. ~Passed(f, k)'
      BY <1>1, <2>2 DEF Passed
    <2>4. DOMAIN output_param_map' = {}
      BY <1>1
    <2> QED
      BY <1>1, <2>2, <2>3, <2>4 DEF IsFound
  <1>5. SinksInv'
    BY <1>4 DEF SinksInv, BeforeWrapping, Wrapped
  <1>6. InputInv' /\ UntouchedInv' /\ AddingInv'
    BY <1>1 DEF InputInv, UntouchedInv, Untouched, AddingInv
  <1> QED
    BY <1>3, <1>5, <1>6 DEF CallsInv

\* No sink is left in a function that WrapSinks is through with.
LEMMA EndOfWrapSinks ==
    ASSUME PassesInv, CallsInv, EndOfFunction, pass = "wrap_sinks"
    PROVE  CallsInv'
  <1> PICK h, c : h = at[1] /\ c = at[2]
    OBVIOUS
  <1>1. /\ UNCHANGED <<functions, input, function_infos, wrappers, output_param_map>>
        /\ IsModule(functions) /\ InputInv /\ calls_to_wrap = <<>> /\ calls_to_wrap' = <<>>
        /\ \/ pass' = "wrap_sinks" /\ at'[1] = h + 1 /\ at'[2] = 1
           \/ pass' = "tags" /\ h = Len(functions)
        /\ h \in Nat /\ Len(functions) \in Nat
        /\ \A f \in DOMAIN functions :
             /\ f \in Nat /\ f <= Len(functions)
             /\ \A k \in DOMAIN functions[f].body : k \in Nat /\ 1 <= k /\ (f = h => k < c)
    BY EndIs DEF CallsInv, NextPass
  <1>2. Rearranged(functions', functions)
    BY <1>1, SameRearranged
  <1>3. NumbersInv' /\ WrapperInv'
    BY <1>1, <1>2, CleanIs, NumbersKept, WrappersKept DEF CallsInv, InputInv
  <1>4. ASSUME NEW f \in DOMAIN input, NEW k \in DOMAIN functions[f].body,
               IsSink(functions[f].body[k])
        PROVE  h + 1 <= f /\ functions[f].body[k].addr \notin DOMAIN output_param_map
    <2>1. f \in DOMAIN functions
      BY DEF PassesInv, ModuleInv
    <2>2. /\ f >= h
          /\ Passed(f, k) => \E n \in 1 .. Len(calls_to_wrap) :
                               calls_to_wrap[n] = functions[f].body[k].addr
          /\ ~Passed(f, k) => functions[f].body[k].addr \notin DOMAIN output_param_map
      BY <1>4 DEF CallsInv, SinksInv, IsFound
    <2>3. Len(calls_to_wrap) = 0
      BY <1>1
    <2>4. ~Passed(f, k)
      BY <2>2, <2>3
    <2>5. f # h
      BY <1>1, <2>1, <2>4 DEF Passed
    <2>6. h + 1 <= f
      BY <1>1, <2>1, <2>2, <2>5
    <2> QED
      BY <2>2, <2>4, <2>6
  <1>5. ASSUME pass' = "wrap_sinks", NEW f \in DOMAIN input', NEW k \in DOMAIN functions'[f].body
        PROVE  IsFound(f, k)'
    <2>1. f \in DOMAIN functions /\ k \in DOMAIN functions[f].body
      BY <1>1 DEF PassesInv, ModuleInv
    <2>2. SUFFICES ASSUME IsSink(functions'[f].body[k])
                   PROVE  IsFound(f, k)'
      BY DEF IsFound
    <2>3. h + 1 <= f /\ functions[f].body[k].addr \notin DOMAIN output_param_map
      BY <1>1, <1>4, <2>2
    <2>4. at'[1] = h + 1 /\ at'[2] = 1
      BY <1>1, <1>5
    <2>5. ~(f < h + 1) /\ ~(k < 1) /\ f >= h + 1
      BY <1>1, <2>1, <2>3
    <2>6. ~Passed(f, k)'
      BY <2>4, <2>5 DEF Passed
    <2> QED
      BY <1>1, <2>3, <2>4, <2>5, <2>6 DEF IsFound
  <1>6. ASSUME pass' = "tags", NEW f \in DOMAIN input, NEW k \in DOMAIN functions[f].body,
               IsSink(functions[f].body[k])
        PROVE  FALSE
    <2>1. f \in DOMAIN functions
      BY DEF PassesInv, ModuleInv
    <2>2. h + 1 <= f /\ h = Len(functions) /\ f \in Nat /\ f <= Len(functions)
      BY <1>1, <1>4, <1>6, <2>1
    <2> QED
      BY <1>1, <2>2
  <1>7. SinksInv'
    BY <1>1, <1>5, <1>6 DEF SinksInv, BeforeWrapping, Wrapped
  <1>8. InputInv' /\ UntouchedInv' /\ AddingInv'
    BY <1>1 DEF InputInv, UntouchedInv, Untouched, AddingInv
  <1> QED
    BY <1>3, <1>7, <1>8 DEF CallsInv

LEMMA EndOfFunctionKeepsCalls == PassesInv /\ CallsInv /\ EndOfFunction => CallsInv'
  <1> SUFFICES ASSUME PassesInv, CallsInv, EndOfFunction PROVE CallsInv'
    OBVIOUS
  <1>1. /\ UNCHANGED <<functions, input, function_infos, call_site_counter, wrappers,
                       output_param_map>>
        /\ IsModule(functions) /\ (pass' = pass \/ pass' = NextPass[pass])
        /\ pass \in {"print", "add_metadata", "add_sources", "wrap_sinks", "tags",
                     "dependency_map", "add_logging"}
    BY EndIs
  <1>2. CASE pass = "print"
    <2>1. pass' \in {"print", "done"}
      BY <1>1, <1>2 DEF NextPass
    <2> QED
      BY <1>1, <1>2, <2>1, UntouchedKeepsCalls DEF Untouched
  <1>3. CASE pass = "add_metadata"
    BY <1>3, EndOfAddMetadata
  <1>4. CASE pass = "add_sources" /\ pass' = "wrap_sinks"
    BY <1>4, EndOfAddSources
  <1>5. CASE pass = "wrap_sinks"
    BY <1>5, EndOfWrapSinks
  <1>6. CASE \/ pass = "add_sources" /\ pass' = "add_sources"
             \/ pass = "tags" /\ pass' \in {"tags", "remove_sources"}
             \/ pass = "dependency_map" /\ pass' \in {"dependency_map", "configure_logging"}
             \/ pass = "add_logging" /\ pass' \in {"add_logging", "done"}
    <2>1. Rearranged(functions', functions)
      BY <1>1, SameRearranged
    <2>2. /\ pass' \notin Untouched \cup {"add_metadata", "wrap_sinks"}
          /\ pass \notin {"configure", "add_metadata"}
          /\ pass' \in BeforeWrapping => pass \in BeforeWrapping
          /\ pass' \in Wrapped => pass \in Wrapped
      BY <1>6 DEF Untouched, BeforeWrapping, Wrapped
    <2> QED
      BY <1>1, <2>1, <2>2, MovesKeepCalls
  <1>7. \/ pass # "add_sources" \/ pass' \in {"add_sources", "wrap_sinks"}
    BY <1>1 DEF NextPass
  <1>8. /\ pass = "tags" => pass' \in {"tags", "remove_sources"}
        /\ pass = "dependency_map" => pass' \in {"dependency_map", "configure_logging"}
        /\ pass = "add_logging" => pass' \in {"add_logging", "done"}
    BY <1>1 DEF NextPass
  <1> QED
    BY <1>1, <1>2, <1>3, <1>4, <1>5, <1>6, <1>7, <1>8

-----------------------------------------------------------------------------
(* WrapSinks looks for sinks                                               *)

LEMMA OneMorePassed ==
    ASSUME Positioned, at'[1] = at[1], at'[2] = at[2] + 1,
           NEW f \in DOMAIN functions, NEW k \in DOMAIN functions[f].body
    PROVE  /\ Passed(f, k)' <=> Passed(f, k) \/ (f = at[1] /\ k = at[2])
           /\ f = at[1] /\ k = at[2] => ~Passed(f, k)
  <1> PICK h, c : h = at[1] /\ c = at[2]
    OBVIOUS
  <1>1. /\ h \in DOMAIN functions /\ c \in Nat
        /\ DOMAIN functions = 1 .. Len(functions) /\ Len(functions) \in Nat
        /\ DOMAIN functions[f].body = 1 .. Len(functions[f].body)
        /\ Len(functions[f].body) \in Nat
    <2>1. IsModule(functions) /\ h \in DOMAIN functions /\ c \in 1 .. Len(Body) + 1
      BY DEF Positioned
    <2>2. Len(Body) \in Nat
      BY <2>1, ModuleIs DEF Body
    <2>3. c \in Nat
      BY <2>1, <2>2
    <2> QED
      BY <2>1, <2>3, ModuleIs
  <1>2. f \in Nat /\ h \in Nat /\ k \in Nat /\ c \in Nat
    BY <1>1
  <1>3. (k < c + 1 <=> k < c \/ k = c) /\ ~(h < h) /\ ~(c < c)
    BY <1>2
  <1> QED
    BY <1>2, <1>3 DEF Passed

\* A visit of WrapSinks changes nothing but its lists.
LEMMA WrapSinksVisitKeepsCalls ==
    ASSUME PassesInv, CallsInv, pass = "wrap_sinks", pass' = pass, functions' = functions,
           UNCHANGED <<input, function_infos, wrappers>>, SinksInv'
    PROVE  CallsInv'
  <1>1. Rearranged(functions', functions) /\ InputInv
    BY SameRearranged DEF CallsInv, PassesInv, ModuleInv, Positioned
  <1>2. NumbersInv' /\ WrapperInv'
    BY <1>1, CleanIs, NumbersKept, WrappersKept DEF CallsInv, InputInv
  <1>3. InputInv' /\ UntouchedInv' /\ AddingInv'
    BY <1>1 DEF InputInv, UntouchedInv, Untouched, AddingInv
  <1> QED
    BY <1>2, <1>3 DEF CallsInv

LEMMA WrapSinksSkipKeepsCalls == PassesInv /\ CallsInv /\ WrapSinks_Skip => CallsInv'
  <1> SUFFICES ASSUME PassesInv, CallsInv, WrapSinks_Skip PROVE CallsInv'
    OBVIOUS
  <1>1. /\ pass = "wrap_sinks" /\ pass' = pass /\ at[2] <= Len(Body) /\ Visit(<<>>, Current)
        /\ IsWrapper(FunctionName) \/ ~IsSink(Current)
        /\ UNCHANGED <<input, function_infos, wrappers, output_param_map, calls_to_wrap>>
    BY DEF WrapSinks_Skip, Visiting, metadata_vars, wrap_vars, history
  <1>2. /\ functions' = functions /\ at'[1] = at[1] /\ at'[2] = at[2] + 1
        /\ Current = functions[at[1]].body[at[2]]
    BY <1>1, VisitSame, VisitReplaces DEF PassesInv, ModuleInv
  <1>3. ASSUME NEW f \in DOMAIN input', NEW k \in DOMAIN functions'[f].body
        PROVE  IsFound(f, k)'
    <2>1. f \in DOMAIN functions /\ k \in DOMAIN functions[f].body /\ IsFound(f, k)
      BY <1>1, <1>2 DEF CallsInv, SinksInv, PassesInv, ModuleInv
    <2>2. Passed(f, k)' <=> Passed(f, k) \/ (f = at[1] /\ k = at[2])
      BY <1>2, <2>1, OneMorePassed DEF PassesInv, ModuleInv
    <2>3. CASE f = at[1] /\ k = at[2]
      <3>1. functions[f].name \notin ToSet(WrapperName)
        <4>1. IsModule(input)
          BY DEF CallsInv, InputInv, Clean
        <4>2. f \in 1 .. Len(input)
          BY <1>1, <4>1, ModuleIs
        <4> QED
          BY <4>2 DEF CallsInv, WrapperInv, HasWrappers
      <3>2. ~IsSink(functions[f].body[k])
        BY <1>1, <1>2, <2>3, <3>1 DEF IsWrapper, FunctionName
      <3> QED
        BY <1>2, <3>2 DEF IsFound
    <2>4. CASE ~(f = at[1] /\ k = at[2])
      BY <1>1, <1>2, <2>1, <2>2, <2>4 DEF IsFound
    <2> QED
      BY <2>3, <2>4
  <1>4. SinksInv'
    BY <1>1, <1>3 DEF SinksInv, BeforeWrapping, Wrapped
  <1> QED
    BY <1>1, <1>2, <1>4, WrapSinksVisitKeepsCalls

LEMMA WrapSinksCollectKeepsCalls == PassesInv /\ CallsInv /\ WrapSinks_Collect => CallsInv'
  <1> SUFFICES ASSUME PassesInv, CallsInv, WrapSinks_Collect PROVE CallsInv'
    OBVIOUS
  <1> PICK here, n, h, c : here = Current.addr /\ n = Len(calls_to_wrap) /\ h = at[1] /\ c = at[2]
    OBVIOUS
  <1>1. /\ pass = "wrap_sinks" /\ pass' = pass /\ at[2] <= Len(Body) /\ Visit(<<>>, Current)
        /\ IsSink(Current)
        /\ calls_to_wrap' = IF here \in DOMAIN output_param_map THEN calls_to_wrap
                            ELSE Append(calls_to_wrap, here)
        /\ DOMAIN output_param_map' = DOMAIN output_param_map \cup {here}
        /\ UNCHANGED <<input, function_infos, wrappers>>
    BY DEF WrapSinks_Collect, Visiting, metadata_vars, history
  <1>2. /\ functions' = functions /\ at'[1] = h /\ at'[2] = c + 1
        /\ Current = functions[h].body[c] /\ h \in DOMAIN functions
        /\ c \in DOMAIN functions[h].body
    BY <1>1, VisitSame, VisitReplaces DEF PassesInv, ModuleInv
  <1>3. here # 0 /\ Distinct(functions)
    <2>1. IsInstruction(Current) /\ Current.meta # {}
      BY <1>1, CurrentIs DEF PassesInv, ModuleInv, IsSink, HasParamOfType
    <2> QED
      BY <1>1, <2>1 DEF IsInstruction, PassesInv, AddressInv, BeforeTags
  <1>4. /\ \A m \in 1 .. n : \E l \in 1 .. Len(calls_to_wrap') : calls_to_wrap'[l] = calls_to_wrap[m]
        /\ here \notin DOMAIN output_param_map =>
             \E l \in 1 .. Len(calls_to_wrap') : calls_to_wrap'[l] = here
    <2>1. calls_to_wrap \in Seq(DOMAIN output_param_map)
      BY DEF PassesInv, WorkListInv
    <2>2. n \in Nat /\ calls_to_wrap \in Seq(DOMAIN output_param_map \cup {here})
      BY <2>1, SeqMonotonic
    <2> PICK s, t, D : s = calls_to_wrap /\ t = Append(s, here) /\ D = DOMAIN output_param_map \cup {here}
      OBVIOUS
    <2>3. /\ Len(t) = n + 1 /\ t[n + 1] = here /\ \A m \in 1 .. n : t[m] = s[m]
      <3>1. s \in Seq(D) /\ here \in D /\ n = Len(s)
        BY <2>2
      <3> QED
        BY <3>1
    <2>4. n + 1 \in 1 .. n + 1 /\ \A m \in 1 .. n : m \in 1 .. n + 1
      BY <2>2
    <2>5. /\ \A m \in 1 .. n : \E l \in 1 .. Len(t) : t[l] = s[m]
          /\ \E l \in 1 .. Len(t) : t[l] = here
      BY <2>3, <2>4
    <2> QED
      BY <1>1, <2>5
  <1>5. ASSUME NEW f \in DOMAIN input', NEW k \in DOMAIN functions'[f].body,
               IsSink(functions'[f].body[k])
        PROVE  IsFound(f, k)'
    <2> PICK addr : addr = functions[f].body[k].addr
      OBVIOUS
    <2>1. f \in DOMAIN functions /\ k \in DOMAIN functions[f].body /\ IsFound(f, k)
      BY <1>1, <1>2 DEF CallsInv, SinksInv, PassesInv, ModuleInv
    <2>2. /\ Passed(f, k)' <=> Passed(f, k) \/ (f = h /\ k = c)
          /\ f = h /\ k = c => ~Passed(f, k)
      BY <1>2, <2>1, OneMorePassed DEF PassesInv, ModuleInv
    <2>3. /\ f >= h
          /\ Passed(f, k) => \E m \in 1 .. n : calls_to_wrap[m] = addr
          /\ ~Passed(f, k) => addr \notin DOMAIN output_param_map
      BY <1>2, <1>5, <2>1 DEF IsFound
    <2>4. CASE f = h /\ k = c
      <3>1. addr = here /\ here \notin DOMAIN output_param_map
        BY <1>2, <2>2, <2>3, <2>4
      <3>2. \E l \in 1 .. Len(calls_to_wrap') : calls_to_wrap'[l] = addr
        BY <1>4, <3>1
      <3> QED
        BY <1>2, <2>2, <2>3, <2>4, <3>2 DEF IsFound
    <2>5. CASE ~(f = h /\ k = c)
      <3>1. addr # here
        BY <1>2, <1>3, <2>1, <2>5 DEF Distinct
      <3>2. Passed(f, k)' => \E l \in 1 .. Len(calls_to_wrap') : calls_to_wrap'[l] = addr
        BY <1>4, <2>2, <2>3, <2>5
      <3>3. ~Passed(f, k)' => addr \notin DOMAIN output_param_map'
        BY <1>1, <2>2, <2>3, <3>1
      <3> QED
        BY <1>2, <2>3, <3>2, <3>3 DEF IsFound
    <2> QED
      BY <2>4, <2>5
  <1>6. SinksInv'
    <2>1. \A f \in DOMAIN input' : \A k \in DOMAIN functions'[f].body : IsFound(f, k)'
      BY <1>5 DEF IsFound
    <2> QED
      BY <1>1, <2>1 DEF SinksInv, BeforeWrapping, Wrapped
  <1> QED
    BY <1>1, <1>2, <1>6, WrapSinksVisitKeepsCalls

-----------------------------------------------------------------------------
(* WrapSinks moves a call into a wrapper                                   *)

LEMMA LengthIs ==
    ASSUME NEW fs, IsModule(fs), NEW n \in Nat, DOMAIN fs = 1 .. n
    PROVE  Len(fs) = n
  <1>1. Len(fs) \in Nat /\ 1 .. Len(fs) = 1 .. n
    BY ModuleIs
  <1>2. \A m \in Nat : 1 .. m = 1 .. n => m = n
    <2> TAKE m \in Nat
    <2> HAVE 1 .. m = 1 .. n
    <2>1. m = 0 \/ m \in 1 .. m
      OBVIOUS
    <2>2. n = 0 \/ n \in 1 .. n
      OBVIOUS
    <2> QED
      BY <2>1, <2>2
  <1> QED
    BY <1>1, <1>2

\* The place of the call that is moved.
LEMMA CallIs ==
    ASSUME PassesInv, CallsInv, Wrapping
    PROVE  /\ at[1] \in DOMAIN functions /\ CB \in DOMAIN functions[at[1]].body
           /\ functions[at[1]].body = Body /\ functions[at[1]].name \notin ToSet(WrapperName)
           /\ Body[CB].meta # {} /\ Body[CB].fn \notin Reserved
           /\ Len(functions) \in Nat /\ DOMAIN functions = 1 .. Len(functions)
  <1>1. at[1] \in DOMAIN functions /\ IsModule(functions) /\ functions[at[1]].body = Body
    BY DEF PassesInv, ModuleInv, Positioned, Body
  <1>2. CB \in DOMAIN Body /\ Body[CB] \in InstructionsOf(functions) /\ Body[CB].meta # {}
    BY CallToWrap
  <1>3. Body[CB].fn \notin Reserved
    BY <1>2 DEF CallsInv, NumbersInv, IsSiteOnce
  <1>4. functions[at[1]].name \notin ToSet(WrapperName)
    BY DEF PassesInv, WorkListInv, Wrapping, IsWrapper, FunctionName
  <1> QED
    BY <1>1, <1>2, <1>3, <1>4, ModuleIs

\* Where the instructions of the module with one more wrapper come from.
LEMMA WrappedAt ==
    ASSUME PassesInv, CallsInv, Wrapping, NEW b, NEW wrapper, NEW orig, NEW new,
           IsWrapped(b, wrapper, orig, new),
           NEW f \in DOMAIN functions', NEW k \in DOMAIN functions'[f].body
    PROVE  \/ /\ f \in DOMAIN functions /\ k \in DOMAIN functions[f].body
              /\ functions'[f].body[k] = functions[f].body[k] /\ ~(f = at[1] /\ k = CB)
           \/ f = at[1] /\ k = CB /\ functions'[f].body[k] = wrapper
           \/ f = Len(functions) + 1 /\ k \in DOMAIN b /\ functions'[f].body[k] = b[k]
  <1>1. /\ DOMAIN functions' = 1 .. Len(functions) + 1
        /\ functions'[Len(functions) + 1] = [name |-> NextWrapper, body |-> b]
        /\ \A g \in DOMAIN functions \ {at[1]} : functions'[g] = functions[g]
        /\ functions'[at[1]].body = Body' /\ DOMAIN Body' = DOMAIN Body
        /\ Body'[CB] = wrapper
        /\ \A l \in DOMAIN Body \ {CB} : Body'[l] = Body[l]
    BY DEF IsWrapped
  <1>2. /\ functions[at[1]].body = Body /\ at[1] \in DOMAIN functions
        /\ Len(functions) \in Nat /\ DOMAIN functions = 1 .. Len(functions)
    BY CallIs
  <1>3. CASE f = Len(functions) + 1
    <2>1. functions'[f].body = b
      BY <1>1, <1>3
    <2> QED
      BY <1>3, <2>1
  <1>4. CASE f \in DOMAIN functions /\ f # at[1]
    <2>1. functions'[f] = functions[f]
      BY <1>1, <1>4
    <2> QED
      BY <1>4, <2>1
  <1>5. CASE f = at[1]
    <2>1. k \in DOMAIN Body /\ functions'[f].body[k] = Body'[k]
      BY <1>1, <1>5
    <2>2. CASE k = CB
      BY <1>1, <1>5, <2>1, <2>2
    <2>3. CASE k # CB
      BY <1>1, <1>2, <1>5, <2>1, <2>3
    <2> QED
      BY <2>2, <2>3
  <1>6. f \in DOMAIN functions \/ f = Len(functions) + 1
    BY <1>1, <1>2
  <1> QED
    BY <1>3, <1>4, <1>5, <1>6

\* What was there is there still, but for the call.
LEMMA WrappedKeeps ==
    ASSUME PassesInv, CallsInv, Wrapping, NEW b, NEW wrapper, NEW orig, NEW new,
           IsWrapped(b, wrapper, orig, new), NEW f \in DOMAIN functions
    PROVE  /\ f \in DOMAIN functions' /\ functions'[f].name = functions[f].name
           /\ f # at[1] => functions'[f] = functions[f]
           /\ DOMAIN functions'[f].body = DOMAIN functions[f].body
           /\ \A k \in DOMAIN functions[f].body :
                f # at[1] \/ k # CB => functions'[f].body[k] = functions[f].body[k]
           /\ f = at[1] => functions'[f].body[CB] = wrapper
  <1>1. /\ DOMAIN functions' = 1 .. Len(functions) + 1
        /\ functions'[f].name = functions[f].name
        /\ f # at[1] => functions'[f] = functions[f]
        /\ functions'[at[1]].body = Body' /\ DOMAIN Body' = DOMAIN Body
        /\ Body'[CB] = wrapper
        /\ \A l \in DOMAIN Body \ {CB} : Body'[l] = Body[l]
    BY DEF IsWrapped
  <1>2. /\ functions[at[1]].body = Body
        /\ Len(functions) \in Nat /\ DOMAIN functions = 1 .. Len(functions)
    BY CallIs
  <1>3. f \in DOMAIN functions'
    BY <1>1, <1>2
  <1>4. CASE f # at[1]
    BY <1>1, <1>3, <1>4
  <1>5. CASE f = at[1]
    <2>1. functions'[f].body = Body' /\ functions[f].body = Body
      BY <1>1, <1>2, <1>5
    <2> QED
      BY <1>1, <1>3, <1>5, <2>1
  <1> QED
    BY <1>4, <1>5

\* One of the instructions of a wrapper is the call.
LEMMA HeldAt ==
    ASSUME NEW b, NEW call, HoldsCall(b, call), DOMAIN b = 1 .. Len(b)
    PROVE  \E p \in DOMAIN b :
             /\ IsDirectCall(b[p])
             /\ b[p].fn = call.fn /\ b[p].meta = call.meta /\ b[p].src = call.src
             /\ b[p].tags = call.tags
             /\ \A k \in DOMAIN b : k # p => IsMade(b[k]) /\ TagIsIn(b[k], {})
  BY DEF HoldsCall

LEMMA WrapCallKeepsNumbers ==
    ASSUME PassesInv, CallsInv, Wrapping, NEW b, NEW wrapper, NEW orig, NEW new,
           IsWrapped(b, wrapper, orig, new), wrappers < Len(WrapperName),
           UNCHANGED <<input, function_infos, pass>>
    PROVE  NumbersInv'
  <1> PICK h, c, n, call : h = at[1] /\ c = CB /\ n = Len(functions) /\ call = Body[CB]
    OBVIOUS
  <1>1. /\ h \in DOMAIN functions /\ c \in DOMAIN functions[h].body
        /\ call = functions[h].body[c] /\ call.meta # {} /\ call.fn \notin Reserved
        /\ n \in Nat /\ DOMAIN functions = 1 .. n /\ n + 1 \notin DOMAIN functions
        /\ call \in InstructionsOf(functions)
    BY CallIs, CallToWrap
  <1>2. /\ wrapper.meta = {} /\ wrapper.src = 0 /\ wrapper.fn \in Reserved
        /\ HoldsCall(b, call) /\ DOMAIN b = 1 .. Len(b) /\ IsModule(functions')
    <2>1. NextWrapper \in Reserved
      BY NextWrapperIs, WrappersAreReserved
    <2>2. DOMAIN b = 1 .. Len(b)
      BY DEF IsWrapped, IsWrapperBody
    <2> QED
      BY <2>1, <2>2 DEF IsWrapped
  <1>3. PICK p \in DOMAIN b :
          /\ IsDirectCall(b[p])
          /\ b[p].fn = call.fn /\ b[p].meta = call.meta /\ b[p].src = call.src
          /\ \A k \in DOMAIN b : k # p => IsMade(b[k])
    BY <1>2, HeldAt
  <1> DEFINE Old(f, k) == /\ f \in DOMAIN functions /\ k \in DOMAIN functions[f].body
                          /\ functions'[f].body[k] = functions[f].body[k] /\ ~(f = h /\ k = c)
             Called(f, k) == f = h /\ k = c /\ functions'[f].body[k] = wrapper
             Held(f, k) == f = n + 1 /\ k = p /\ functions'[f].body[k] = b[p]
  <1>4. ASSUME NEW f \in DOMAIN functions', NEW k \in DOMAIN functions'[f].body
        PROVE  Old(f, k) \/ Called(f, k) \/ Held(f, k) \/ IsMade(functions'[f].body[k])
    BY <1>3, WrappedAt
  <1>5. SourcesOnce(functions')
    <2> SUFFICES ASSUME NEW f \in DOMAIN functions', NEW g \in DOMAIN functions',
                        NEW k \in DOMAIN functions'[f].body, NEW l \in DOMAIN functions'[g].body,
                        functions'[f].body[k].src = functions'[g].body[l].src,
                        functions'[f].body[k].src # 0
                 PROVE  f = g /\ k = l
      BY DEF SourcesOnce
    <2>1. Old(f, k) \/ Held(f, k)
      BY <1>2, <1>4 DEF IsMade
    <2>2. Old(g, l) \/ Held(g, l)
      BY <1>2, <1>4 DEF IsMade
    <2>3. \A x, y \in DOMAIN functions :
            \A i \in DOMAIN functions[x].body, j \in DOMAIN functions[y].body :
              functions[x].body[i].src = functions[y].body[j].src
                /\ functions[x].body[i].src # 0 => x = y /\ i = j
      BY DEF CallsInv, NumbersInv, SourcesOnce
    <2>4. CASE Old(f, k) /\ Old(g, l)
      <3> HIDE <2>1, <2>2
      <3> QED
        BY <2>3, <2>4
    <2>5. CASE Old(f, k) /\ Held(g, l)
      <3>1. functions[f].body[k].src = functions[h].body[c].src /\ functions[f].body[k].src # 0
        BY <1>1, <1>3, <2>5
      <3> QED
        BY <1>1, <2>3, <2>5, <3>1
    <2>6. CASE Held(f, k) /\ Old(g, l)
      <3>1. functions[g].body[l].src = functions[h].body[c].src /\ functions[g].body[l].src # 0
        BY <1>1, <1>3, <2>6
      <3> QED
        BY <1>1, <2>3, <2>6, <3>1
    <2>7. CASE Held(f, k) /\ Held(g, l)
      BY <2>7
    <2> HIDE DEF Old, Held
    <2> QED
      BY <2>1, <2>2, <2>4, <2>5, <2>6, <2>7
  <1>6. DOMAIN function_infos' \cap Reserved = {} /\ DOMAIN function_infos \cap Reserved = {}
    BY DEF CallsInv, NumbersInv
  <1>7. pass = "wrap_sinks" /\ pass' = "wrap_sinks"
    BY DEF Wrapping
  <1>8. ASSUME NEW i \in InstructionsOf(functions)
        PROVE  /\ IsSiteOnce(i)'
               /\ IsDirectCall(i) /\ i.fn \in DOMAIN function_infos' => i.meta # {}
    <2>1. /\ IsSiteOnce(i)
          /\ IsDirectCall(i) /\ i.fn \in DOMAIN function_infos => i.meta # {}
      BY <1>7 DEF CallsInv, NumbersInv
    <2> QED
      BY <2>1, SameCallSites DEF IsSiteOnce
  <1>9. ASSUME NEW i \in InstructionsOf(functions')
        PROVE  /\ IsSiteOnce(i)'
               /\ IsDirectCall(i) /\ i.fn \in DOMAIN function_infos' => i.meta # {}
    <2>1. PICK f \in DOMAIN functions' : \E k \in DOMAIN functions'[f].body : i = functions'[f].body[k]
      BY <1>2, ModuleIs
    <2>2. PICK k \in DOMAIN functions'[f].body : i = functions'[f].body[k]
      BY <2>1
    <2>3. CASE Old(f, k)
      <3>1. i \in InstructionsOf(functions)
        <4>1. IsModule(functions)
          BY DEF PassesInv, ModuleInv, Positioned
        <4>2. f \in DOMAIN functions /\ k \in DOMAIN functions[f].body /\ i = functions[f].body[k]
          BY <2>2, <2>3
        <4> QED
          BY <4>1, <4>2, ModuleIs
      <3> QED
        BY <1>8, <3>1
    <2>4. CASE Called(f, k)
      <3>1. i = wrapper
        BY <2>2, <2>4
      <3> QED
        BY <1>2, <1>6, <3>1 DEF IsSiteOnce, CallSiteIds
    <2>5. CASE Held(f, k)
      <3>1. i.fn = call.fn /\ i.meta = call.meta /\ i.src = call.src
        BY <1>3, <2>2, <2>5
      <3>2. IsSiteOnce(call)'
        BY <1>1, <1>8
      <3>3. IsSiteOnce(i)'
        BY <3>1, <3>2 DEF IsSiteOnce, CallSiteIds
      <3> QED
        BY <1>1, <3>1, <3>3
    <2>6. CASE IsMade(i)
      <3>1. i.meta = {} /\ CallSiteIds(i) = {} /\ (IsDirectCall(i) => i.fn \in Reserved)
        BY <2>6, MadeIsNoSite
      <3> QED
        BY <1>6, <3>1 DEF IsSiteOnce
    <2> HIDE DEF Old, Called, Held
    <2> QED
      BY <1>4, <2>2, <2>3, <2>4, <2>5, <2>6
  <1> QED
    BY <1>5, <1>6, <1>9 DEF NumbersInv

\* There is one call of a wrapper more than there was.
LEMMA WrappedCalls ==
    ASSUME PassesInv, CallsInv, Wrapping, NEW b, NEW wrapper, NEW orig, NEW new,
           IsWrapped(b, wrapper, orig, new), wrappers < Len(WrapperName),
           NEW name \in ToSet(WrapperName), NEW f, NEW k
    PROVE  Calls(functions', name, f, k) <=>
             \/ Calls(functions, name, f, k)
             \/ f = at[1] /\ k = CB /\ name = NextWrapper
  <1> PICK h, c, n, call : h = at[1] /\ c = CB /\ n = Len(functions) /\ call = Body[CB]
    OBVIOUS
  <1>1. /\ h \in DOMAIN functions /\ c \in DOMAIN functions[h].body
        /\ call = functions[h].body[c] /\ call.fn \notin Reserved
    BY CallIs
  <1>2. name \in Reserved /\ name \notin OwnFunctions
    BY WrappersAreReserved
  <1>3. wrapper.op = "call" /\ wrapper.fn = NextWrapper /\ NextWrapper \in Reserved
        /\ IsDirectCall(wrapper)
    <2>1. NextWrapper \in ToSet(WrapperName) /\ wrapper.op = "call" /\ wrapper.fn = NextWrapper
      BY NextWrapperIs DEF IsWrapped
    <2>2. NextWrapper # ""
      BY <2>1, WrappersHaveNames
    <2> QED
      BY <2>1, <2>2, WrappersAreReserved DEF IsDirectCall
  <1>4. PICK p \in DOMAIN b :
          /\ IsDirectCall(b[p])
          /\ b[p].fn = call.fn /\ b[p].meta = call.meta /\ b[p].src = call.src
          /\ \A l \in DOMAIN b : l # p => IsMade(b[l])
    <2>1. HoldsCall(b, call) /\ DOMAIN b = 1 .. Len(b)
      BY DEF IsWrapped, IsWrapperBody
    <2> QED
      BY <2>1, HeldAt
  <1>5. ASSUME Calls(functions', name, f, k)
        PROVE  Calls(functions, name, f, k) \/ (f = h /\ k = c /\ name = NextWrapper)
    <2>1. /\ f \in DOMAIN functions' /\ k \in DOMAIN functions'[f].body
          /\ IsDirectCall(functions'[f].body[k]) /\ functions'[f].body[k].fn = name
      BY <1>5 DEF Calls
    <2>2. \/ /\ f \in DOMAIN functions /\ k \in DOMAIN functions[f].body
             /\ functions'[f].body[k] = functions[f].body[k]
          \/ f = h /\ k = c /\ functions'[f].body[k] = wrapper
          \/ k \in DOMAIN b /\ functions'[f].body[k] = b[k]
      BY <2>1, WrappedAt
    <2>3. CASE k \in DOMAIN b /\ functions'[f].body[k] = b[k]
      BY <1>1, <1>2, <1>4, <2>1, <2>3 DEF IsMade
    <2>4. CASE f = h /\ k = c /\ functions'[f].body[k] = wrapper
      BY <1>3, <2>1, <2>4
    <2>5. CASE f \in DOMAIN functions /\ k \in DOMAIN functions[f].body
               /\ functions'[f].body[k] = functions[f].body[k]
      BY <2>1, <2>5 DEF Calls
    <2> QED
      BY <2>2, <2>3, <2>4, <2>5
  <1>6. ASSUME Calls(functions, name, f, k)
        PROVE  Calls(functions', name, f, k)
    <2>1. /\ f \in DOMAIN functions /\ k \in DOMAIN functions[f].body
          /\ IsDirectCall(functions[f].body[k]) /\ functions[f].body[k].fn = name
      BY <1>6 DEF Calls
    <2>2. f # h \/ k # c
      BY <1>1, <1>2, <2>1
    <2>3. /\ f \in DOMAIN functions' /\ k \in DOMAIN functions'[f].body
          /\ functions'[f].body[k] = functions[f].body[k]
      BY <2>1, <2>2, WrappedKeeps
    <2> QED
      BY <2>1, <2>3 DEF Calls
  <1>7. ASSUME f = h, k = c, name = NextWrapper
        PROVE  Calls(functions', name, f, k)
    <2>1. h \in DOMAIN functions' /\ c \in DOMAIN functions'[h].body /\ functions'[h].body[c] = wrapper
      BY <1>1, WrappedKeeps
    <2> QED
      BY <1>3, <1>7, <2>1 DEF Calls
  <1> QED
    BY <1>5, <1>6, <1>7

LEMMA WrapCallKeepsWrappers ==
    ASSUME PassesInv, CallsInv, Wrapping, NEW b, NEW wrapper, NEW orig, NEW new,
           IsWrapped(b, wrapper, orig, new), wrappers < Len(WrapperName),
           UNCHANGED input, wrappers' = wrappers + 1
    PROVE  WrapperInv'
  <1> PICK h, c, m, n : h = at[1] /\ c = CB /\ m = Len(input) /\ n = wrappers
    OBVIOUS
  <1>1. /\ m \in Nat /\ n \in Nat /\ n + 1 \in 1 .. Len(WrapperName) /\ Len(WrapperName) \in Nat
        /\ DOMAIN WrapperName = 1 .. Len(WrapperName)
        /\ h \in DOMAIN functions /\ functions[h].name \notin ToSet(WrapperName)
    <2>1. m \in Nat
      BY CleanIs, ModuleIs DEF CallsInv, InputInv
    <2> QED
      BY <2>1, CallIs, NextWrapperIs, WrappersAreReserved DEF PassesInv
  <1>2. HasWrappers(functions, m, n)
    BY DEF CallsInv, WrapperInv
  <1>3. /\ Len(functions) = m + n /\ DOMAIN functions = 1 .. m + n
        /\ DOMAIN functions' = 1 .. m + n + 1 /\ Len(functions') = m + n + 1
        /\ functions'[m + n + 1] = [name |-> NextWrapper, body |-> b]
    <2>1. Len(functions) = m + n
      BY <1>2 DEF HasWrappers
    <2>2. /\ IsModule(functions') /\ DOMAIN functions' = 1 .. m + n + 1
          /\ functions'[m + n + 1] = [name |-> NextWrapper, body |-> b]
          /\ DOMAIN functions = 1 .. m + n
      BY <2>1, CallIs DEF IsWrapped
    <2>3. m + n + 1 \in Nat
      BY <1>1
    <2> QED
      BY <2>1, <2>2, <2>3, LengthIs
  <1>4. \A f \in 1 .. m : functions'[f].name \notin ToSet(WrapperName)
    <2> SUFFICES ASSUME NEW f \in 1 .. m PROVE functions'[f].name \notin ToSet(WrapperName)
      OBVIOUS
    <2>1. f \in DOMAIN functions /\ functions[f].name \notin ToSet(WrapperName)
      BY <1>1, <1>2, <1>3 DEF HasWrappers
    <2> QED
      BY <2>1, WrappedKeeps
  <1>5. ASSUME NEW w \in 1 .. n + 1
        PROVE  /\ functions'[m + w].name = WrapperName[w]
               /\ \A k, l \in DOMAIN functions'[m + w].body :
                    functions'[m + w].body[k].src # 0 /\ functions'[m + w].body[l].src # 0 => k = l
               /\ \E f, k : Calls(functions', WrapperName[w], f, k)
    <2>1. WrapperName[w] \in ToSet(WrapperName)
      BY <1>1, WrappersAreReserved
    <2>2. CASE w = n + 1
      <3>1. functions'[m + w].name = NextWrapper /\ functions'[m + w].body = b
            /\ WrapperName[w] = NextWrapper
        BY <1>1, <1>3, <2>2 DEF NextWrapper
      <3>2. Calls(functions', WrapperName[w], h, c)
        BY <2>1, <3>1, WrappedCalls
      <3>3. \A k, l \in DOMAIN b : b[k].src # 0 /\ b[l].src # 0 => k = l
        <4>1. HoldsCall(b, Body[CB]) /\ DOMAIN b = 1 .. Len(b)
          BY DEF IsWrapped, IsWrapperBody
        <4>2. PICK p \in DOMAIN b : \A k \in DOMAIN b : k # p => IsMade(b[k])
          BY <4>1, HeldAt
        <4> QED
          BY <4>2 DEF IsMade
      <3> QED
        BY <3>1, <3>2, <3>3
    <2>3. CASE w \in 1 .. n
      <3> PICK g : g = m + w
        OBVIOUS
      <3>1. g \in DOMAIN functions
        BY <1>1, <1>3, <2>3
      <3>2. /\ functions[g].name = WrapperName[w]
            /\ \A k, l \in DOMAIN functions[g].body :
                 functions[g].body[k].src # 0 /\ functions[g].body[l].src # 0 => k = l
            /\ \E f, k : Calls(functions, WrapperName[w], f, k)
        BY <1>2, <2>3 DEF HasWrappers
      <3>3. functions'[g] = functions[g]
        BY <1>1, <2>1, <3>1, <3>2, WrappedKeeps
      <3>4. PICK f, k : Calls(functions, WrapperName[w], f, k)
        BY <3>2
      <3>5. Calls(functions', WrapperName[w], f, k)
        BY <2>1, <3>4, WrappedCalls
      <3> QED
        BY <3>2, <3>3, <3>5
    <2> QED
      BY <1>1, <2>2, <2>3
  <1>6. \A f, k : ~Calls(functions, NextWrapper, f, k)
    <2>1. n + 1 \in n + 1 .. Len(WrapperName) /\ NextWrapper = WrapperName[n + 1]
      BY <1>1 DEF NextWrapper
    <2> QED
      BY <1>2, <2>1 DEF HasWrappers
  <1>7. ASSUME NEW name \in ToSet(WrapperName), NEW f, NEW g, NEW k, NEW l,
               Calls(functions', name, f, k), Calls(functions', name, g, l)
        PROVE  f = g /\ k = l
    <2>1. Calls(functions, name, f, k) \/ (f = h /\ k = c /\ name = NextWrapper)
      BY <1>7, WrappedCalls
    <2>2. Calls(functions, name, g, l) \/ (g = h /\ l = c /\ name = NextWrapper)
      BY <1>7, WrappedCalls
    <2>3. Calls(functions, name, f, k) /\ Calls(functions, name, g, l) => f = g /\ k = l
      BY <1>2 DEF HasWrappers
    <2> QED
      BY <1>6, <2>1, <2>2, <2>3
  <1>8. ASSUME NEW w \in n + 2 .. Len(WrapperName), NEW f, NEW k
        PROVE  ~Calls(functions', WrapperName[w], f, k)
    <2>1. w \in n + 1 .. Len(WrapperName) /\ w \in DOMAIN WrapperName /\ n + 1 \in DOMAIN WrapperName
          /\ w # n + 1
      BY <1>1
    <2>2. ~Calls(functions, WrapperName[w], f, k)
      BY <1>2, <2>1 DEF HasWrappers
    <2>3. WrapperName[w] # NextWrapper /\ WrapperName[w] \in ToSet(WrapperName)
      BY <1>1, <2>1, NamesAssumption, WrappersAreReserved DEF NextWrapper
    <2> QED
      BY <2>2, <2>3, WrappedCalls
  <1>9. HasWrappers(functions', m, n + 1)
    <2>1. Len(functions') = m + (n + 1) /\ (n + 1) + 1 = n + 2
      BY <1>1, <1>3
    <2> QED
      BY <1>4, <1>5, <1>7, <1>8, <2>1 DEF HasWrappers
  <1> QED
    BY <1>9 DEF WrapperInv

\* The call has left the function, and the list.
LEMMA WrapCallKeepsFound ==
    ASSUME PassesInv, CallsInv, Wrapping, NEW b, NEW wrapper, NEW orig, NEW new,
           IsWrapped(b, wrapper, orig, new),
           UNCHANGED <<at, pass, input, output_param_map>>, wrappers' = wrappers + 1,
           calls_to_wrap' = Front(calls_to_wrap)
    PROVE  SinksInv'
  <1> PICK h, c, s, n : h = at[1] /\ c = CB /\ s = calls_to_wrap /\ n = Len(calls_to_wrap)
    OBVIOUS
  <1>1. /\ n \in Nat \ {0} /\ s[n] = functions[h].body[c].addr
        /\ h \in DOMAIN functions /\ c \in DOMAIN functions[h].body
        /\ functions[h].body[c].addr # 0 /\ Distinct(functions)
        /\ pass = "wrap_sinks"
    <2>1. Distinct(functions)
      BY DEF PassesInv, AddressInv, Wrapping, BeforeTags
    <2> QED
      BY <2>1, CallToWrap, CallIs DEF Wrapping
  <1>2. Len(calls_to_wrap') = n - 1 /\ \A m \in 1 .. n - 1 : calls_to_wrap'[m] = s[m]
    <2>1. s \in Seq(DOMAIN output_param_map) /\ n \in Nat \ {0} /\ n = Len(s)
      BY <1>1, CallToWrap
    <2> PICK D : D = DOMAIN output_param_map
      OBVIOUS
    <2>2. calls_to_wrap' = [m \in 1 .. n - 1 |-> s[m]]
      BY DEF Front
    <2>3. n - 1 \in Nat
      BY <2>1
    <2> QED
      BY <2>2, <2>3
  <1>3. ASSUME NEW f \in DOMAIN input', NEW k \in DOMAIN functions'[f].body,
               IsSink(functions'[f].body[k])
        PROVE  IsFound(f, k)'
    <2> PICK addr : addr = functions[f].body[k].addr
      OBVIOUS
    <2>1. f \in DOMAIN functions /\ k \in DOMAIN functions[f].body
      <3>1. f \in DOMAIN functions
        BY DEF PassesInv, ModuleInv
      <3> QED
        BY <3>1, WrappedKeeps
    <2>2. f # h \/ k # c
      <3>1. wrapper.meta = {}
        BY DEF IsWrapped
      <3>2. ~IsSink(wrapper)
        BY <3>1 DEF IsSink, HasParamOfType
      <3> QED
        BY <1>1, <1>3, <3>2, WrappedKeeps
    <2>3. functions'[f].body[k] = functions[f].body[k]
      BY <2>1, <2>2, WrappedKeeps
    <2>4. IsFound(f, k)
      BY <1>1, <2>1 DEF CallsInv, SinksInv
    <2>5. /\ f >= h
          /\ Passed(f, k) => \E m \in 1 .. n : s[m] = addr
          /\ ~Passed(f, k) => addr \notin DOMAIN output_param_map
      BY <1>3, <2>3, <2>4 DEF IsFound
    <2>6. addr # s[n]
      BY <1>1, <2>1, <2>2 DEF Distinct
    <2>7. Passed(f, k) => \E m \in 1 .. n - 1 : calls_to_wrap'[m] = addr
      <3> SUFFICES ASSUME Passed(f, k) PROVE \E m \in 1 .. n - 1 : calls_to_wrap'[m] = addr
        OBVIOUS
      <3>1. PICK m \in 1 .. n : s[m] = addr
        BY <2>5
      <3>2. m \in 1 .. n - 1
        BY <1>1, <2>6, <3>1
      <3> QED
        BY <1>2, <3>1, <3>2
    <2>8. Passed(f, k)' <=> Passed(f, k)
      BY DEF Passed
    <2>9. \A m : m \in 1 .. n - 1 <=> m \in 1 .. Len(calls_to_wrap')
      BY <1>2
    <2> QED
      BY <2>3, <2>5, <2>7, <2>8, <2>9 DEF IsFound
  <1>4. \A f \in DOMAIN input' : \A k \in DOMAIN functions'[f].body : IsFound(f, k)'
    BY <1>3 DEF IsFound
  <1> QED
    BY <1>1, <1>4 DEF SinksInv, BeforeWrapping, Wrapped

LEMMA WrapCallKeepsCalls == PassesInv /\ CallsInv /\ WrapCall => CallsInv'
  <1> SUFFICES ASSUME PassesInv, CallsInv, WrapCall PROVE CallsInv'
    OBVIOUS
  <1>1. /\ Wrapping /\ pass = "wrap_sinks" /\ wrappers < Len(WrapperName)
        /\ wrappers' = wrappers + 1 /\ calls_to_wrap' = Front(calls_to_wrap)
        /\ UNCHANGED <<at, pass, input, function_infos, call_site_counter, output_param_map>>
    BY DEF WrapCall, Wrapping, metadata_vars, history
  <1>2. /\ Body[CB].addr \in Nat /\ Body[CB].addr \in Addresses(functions)
    BY <1>1, CallToWrap DEF Addresses, InstructionsOf
  <1>3. Fresh \in Nat \ {0} /\ freed \subseteq Nat \ {0}
    <2>1. Fresh \in Nat /\ Body[CB].addr < Fresh
      BY <1>1, <1>2, FreshIsFresh DEF BeforeTags
    <2> QED
      BY <1>1, <1>2, <2>1 DEF PassesInv, AddressInv, BeforeTags
  <1>4. PICK orig \in freed \cup {Fresh}, new \in freed \cup {Fresh + 1} :
          functions' = [InsertWrapper(NextWrapper, WrapperBody(Body[CB], orig))
                          EXCEPT ![at[1]].body[CB] =
                            [Instruction("call", NextWrapper, Body[CB].args)
                               EXCEPT !.addr = new]]
    BY DEF WrapCall
  <1>5. orig \in Nat \ {0} /\ new \in Nat \ {0}
    BY <1>3
  <1>6. PICK b, wrapper : IsWrapped(b, wrapper, orig, new)
    BY <1>1, <1>4, <1>5, WrapCallStep
  <1>7. NumbersInv' /\ WrapperInv' /\ SinksInv'
    BY <1>1, <1>6, WrapCallKeepsNumbers, WrapCallKeepsWrappers, WrapCallKeepsFound
  <1>8. InputInv' /\ UntouchedInv' /\ AddingInv'
    <2>1. InputInv
      BY DEF CallsInv
    <2> QED
      BY <1>1, <2>1, CleanIs DEF InputInv, UntouchedInv, Untouched, AddingInv
  <1> QED
    BY <1>7, <1>8 DEF CallsInv

-----------------------------------------------------------------------------
(* The theorems                                                            *)

\* What is known of one wrapper.
LEMMA WrapperIs ==
    ASSUME NEW fs, NEW m, NEW n, HasWrappers(fs, m, n), NEW w \in 1 .. n, NEW f, f = m + w
    PROVE  /\ fs[f].name = WrapperName[w]
           /\ \A k, l \in DOMAIN fs[f].body : fs[f].body[k].src # 0 /\ fs[f].body[l].src # 0 => k = l
           /\ \E g, l : Calls(fs, WrapperName[w], g, l)
  <1>1. /\ fs[m + w].name = WrapperName[w]
        /\ \A k, l \in DOMAIN fs[m + w].body :
             fs[m + w].body[k].src # 0 /\ fs[m + w].body[l].src # 0 => k = l
        /\ \E g, l : Calls(fs, WrapperName[w], g, l)
    BY Zenon DEF HasWrappers
  <1> QED
    BY <1>1

LEMMA StutterKeepsCalls == PassesInv /\ CallsInv /\ UNCHANGED vars => CallsInv'
  <1> SUFFICES ASSUME PassesInv, CallsInv, UNCHANGED vars PROVE CallsInv'
    OBVIOUS
  <1>1. UNCHANGED <<functions, at, pass, function_infos, call_site_counter, calls_to_wrap,
                    output_param_map, wrappers, input>>
    BY DEF vars, module_vars, metadata_vars, wrap_vars, history
  <1>2. IsModule(functions) /\ IsModule(input) /\ InputInv
    BY CleanIs DEF PassesInv, ModuleInv, Positioned, CallsInv, InputInv
  <1>3. NumbersInv' /\ WrapperInv'
    <2>1. Rearranged(functions', functions)
      BY <1>1, <1>2, SameRearranged
    <2> QED
      BY <1>1, <1>2, <2>1, NumbersKept, WrappersKept DEF CallsInv
  <1>4. AddingInv'
    <2>1. CallSitesBefore(at)' = CallSitesBefore(at)
      BY <1>1 DEF CallSitesBefore, CallSites, Program
    <2> QED
      BY <1>1, <2>1 DEF CallsInv, AddingInv, IsNumberedUpTo, Passed, CallSites, Program
  <1>5. InputInv' /\ UntouchedInv'
    BY <1>1, <1>2 DEF CallsInv, InputInv, UntouchedInv
  <1>6. SinksInv'
    BY <1>1 DEF CallsInv, SinksInv, IsFound, Passed
  <1> QED
    BY <1>3, <1>4, <1>5, <1>6 DEF CallsInv

\* Which instructions of the module come from the program, which numbers they
\* have and in which functions they are, at every step of every pass.
THEOREM CallsInvariant == Spec => []CallsInv
  <1>1. Init => CallsInv
    BY InitGivesCalls
  <1>2. PassesInv /\ CallsInv /\ [Next]_vars => CallsInv'
    BY StartKeepsCalls, PrintKeepsCalls, LoadInputFileKeepsCalls, AddMetadataSkipKeepsCalls,
       ConditionalUpdateKeepsCalls, AddSourcesKeepsCalls, WrapSinksSkipKeepsCalls,
       WrapSinksCollectKeepsCalls, WrapCallKeepsCalls, WrapCrashesKeepsCalls, TagsKeepCalls,
       RemoveSourcesKeepsCalls, NoDependencyMapKeepsCalls, OutputDependencyMapKeepsCalls,
       LoadConfigurationKeepsCalls,
       AddLoggingKeepsCalls, EndOfFunctionKeepsCalls, StutterKeepsCalls, Zenon DEF Next
  <1> QED
    BY <1>1, <1>2, PassesInvariant, PTL DEF Spec

\* Whatever moves, is copied or is erased, no identifier is on two instructions
\* and none is lost, and each is the number of call-sites of the program that
\* are in front: the log reader and the dependency map mean the same call.
THEOREM NumbersAreKept == Spec => []CallSitesAreNumbered
  <1>1. PassesInv /\ CallsInv => CallSitesAreNumbered
    <2> SUFFICES ASSUME PassesInv, CallsInv PROVE CallSitesAreNumbered
      OBVIOUS
    <2>1. /\ SourcesOnce(functions) /\ SourcesOnce(input) /\ IsModule(input)
          /\ \A i \in InstructionsOf(functions) : IsSiteOnce(i)
          /\ pass \notin {"configure", "add_metadata"} =>
               \A i \in InstructionsOf(functions) :
                 IsDirectCall(i) /\ i.fn \in DOMAIN function_infos => i.meta # {}
      BY CleanIs DEF CallsInv, InputInv, NumbersInv
    <2>2. ASSUME NEW f \in DOMAIN functions, NEW g \in DOMAIN functions,
                 NEW k \in DOMAIN functions[f].body, NEW l \in DOMAIN functions[g].body,
                 CallSiteIds(functions[f].body[k]) \cap CallSiteIds(functions[g].body[l]) # {}
          PROVE  f = g /\ k = l
      <3> PICK i, j : i = functions[f].body[k] /\ j = functions[g].body[l]
        OBVIOUS
      <3>1. PICK id : id \in CallSiteIds(i) /\ id \in CallSiteIds(j)
        BY <2>2
      <3>2. i \in InstructionsOf(functions) /\ j \in InstructionsOf(functions)
        BY ModuleIs DEF PassesInv, ModuleInv, Positioned
      <3>3. IsNumberOf(id, i.src) /\ IsNumberOf(id, j.src) /\ i.src # 0
        BY <2>1, <3>1, <3>2 DEF IsSiteOnce, CallSiteIds
      <3>4. PICK p \in CallSites :
              input[p[1]].body[p[2]].src = i.src /\ id = Cardinality(CallSitesBefore(p))
        BY <3>3 DEF IsNumberOf
      <3>5. PICK q \in CallSites :
              input[q[1]].body[q[2]].src = j.src /\ id = Cardinality(CallSitesBefore(q))
        BY <3>3 DEF IsNumberOf
      <3>6. i.src = j.src
        BY <2>1, <3>4, <3>5, NumbersDiffer
      <3> QED
        BY <2>1, <3>3, <3>6 DEF SourcesOnce
    <2>3. \A i \in InstructionsOf(functions) : \A id \in CallSiteIds(i) : IsNumberOf(id, i.src)
      BY <2>1 DEF IsSiteOnce
    <2> QED
      BY <2>1, <2>2, <2>3 DEF CallSitesAreNumbered, IsNumberOf
  <1> QED
    BY <1>1, CallsInvariant, PassesInvariant, PTL

\* Whatever the program and the configuration, each sink ends in a wrapper of
\* its own that is called from one place, with no other call of the program.
THEOREM SinksAreWrapped == Spec => []SinksHaveOwnWrapper
  <1>1. PassesInv /\ CallsInv => SinksHaveOwnWrapper
    <2> SUFFICES ASSUME PassesInv, CallsInv, pass \in Wrapped,
                        NEW f \in DOMAIN functions, NEW k \in DOMAIN functions[f].body,
                        IsSink(functions[f].body[k])
                 PROVE  /\ functions[f].name \in ToSet(WrapperName)
                        /\ {i \in ToSet(functions[f].body) : i.src # 0} = {functions[f].body[k]}
                        /\ Cardinality(CallsOf(functions[f].name)) = 1
      BY DEF SinksHaveOwnWrapper
    <2> PICK m, n, w : m = Len(input) /\ n = wrappers /\ w = f - m
      OBVIOUS
    <2>1. /\ m \in Nat /\ DOMAIN input = 1 .. m /\ n \in Nat /\ n <= Len(WrapperName)
          /\ HasWrappers(functions, m, n)
          /\ DOMAIN functions = 1 .. m + n
          /\ Len(WrapperName) \in Nat
      <3>1. m \in Nat /\ DOMAIN input = 1 .. m
        BY CleanIs, ModuleIs DEF CallsInv, InputInv
      <3>2. n \in Nat /\ n <= Len(WrapperName) /\ HasWrappers(functions, m, n)
        BY WrappersAreReserved DEF PassesInv, CallsInv, WrapperInv
      <3>3. DOMAIN functions = 1 .. Len(functions) /\ Len(functions) = m + n
        BY <3>2, ModuleIs DEF PassesInv, ModuleInv, Positioned, HasWrappers
      <3> QED
        BY <3>1, <3>2, <3>3, WrappersAreReserved
    <2>2. f \notin DOMAIN input
      BY DEF CallsInv, SinksInv
    <2>3. w \in 1 .. n /\ f = m + w /\ w \in 1 .. Len(WrapperName)
      BY <2>1, <2>2
    <2> PICK name, b : name = functions[f].name /\ b = functions[f].body
      OBVIOUS
    <2>4. /\ name = WrapperName[w] /\ name \in ToSet(WrapperName)
          /\ \A i, j \in DOMAIN b : b[i].src # 0 /\ b[j].src # 0 => i = j
          /\ \E g, l : Calls(functions, name, g, l)
          /\ \A g, h, i, j :
               Calls(functions, name, g, i) /\ Calls(functions, name, h, j) => g = h /\ i = j
      <3>1. WrapperName[w] \in ToSet(WrapperName)
        BY <2>3, WrappersAreReserved
      <3> PICK named : named = WrapperName[w]
        OBVIOUS
      <3>2. /\ functions[f].name = named
            /\ \A i, j \in DOMAIN functions[f].body :
                 functions[f].body[i].src # 0 /\ functions[f].body[j].src # 0 => i = j
            /\ \E g, l : Calls(functions, named, g, l)
        BY <2>1, <2>3, WrapperIs
      <3>3. \A g, h, i, j :
              Calls(functions, named, g, i) /\ Calls(functions, named, h, j) => g = h /\ i = j
        BY <2>1, <3>1 DEF HasWrappers
      <3>4. name = named
        BY <3>2
      <3> QED
        BY <3>1, <3>2, <3>3, <3>4
    <2>5. b[k].src # 0
      <3>1. b[k] \in InstructionsOf(functions) /\ b[k].meta # {}
        BY ModuleIs DEF PassesInv, ModuleInv, Positioned, IsSink, HasParamOfType
      <3> QED
        BY <3>1 DEF CallsInv, NumbersInv, IsSiteOnce
    <2>6. {i \in ToSet(b) : i.src # 0} = {b[k]}
      BY <2>4, <2>5 DEF ToSet
    <2>7. Cardinality(CallsOf(name)) = 1
      <3>1. PICK g, l : Calls(functions, name, g, l)
        BY <2>4
      <3>2. <<g, l>> \in CallsOf(name)
        BY <3>1 DEF Calls, CallsOf
      <3>3. ASSUME NEW p \in CallsOf(name) PROVE p = <<g, l>>
        <4>1. PICK h \in DOMAIN functions : p \in {h} \X DOMAIN functions[h].body
          BY DEF CallsOf
        <4>2. p = <<p[1], p[2]>> /\ Calls(functions, name, p[1], p[2])
          BY <4>1 DEF Calls, CallsOf
        <4> QED
          BY <2>4, <3>1, <4>2
      <3>4. CallsOf(name) = {<<g, l>>}
        BY <3>2, <3>3
      <3> QED
        BY <3>4, FS_Singleton
    <2> QED
      BY <2>4, <2>6, <2>7
  <1> QED
    BY <1>1, CallsInvariant, PassesInvariant, PTL

=============================================================================
