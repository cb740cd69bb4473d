----------------------- MODULE ProgramCompile_proofs -----------------------
(***************************************************************************)
(* Proofs about the program compiler: what the ordering of the nodes and   *)
(* the expansion into steps return, for every program.                     *)
(*                                                                         *)
(* Both are recursive functions.  That such a function exists, and what it *)
(* computes, is shown by induction in the form of NatInductionOnSets: the  *)
(* set of the numbers for which the claim fails has no least element.      *)
(***************************************************************************)
EXTENDS ProgramCompile, WellFoundedInduction, FiniteSetTheorems, TLAPS

Less == {ss \in Nat \X Nat : ss[1] < ss[2]}

(* Every non-empty set of natural numbers has a least element.             *)
LEMMA LeastElement ==
    ASSUME NEW T \in SUBSET Nat, T # {}
    PROVE  \E x \in T : \A y \in T : x <= y
<1>1. IsWellFoundedOn(Less, Nat)
  BY NatLessThanWellFounded DEF OpToRel, Less
<1>2. PICK x \in T : \A y \in T : ~ (<<y, x>> \in Less)
  BY <1>1, WFMin
<1>3. ASSUME NEW y \in T PROVE x <= y
  <2>1. x \in Nat /\ y \in Nat
    OBVIOUS
  <2>2. ~ (y < x)
    BY <1>2, <2>1 DEF Less
  <2> QED BY <2>1, <2>2
<1> QED BY <1>3

(* Induction, for a property given as a set.                               *)
LEMMA NatInductionOnSets ==
    ASSUME NEW S, 0 \in S, \A n \in Nat : n \in S => n + 1 \in S
    PROVE  \A n \in Nat : n \in S
<1> SUFFICES ASSUME Nat \ S # {} PROVE FALSE
  OBVIOUS
<1>1. PICK x \in Nat \ S : \A y \in Nat \ S : x <= y
  BY LeastElement
<1>2. x # 0 /\ x - 1 \in Nat
  BY <1>1
<1>3. x - 1 \in S
  BY <1>1, <1>2
<1> QED BY <1>2, <1>3

----------------------------------------------------------------------------
(* FlattenSeq.                                                             *)

(* g holds the concatenations of the first sequences of s, up to the n-th. *)
IsFlat(s, n, g) == g = [i \in 1 .. n |-> IF i = 1 THEN s[i] ELSE g[i - 1] \o s[i]]

LEMMA FlatExists ==
    ASSUME NEW s, NEW m \in Nat
    PROVE  \E g : IsFlat(s, m, g)
<1> DEFINE S == {n \in Nat : \E g : IsFlat(s, n, g)}
<1>1. 0 \in S
  <2>1. IsFlat(s, 0, <<>>)
    BY DEF IsFlat
  <2> QED BY <2>1
<1>2. ASSUME NEW n \in Nat, n \in S PROVE n + 1 \in S
  <2>1. PICK g : IsFlat(s, n, g)
    BY <1>2
  <2> DEFINE last == IF n = 0 THEN s[1] ELSE g[n] \o s[n + 1]
             h == [i \in 1 .. n + 1 |-> IF i = n + 1 THEN last ELSE g[i]]
  <2>2. \A i \in 1 .. n : g[i] = IF i = 1 THEN s[i] ELSE g[i - 1] \o s[i]
    BY <2>1 DEF IsFlat
  <2>3. ASSUME NEW i \in 1 .. n + 1
        PROVE  h[i] = IF i = 1 THEN s[i] ELSE h[i - 1] \o s[i]
    <3>1. CASE i = n + 1 /\ n = 0
      BY <3>1
    <3>2. CASE i = n + 1 /\ n # 0
      <4>1. last = g[n] \o s[n + 1]
        BY <3>2
      <4> HIDE DEF last
      <4>2. h[i] = last /\ h[n] = g[n] /\ i - 1 = n /\ i # 1
        BY <3>2
      <4> QED BY <3>2, <4>1, <4>2
    <3>3. CASE i # n + 1
      <4>1. i \in 1 .. n /\ h[i] = g[i]
        BY <3>3
      <4>2. i # 1 => h[i - 1] = g[i - 1]
        BY <4>1
      <4> QED BY <2>2, <4>1, <4>2
    <3> QED BY <3>1, <3>2, <3>3
  <2>4. IsFlat(s, n + 1, h)
    BY <2>3 DEF IsFlat
  <2> QED BY <2>4
<1>3. m \in S
  <2> HIDE DEF S
  <2> QED BY <1>1, <1>2, NatInductionOnSets
<1> QED BY <1>3

LEMMA FlattenDef ==
    ASSUME NEW s, Len(s) \in Nat \ {0}
    PROVE  \E g : IsFlat(s, Len(s), g) /\ FlattenSeq(s) = g[Len(s)]
<1> DEFINE f == CHOOSE g : g = [i \in 1 .. Len(s) |->
                                  IF i = 1 THEN s[i] ELSE g[i - 1] \o s[i]]
<1>1. FlattenSeq(s) = f[Len(s)]
  BY DEF FlattenSeq
<1>2. \E g : g = [i \in 1 .. Len(s) |-> IF i = 1 THEN s[i] ELSE g[i - 1] \o s[i]]
  BY FlatExists DEF IsFlat
<1>3. IsFlat(s, Len(s), f)
  BY <1>2 DEF IsFlat
<1> QED BY <1>1, <1>3

(* Where the elements of f come from when f is the concatenation of the    *)
(* first n sequences of s: element k is the pos[k]-th of sequence blk[k].  *)
Blocks(s, n, f, blk, pos) ==
    /\ blk \in [1 .. Len(f) -> 1 .. n]
    /\ pos \in [1 .. Len(f) -> Nat]
    /\ \A k \in 1 .. Len(f) : /\ pos[k] \in 1 .. Len(s[blk[k]])
                              /\ f[k] = s[blk[k]][pos[k]]
    /\ \A k, l \in 1 .. Len(f) : k < l =>
          blk[k] < blk[l] \/ (blk[k] = blk[l] /\ pos[k] < pos[l])
    /\ \A i \in 1 .. n : \A j \in 1 .. Len(s[i]) :
          \E k \in 1 .. Len(f) : blk[k] = i /\ pos[k] = j

LEMMA BlocksExtend ==
    ASSUME NEW X, NEW s, NEW n \in Nat, NEW f \in Seq(X), NEW e \in Seq(X),
           NEW blk, NEW pos, Blocks(s, n, f, blk, pos), e = s[n + 1]
    PROVE  /\ f \o e \in Seq(X)
           /\ \E b, q : Blocks(s, n + 1, f \o e, b, q)
<1> DEFINE F == Len(f)
           E == Len(e)
           g == f \o e
           b == [k \in 1 .. F + E |-> IF k <= F THEN blk[k] ELSE n + 1]
           q == [k \in 1 .. F + E |-> IF k <= F THEN pos[k] ELSE k - F]
<1>1. /\ g \in Seq(X) /\ Len(g) = F + E /\ F \in Nat /\ E \in Nat
      /\ \A k \in 1 .. F : g[k] = f[k]
      /\ \A k \in 1 .. F + E : k > F => g[k] = e[k - F]
  OBVIOUS
<1>2. /\ \A k \in 1 .. F : b[k] = blk[k] /\ q[k] = pos[k] /\ b[k] \in 1 .. n /\ q[k] \in Nat
      /\ \A k \in 1 .. F + E : k > F => b[k] = n + 1 /\ q[k] = k - F
  <2>1. \A k \in 1 .. F : k \in 1 .. F + E /\ k <= F
    BY <1>1
  <2>2. \A k \in 1 .. F : b[k] = blk[k] /\ q[k] = pos[k]
    BY <2>1
  <2>3. \A k \in 1 .. F : blk[k] \in 1 .. n /\ pos[k] \in Nat
    BY DEF Blocks
  <2>4. \A k \in 1 .. F + E : k > F => ~ (k <= F)
    BY <1>1
  <2>5. \A k \in 1 .. F + E : k > F => b[k] = n + 1 /\ q[k] = k - F
    BY <2>4
  <2> HIDE DEF b, q
  <2> QED BY <2>2, <2>3, <2>5
<1> HIDE DEF g
<1>3. b \in [1 .. Len(g) -> 1 .. n + 1] /\ q \in [1 .. Len(g) -> Nat]
  BY <1>1 DEF Blocks
<1>4. ASSUME NEW k \in 1 .. Len(g)
      PROVE  q[k] \in 1 .. Len(s[b[k]]) /\ g[k] = s[b[k]][q[k]]
  <2>1. CASE k <= F
    <3>1. k \in 1 .. F
      BY <1>1, <2>1
    <3>2. pos[k] \in 1 .. Len(s[blk[k]]) /\ f[k] = s[blk[k]][pos[k]]
      BY <3>1 DEF Blocks
    <3> QED BY <1>1, <1>2, <3>1, <3>2
  <2>2. CASE k > F
    <3>1. b[k] = n + 1 /\ q[k] = k - F /\ g[k] = e[k - F]
      BY <1>1, <1>2, <2>2
    <3>2. k - F \in 1 .. E
      BY <1>1, <2>2
    <3> QED BY <3>1, <3>2
  <2> QED BY <1>1, <2>1, <2>2
<1>5. ASSUME NEW k \in 1 .. Len(g), NEW l \in 1 .. Len(g), k < l
      PROVE  b[k] < b[l] \/ (b[k] = b[l] /\ q[k] < q[l])
  <2>1. CASE l <= F
    <3>1. k \in 1 .. F /\ l \in 1 .. F
      BY <1>1, <1>5, <2>1
    <3>2. blk[k] < blk[l] \/ (blk[k] = blk[l] /\ pos[k] < pos[l])
      BY <1>5, <3>1 DEF Blocks
    <3> QED BY <1>2, <3>1, <3>2
  <2>2. CASE k <= F /\ l > F
    <3>1. k \in 1 .. F /\ b[l] = n + 1
      BY <1>1, <1>2, <2>2
    <3>2. b[k] \in 1 .. n
      BY <1>2, <3>1
    <3> QED BY <3>1, <3>2
  <2>3. CASE k > F
    <3>1. b[k] = n + 1 /\ q[k] = k - F /\ b[l] = n + 1 /\ q[l] = l - F
      BY <1>1, <1>2, <1>5, <2>3
    <3> QED BY <1>1, <1>5, <3>1
  <2> QED BY <1>1, <2>1, <2>2, <2>3
<1>6. ASSUME NEW i \in 1 .. n + 1, NEW j \in 1 .. Len(s[i])
      PROVE  \E k \in 1 .. Len(g) : b[k] = i /\ q[k] = j
  <2>1. CASE i = n + 1
    <3>1. j \in 1 .. E
      BY <2>1
    <3>2. F + j \in 1 .. F + E /\ F + j > F /\ F + j - F = j
      BY <1>1, <3>1
    <3>3. b[F + j] = i /\ q[F + j] = j
      BY <1>2, <2>1, <3>2
    <3> QED BY <1>1, <3>2, <3>3
  <2>2. CASE i # n + 1
    <3>1. i \in 1 .. n
      BY <2>2
    <3>2. PICK k \in 1 .. F : blk[k] = i /\ pos[k] = j
      BY <3>1 DEF Blocks
    <3>3. k \in 1 .. Len(g)
      BY <1>1
    <3> QED BY <1>2, <3>2, <3>3
  <2> QED BY <2>1, <2>2
<1>7. Blocks(s, n + 1, g, b, q)
  <2> HIDE DEF b, q
  <2> QED BY <1>3, <1>4, <1>5, <1>6 DEF Blocks
<1>8. \E bb, qq : Blocks(s, n + 1, g, bb, qq)
  <2> HIDE DEF b, q
  <2> QED BY <1>7
<1> QED BY <1>1, <1>8 DEF g

(* What FlattenSeq returns: the elements of all sequences, in their order, *)
(* and nothing else.                                                       *)
LEMMA FlattenFacts ==
    ASSUME NEW X, NEW s \in Seq(Seq(X))
    PROVE  /\ FlattenSeq(s) \in Seq(X)
           /\ \E blk, pos : Blocks(s, Len(s), FlattenSeq(s), blk, pos)
<1> DEFINE N == Len(s)
<1>1. CASE N = 0
  <2>1. FlattenSeq(s) = <<>>
    BY <1>1 DEF FlattenSeq
  <2>2. Blocks(s, 0, <<>>, <<>>, <<>>)
    BY DEF Blocks
  <2> QED BY <1>1, <2>1, <2>2
<1>2. CASE N # 0
  <2>1. N \in Nat \ {0}
    BY <1>2
  <2>2. PICK g : IsFlat(s, N, g) /\ FlattenSeq(s) = g[N]
    BY <2>1, FlattenDef
  <2>3. \A i \in 1 .. N : g[i] = IF i = 1 THEN s[i] ELSE g[i - 1] \o s[i]
    BY <2>2 DEF IsFlat
  <2> DEFINE Good(n) == g[n] \in Seq(X) /\ \E blk, pos : Blocks(s, n, g[n], blk, pos)
             S == {n \in Nat : n + 1 <= N => Good(n + 1)}
  <2>4. 0 \in S
    <3>1. 1 \in 1 .. N /\ g[1] = s[1] /\ s[1] \in Seq(X)
      BY <2>1, <2>3
    <3>2. <<>> \in Seq(X) /\ Blocks(s, 0, <<>>, <<>>, <<>>)
      BY DEF Blocks
    <3>3. <<>> \o s[1] = g[1]
      BY <3>1
    <3>4. s[1] = s[0 + 1] /\ 0 + 1 = 1
      OBVIOUS
    <3>5. <<>> \o s[1] \in Seq(X) /\ \E b, q : Blocks(s, 0 + 1, <<>> \o s[1], b, q)
      BY <3>1, <3>2, <3>4, BlocksExtend
    <3>6. Good(1)
      BY <3>3, <3>4, <3>5
    <3> QED BY <3>6
  <2>5. ASSUME NEW n \in Nat, n \in S PROVE n + 1 \in S
    <3> SUFFICES ASSUME n + 1 + 1 <= N PROVE Good(n + 1 + 1)
      OBVIOUS
    <3> DEFINE m == n + 1
    <3>1. m \in Nat /\ m <= N /\ m + 1 \in 1 .. N /\ m + 1 # 1 /\ m + 1 - 1 = m
      BY <2>1
    <3>2. Good(m)
      BY <2>5, <3>1
    <3> HIDE DEF m
    <3>3. g[m + 1] = g[m] \o s[m + 1] /\ s[m + 1] \in Seq(X)
      <4> DEFINE i == m + 1
      <4>1. i \in 1 .. N /\ i # 1 /\ i - 1 = m
        BY <3>1
      <4> HIDE DEF i
      <4>2. g[i] = g[i - 1] \o s[i]
        BY <2>3, <4>1, Zenon
      <4>3. s[i] \in Seq(X)
        BY <4>1
      <4> QED BY <4>1, <4>2, <4>3, Zenon DEF i
    <3>4. PICK blk, pos : Blocks(s, m, g[m], blk, pos)
      BY <3>2
    <3>5. /\ g[m] \o s[m + 1] \in Seq(X)
          /\ \E b, q : Blocks(s, m + 1, g[m] \o s[m + 1], b, q)
      BY <3>1, <3>2, <3>3, <3>4, BlocksExtend
    <3>6. Good(m + 1)
      BY <3>3, <3>5
    <3> QED BY <3>6 DEF m
  <2>6. N - 1 \in S
    <3>1. N - 1 \in Nat
      BY <2>1
    <3> HIDE DEF S
    <3> QED BY <2>4, <2>5, <3>1, NatInductionOnSets
  <2>7. Good(N)
    BY <2>1, <2>6
  <2> QED BY <2>2, <2>7
<1> QED BY <1>1, <1>2

----------------------------------------------------------------------------
(* Programs whose ids are distinct and whose dependencies exist.           *)

Sound(program) ==
    /\ IsProgram(program)
    /\ \A i, j \in DOMAIN program.nodes : program.nodes[i].id = program.nodes[j].id => i = j
    /\ \A id \in Ids(program) : ToSet(nodesByID(program, id).deps) \subseteq Ids(program)

LEMMA SequenceFacts ==
    ASSUME NEW s, IsSequence(s)
    PROVE  /\ Len(s) \in Nat /\ DOMAIN s = 1 .. Len(s)
           /\ \A i \in 1 .. Len(s) : s[i] \in ToSet(s)
           /\ \A x \in ToSet(s) : \E i \in 1 .. Len(s) : s[i] = x
           /\ \A X : ToSet(s) \subseteq X => s \in Seq(X)
<1>1. s \in Seq(ToSet(s))
  BY DEF IsSequence
<1>2. Len(s) \in Nat /\ DOMAIN s = 1 .. Len(s) /\ \A i \in 1 .. Len(s) : s[i] \in ToSet(s)
  BY <1>1
<1>3. \A x \in ToSet(s) : \E i \in 1 .. Len(s) : s[i] = x
  BY <1>2 DEF ToSet
<1>4. \A X : ToSet(s) \subseteq X => s \in Seq(X)
  BY <1>1
<1> QED BY <1>2, <1>3, <1>4

LEMMA NodeFacts ==
    ASSUME NEW program, Sound(program)
    PROVE  /\ Len(program.nodes) \in Nat
           /\ DOMAIN program.nodes = 1 .. Len(program.nodes)
           /\ \A i \in 1 .. Len(program.nodes) :
                 /\ program.nodes[i].id \in Ids(program)
                 /\ nodeOrder(program, program.nodes[i].id) = i
           /\ \A id \in Ids(program) :
                 /\ nodeOrder(program, id) \in 1 .. Len(program.nodes)
                 /\ program.nodes[nodeOrder(program, id)].id = id
                 /\ IsSequence(nodesByID(program, id).deps)
                 /\ IsSequence(nodesByID(program, id).targets)
                 /\ nodesByID(program, id).verify \in BOOLEAN
                 /\ nodesByID(program, id).id = id
<1>1. IsSequence(program.nodes)
  BY DEF Sound, IsProgram
<1>2. Len(program.nodes) \in Nat /\ DOMAIN program.nodes = 1 .. Len(program.nodes)
  BY <1>1, SequenceFacts
<1>3. ASSUME NEW id \in Ids(program)
      PROVE  /\ nodeOrder(program, id) \in 1 .. Len(program.nodes)
             /\ program.nodes[nodeOrder(program, id)].id = id
  <2>1. \E i \in DOMAIN program.nodes : program.nodes[i].id = id
    BY DEF Ids
  <2> QED BY <1>2, <2>1 DEF nodeOrder
<1>4. \A i \in 1 .. Len(program.nodes) : program.nodes[i].id \in Ids(program)
  BY <1>2 DEF Ids
<1>5. ASSUME NEW i \in 1 .. Len(program.nodes)
      PROVE  nodeOrder(program, program.nodes[i].id) = i
  <2> DEFINE o == nodeOrder(program, program.nodes[i].id)
  <2>1. o \in 1 .. Len(program.nodes) /\ program.nodes[o].id = program.nodes[i].id
    BY <1>3, <1>4
  <2> HIDE DEF o
  <2>2. o = i
    BY <1>2, <2>1 DEF Sound
  <2> QED BY <2>2 DEF o
<1>6. ASSUME NEW id \in Ids(program)
      PROVE  /\ IsSequence(nodesByID(program, id).deps)
             /\ IsSequence(nodesByID(program, id).targets)
             /\ nodesByID(program, id).verify \in BOOLEAN
             /\ nodesByID(program, id).id = id
  BY <1>2, <1>3 DEF Sound, IsProgram, nodesByID
<1> QED BY <1>2, <1>3, <1>4, <1>5, <1>6

LEMMA AcceptedIsSound ==
    ASSUME NEW program, NEW path, IsProgram(program), ~ malformed(program, path)
    PROVE  Sound(program) /\ NoId \notin Ids(program)
<1>1. IsSequence(program.nodes)
  BY DEF IsProgram
<1>2. Len(program.nodes) \in Nat /\ DOMAIN program.nodes = 1 .. Len(program.nodes)
  BY <1>1, SequenceFacts
<1>3. ASSUME NEW i \in DOMAIN program.nodes, NEW j \in DOMAIN program.nodes,
             program.nodes[i].id = program.nodes[j].id
      PROVE  i = j
  <2>1. ~ (i < j) /\ ~ (j < i)
    BY <1>3, Zenon DEF malformed
  <2> QED BY <1>2, <2>1
<1>4. \A id \in Ids(program) : ToSet(nodesByID(program, id).deps) \subseteq Ids(program)
  BY Zenon DEF malformed
<1>5. NoId \notin Ids(program)
  BY Zenon DEF malformed
<1> QED BY <1>3, <1>4, <1>5 DEF Sound

(* Sequences of nodes: without repetition, and sorted by place.            *)
NoDup(q) == \A i, j \in 1 .. Len(q) : q[i] = q[j] => i = j

Sorted(program, q) ==
    \A i, j \in 1 .. Len(q) : i < j => nodeOrder(program, q[i]) < nodeOrder(program, q[j])

LEMMA SortedNoDup ==
    ASSUME NEW program, Sound(program), NEW q \in Seq(Ids(program)), Sorted(program, q)
    PROVE  NoDup(q)
<1> SUFFICES ASSUME NEW i \in 1 .. Len(q), NEW j \in 1 .. Len(q), q[i] = q[j], i # j
             PROVE  FALSE
  BY DEF NoDup
<1>1. q[i] \in Ids(program) /\ i \in Nat /\ j \in Nat
  OBVIOUS
<1>2. nodeOrder(program, q[i]) \in Nat
  BY <1>1, NodeFacts
<1>3. i < j \/ j < i
  BY <1>1
<1>4. nodeOrder(program, q[i]) < nodeOrder(program, q[i])
  BY <1>3, Zenon DEF Sorted
<1> QED BY <1>2, <1>4

(* One sequence for each node, empty or the node itself: flattened, it is  *)
(* the chosen nodes in the order of the program.                           *)
LEMMA ChosenFacts ==
    ASSUME NEW program, Sound(program), NEW s \in Seq(Seq(Ids(program))),
           Len(s) = Len(program.nodes),
           \A i \in 1 .. Len(s) : /\ Len(s[i]) \in {0, 1}
                                  /\ Len(s[i]) = 1 => s[i][1] = program.nodes[i].id
    PROVE  /\ FlattenSeq(s) \in Seq(Ids(program))
           /\ Sorted(program, FlattenSeq(s))
           /\ ToSet(FlattenSeq(s)) = {id \in Ids(program) : Len(s[nodeOrder(program, id)]) = 1}
<1> DEFINE q == FlattenSeq(s)
<1>1. q \in Seq(Ids(program))
  BY FlattenFacts
<1>2. PICK blk, pos : Blocks(s, Len(s), q, blk, pos)
  BY FlattenFacts
<1> HIDE DEF q
<1>3. ASSUME NEW k \in 1 .. Len(q)
      PROVE  /\ blk[k] \in 1 .. Len(s) /\ pos[k] = 1 /\ Len(s[blk[k]]) = 1
             /\ q[k] = program.nodes[blk[k]].id
             /\ nodeOrder(program, q[k]) = blk[k]
  <2>1. blk[k] \in 1 .. Len(s) /\ pos[k] \in 1 .. Len(s[blk[k]]) /\ q[k] = s[blk[k]][pos[k]]
    BY <1>2 DEF Blocks
  <2>2. Len(s[blk[k]]) = 1 /\ pos[k] = 1
    BY <2>1
  <2>3. q[k] = program.nodes[blk[k]].id
    BY <2>1, <2>2
  <2> QED BY <2>1, <2>2, <2>3, NodeFacts
<1>4. Sorted(program, q)
  <2> SUFFICES ASSUME NEW i \in 1 .. Len(q), NEW j \in 1 .. Len(q), i < j
               PROVE  nodeOrder(program, q[i]) < nodeOrder(program, q[j])
    BY DEF Sorted
  <2>1. blk[i] < blk[j] \/ (blk[i] = blk[j] /\ pos[i] < pos[j])
    BY <1>2 DEF Blocks
  <2>2. pos[i] = 1 /\ pos[j] = 1
    BY <1>3
  <2>3. blk[i] < blk[j]
    BY <2>1, <2>2
  <2> QED BY <1>3, <2>3
<1>5. ASSUME NEW id \in Ids(program), Len(s[nodeOrder(program, id)]) = 1
      PROVE  id \in ToSet(q)
  <2> DEFINE o == nodeOrder(program, id)
  <2>1. o \in 1 .. Len(s) /\ program.nodes[o].id = id
    BY NodeFacts
  <2>2. 1 \in 1 .. Len(s[o])
    BY <1>5
  <2> HIDE DEF o
  <2>3. PICK k \in 1 .. Len(q) : blk[k] = o /\ pos[k] = 1
    BY <1>2, <2>1, <2>2, Zenon DEF Blocks
  <2>4. q[k] = id
    BY <1>3, <2>1, <2>3
  <2>5. k \in DOMAIN q
    BY <1>1
  <2> QED BY <2>4, <2>5 DEF ToSet
<1>6. ASSUME NEW id \in ToSet(q)
      PROVE  id \in Ids(program) /\ Len(s[nodeOrder(program, id)]) = 1
  <2>1. PICK k \in 1 .. Len(q) : q[k] = id
    BY <1>1, <1>6 DEF ToSet
  <2> QED BY <1>1, <1>3, <2>1
<1>7. ToSet(q) = {id \in Ids(program) : Len(s[nodeOrder(program, id)]) = 1}
  BY <1>5, <1>6
<1> QED BY <1>1, <1>4, <1>7 DEF q

LEMMA InOrderFacts ==
    ASSUME NEW program, Sound(program), NEW S \in SUBSET Ids(program)
    PROVE  /\ InOrder(program, S) \in Seq(Ids(program))
           /\ Sorted(program, InOrder(program, S))
           /\ ToSet(InOrder(program, S)) = S
<1> DEFINE s == [i \in DOMAIN program.nodes |->
                   IF program.nodes[i].id \in S THEN <<program.nodes[i].id>> ELSE <<>>]
           N == Len(program.nodes)
<1>1. N \in Nat /\ DOMAIN program.nodes = 1 .. N
  BY NodeFacts
<1>2. \A i \in 1 .. N : program.nodes[i].id \in Ids(program)
  BY NodeFacts
<1>3. s \in Seq(Seq(Ids(program))) /\ Len(s) = N
  BY <1>1, <1>2
<1>4. \A i \in 1 .. N : /\ Len(s[i]) \in {0, 1}
                        /\ Len(s[i]) = 1 <=> program.nodes[i].id \in S
                        /\ Len(s[i]) = 1 => s[i][1] = program.nodes[i].id
  BY <1>1
<1>5. InOrder(program, S) = FlattenSeq(s)
  BY DEF InOrder
<1>6. \A id \in Ids(program) : nodeOrder(program, id) \in 1 .. N
                                 /\ program.nodes[nodeOrder(program, id)].id = id
  BY NodeFacts
<1> HIDE DEF s, N
<1>7. /\ FlattenSeq(s) \in Seq(Ids(program)) /\ Sorted(program, FlattenSeq(s))
      /\ ToSet(FlattenSeq(s)) = {id \in Ids(program) : Len(s[nodeOrder(program, id)]) = 1}
  BY <1>3, <1>4, ChosenFacts DEF N
<1>8. {id \in Ids(program) : Len(s[nodeOrder(program, id)]) = 1} = S
  BY <1>4, <1>6
<1> QED BY <1>5, <1>7, <1>8

(* How often a value is in a sequence that has none twice.                 *)
LEMMA CountFacts ==
    ASSUME NEW X, NEW q \in Seq(X), NoDup(q), NEW x
    PROVE  LET c == Cardinality({j \in DOMAIN q : q[j] = x})
           IN  c \in {0, 1} /\ (c = 1 <=> x \in ToSet(q))
<1> DEFINE T == {j \in DOMAIN q : q[j] = x}
<1>1. DOMAIN q = 1 .. Len(q)
  OBVIOUS
<1>2. CASE x \notin ToSet(q)
  <2>1. T = {}
    BY <1>2 DEF ToSet
  <2>2. Cardinality(T) = 0
    BY <2>1, FS_EmptySet, Zenon
  <2> QED BY <1>2, <2>2
<1>3. CASE x \in ToSet(q)
  <2>1. PICK j \in DOMAIN q : q[j] = x
    BY <1>3 DEF ToSet
  <2>2. T = {j}
    BY <1>1, <2>1 DEF NoDup
  <2>3. Cardinality(T) = 1
    BY <2>2, FS_Singleton, Zenon
  <2> QED BY <1>3, <2>3
<1> QED BY <1>2, <1>3

LEMMA QueuedFacts ==
    ASSUME NEW program, Sound(program), NEW path \in Path,
           NEW ready \in Seq(Ids(program)), NoDup(ready)
    PROVE  LET q == queued(program, path, ready)
           IN  /\ q \in Seq(Ids(program)) /\ NoDup(q)
               /\ ToSet(q) = ToSet(ready)
               /\ path = "runtime" => Sorted(program, q)
<1>1. CASE path = "attached"
  BY <1>1 DEF queued
<1>2. CASE path # "attached"
  <2> DEFINE Times(id) == Cardinality({j \in DOMAIN ready : ready[j] = id})
             s == [i \in DOMAIN program.nodes |->
                     [k \in 1 .. Times(program.nodes[i].id) |-> program.nodes[i].id]]
             N == Len(program.nodes)
  <2>1. N \in Nat /\ DOMAIN program.nodes = 1 .. N
    BY NodeFacts
  <2>2. \A i \in 1 .. N : program.nodes[i].id \in Ids(program)
    BY NodeFacts
  <2>3. \A id : Times(id) \in {0, 1} /\ (Times(id) = 1 <=> id \in ToSet(ready))
    BY CountFacts
  <2>4. queued(program, path, ready) = FlattenSeq(s)
    BY <1>2, Zenon DEF queued
  <2> HIDE DEF Times
  <2>5. ASSUME NEW i \in 1 .. N
        PROVE  /\ s[i] \in Seq(Ids(program)) /\ Len(s[i]) = Times(program.nodes[i].id)
               /\ Len(s[i]) = 1 => s[i][1] = program.nodes[i].id
    <3> DEFINE id == program.nodes[i].id
               c == Times(id)
    <3>1. c \in Nat /\ id \in Ids(program)
      BY <2>2, <2>3
    <3>2. s[i] = [k \in 1 .. c |-> id]
      BY <2>1
    <3> HIDE DEF id, c, s
    <3>3. s[i] \in Seq(Ids(program)) /\ Len(s[i]) = c
      BY <3>1, <3>2
    <3>4. c = 1 => s[i][1] = id
      BY <3>2
    <3> QED BY <3>3, <3>4 DEF id, c
  <2>6. s \in Seq(Seq(Ids(program))) /\ Len(s) = N
    <3>1. DOMAIN s = 1 .. N
      BY <2>1
    <3>2. s = [i \in 1 .. N |-> s[i]]
      BY <2>1
    <3> HIDE DEF s
    <3> QED BY <2>1, <2>5, <3>1, <3>2
  <2>7. \A id \in Ids(program) : nodeOrder(program, id) \in 1 .. N
                                   /\ program.nodes[nodeOrder(program, id)].id = id
    BY NodeFacts
  <2> HIDE DEF s, N
  <2>8. \A i \in 1 .. N : Len(s[i]) \in {0, 1}
    BY <2>3, <2>5
  <2>9. /\ FlattenSeq(s) \in Seq(Ids(program)) /\ Sorted(program, FlattenSeq(s))
        /\ ToSet(FlattenSeq(s)) = {id \in Ids(program) : Len(s[nodeOrder(program, id)]) = 1}
    BY <2>5, <2>6, <2>8, ChosenFacts DEF N
  <2>10. ToSet(ready) \subseteq Ids(program)
    BY DEF ToSet
  <2>11. {id \in Ids(program) : Len(s[nodeOrder(program, id)]) = 1} = ToSet(ready)
    BY <2>3, <2>5, <2>7, <2>10
  <2>12. NoDup(FlattenSeq(s))
    BY <2>9, SortedNoDup
  <2> QED BY <2>4, <2>9, <2>11, <2>12
<1> QED BY <1>1, <1>2

----------------------------------------------------------------------------
(* Kahn's algorithm.                                                       *)

(* The dependencies of n that have not been visited.                       *)
Missing(program, n, out) ==
    {i \in DOMAIN nodesByID(program, n).deps :
        nodesByID(program, n).deps[i] \notin ToSet(out)}

(* What the nodes visited so far, the ready ones and the counts are after  *)
(* k turns of the loop.                                                    *)
Counted(program, s) ==
    \A n \in Ids(program) :
        /\ s.indegree[n] = Cardinality(Missing(program, n, s.out))
        /\ s.indegree[n] = 0 <=> n \in ToSet(s.out) \cup ToSet(s.ready)

(* Every visited node comes after all it depends on.                       *)
Ordered(program, out) ==
    \A j \in 1 .. Len(out) : \A d \in ToSet(nodesByID(program, out[j]).deps) :
        \E i \in 1 .. j - 1 : out[i] = d

Before(out, i) == {out[l] : l \in 1 .. i - 1}

(* A node that was passed over though its place is earlier was waiting for *)
(* a dependency.                                                           *)
Greedy(program, out) ==
    \A i \in 1 .. Len(out), n \in Ids(program) :
        n \notin Before(out, i + 1) /\ nodeOrder(program, n) < nodeOrder(program, out[i])
          => \E d \in ToSet(nodesByID(program, n).deps) : d \notin Before(out, i)

KahnInv(program, path, k, s) ==
    /\ s.out \in Seq(Ids(program)) /\ NoDup(s.out)
    /\ s.ready \in Seq(Ids(program)) /\ NoDup(s.ready)
    /\ ToSet(s.out) \cap ToSet(s.ready) = {}
    /\ s.indegree \in [Ids(program) -> Nat]
    /\ Counted(program, s)
    /\ Ordered(program, s.out)
    /\ path = "runtime" => Sorted(program, s.ready) /\ Greedy(program, s.out)
    /\ Len(s.out) <= k
    /\ Len(s.out) = k \/ s.ready = <<>>

LEMMA KahnStart ==
    ASSUME NEW program, Sound(program), NEW path \in Path
    PROVE  KahnInv(program, path, 0, start(program))
<1> DEFINE indegree == [id \in Ids(program) |-> Len(nodesByID(program, id).deps)]
           S == {id \in Ids(program) : indegree[id] = 0}
           ready == InOrder(program, S)
           s == start(program)
<1>1. s.indegree = indegree /\ s.out = <<>> /\ s.ready = ready
  BY DEF start
<1>2. /\ ready \in Seq(Ids(program)) /\ Sorted(program, ready) /\ ToSet(ready) = S
  BY InOrderFacts
<1>3. NoDup(ready)
  BY <1>2, SortedNoDup
<1>4. \A n \in Ids(program) : /\ Len(nodesByID(program, n).deps) \in Nat
                              /\ DOMAIN nodesByID(program, n).deps
                                   = 1 .. Len(nodesByID(program, n).deps)
  BY NodeFacts, SequenceFacts
<1>5. ToSet(<<>>) = {}
  BY DEF ToSet
<1>6. ASSUME NEW n \in Ids(program)
      PROVE  indegree[n] = Cardinality(Missing(program, n, <<>>))
  <2> DEFINE l == Len(nodesByID(program, n).deps)
  <2>1. Missing(program, n, <<>>) = 1 .. l /\ l \in Nat
    BY <1>4, <1>5 DEF Missing
  <2>2. indegree[n] = l
    OBVIOUS
  <2> HIDE DEF l, indegree
  <2>3. Cardinality(1 .. l) = IF 1 > l THEN 0 ELSE l - 1 + 1
    BY <2>1, FS_Interval
  <2>4. Cardinality(1 .. l) = l
    BY <2>1, <2>3
  <2> QED BY <2>1, <2>2, <2>4
<1>7. indegree \in [Ids(program) -> Nat]
  BY <1>4
<1>8. \A n \in Ids(program) : indegree[n] = 0 <=> n \in S
  OBVIOUS
<1> HIDE DEF s, ready, S, indegree
<1>9. Counted(program, s)
  BY <1>1, <1>2, <1>5, <1>6, <1>8 DEF Counted
<1>10. NoDup(<<>>) /\ Ordered(program, <<>>) /\ Greedy(program, <<>>) /\ <<>> \in Seq(Ids(program))
  BY DEF NoDup, Ordered, Greedy
<1>11. Len(<<>>) = 0 /\ Len(<<>>) <= 0
  OBVIOUS
<1>12. KahnInv(program, path, 0, s)
  BY <1>1, <1>2, <1>3, <1>5, <1>7, <1>9, <1>10, <1>11, Zenon DEF KahnInv
<1> QED BY <1>12 DEF s

LEMMA TailFacts ==
    ASSUME NEW X, NEW q \in Seq(X), q # <<>>, NoDup(q)
    PROVE  /\ Head(q) = q[1] /\ Head(q) \in ToSet(q) /\ Head(q) \in X
           /\ Tail(q) \in Seq(X) /\ NoDup(Tail(q))
           /\ ToSet(Tail(q)) = ToSet(q) \ {Head(q)}
           /\ Len(q) \in Nat \ {0} /\ Len(Tail(q)) = Len(q) - 1
           /\ \A i \in 1 .. Len(q) - 1 : Tail(q)[i] = q[i + 1]
<1>1. /\ Len(q) \in Nat \ {0} /\ Tail(q) \in Seq(X) /\ Len(Tail(q)) = Len(q) - 1
      /\ Head(q) = q[1] /\ DOMAIN q = 1 .. Len(q)
  OBVIOUS
<1>2. \A i \in 1 .. Len(q) - 1 : Tail(q)[i] = q[i + 1]
  BY <1>1
<1> DEFINE t == Tail(q)
           n == Len(q)
<1>3. t \in Seq(X) /\ Len(t) = n - 1 /\ DOMAIN t = 1 .. n - 1
  BY <1>1
<1>4. q[1] \in ToSet(q) /\ q[1] \in X
  BY <1>1 DEF ToSet
<1> HIDE DEF t
<1>5. NoDup(t)
  <2> SUFFICES ASSUME NEW i \in 1 .. n - 1, NEW j \in 1 .. n - 1, t[i] = t[j]
               PROVE  i = j
    BY <1>3 DEF NoDup
  <2>1. i + 1 \in 1 .. n /\ j + 1 \in 1 .. n
    BY <1>1
  <2>2. q[i + 1] = q[j + 1]
    BY <1>2 DEF t
  <2>3. i + 1 = j + 1
    BY <2>1, <2>2 DEF NoDup
  <2> QED BY <1>1, <2>3
<1>6. ASSUME NEW x \in ToSet(t) PROVE x \in ToSet(q) \ {q[1]}
  <2>1. PICK i \in 1 .. n - 1 : t[i] = x
    BY <1>3, <1>6 DEF ToSet
  <2>2. i + 1 \in 1 .. n /\ i + 1 # 1 /\ q[i + 1] = x
    BY <1>1, <1>2, <2>1 DEF t
  <2>3. 1 \in 1 .. n
    BY <1>1
  <2> QED BY <1>1, <2>2, <2>3 DEF NoDup, ToSet
<1>7. ASSUME NEW x \in ToSet(q) \ {q[1]} PROVE x \in ToSet(t)
  <2>1. PICK i \in 1 .. n : q[i] = x
    BY <1>1 DEF ToSet
  <2>2. i # 1
    BY <2>1
  <2>3. i - 1 \in 1 .. n - 1 /\ i - 1 + 1 = i
    BY <1>1, <2>2
  <2>4. t[i - 1] = x
    BY <1>2, <2>1, <2>3 DEF t
  <2> QED BY <1>3, <2>3, <2>4 DEF ToSet
<1>8. ToSet(t) = ToSet(q) \ {q[1]}
  BY <1>6, <1>7
<1> QED BY <1>1, <1>2, <1>4, <1>5, <1>8 DEF t

LEMMA ConcatFacts ==
    ASSUME NEW X, NEW a \in Seq(X), NEW b \in Seq(X), NoDup(a), NoDup(b),
           ToSet(a) \cap ToSet(b) = {}
    PROVE  /\ a \o b \in Seq(X) /\ NoDup(a \o b)
           /\ ToSet(a \o b) = ToSet(a) \cup ToSet(b)
<1> DEFINE c == a \o b
           A == Len(a)
           B == Len(b)
<1>1. /\ A \in Nat /\ B \in Nat /\ c \in Seq(X) /\ Len(c) = A + B
      /\ DOMAIN a = 1 .. A /\ DOMAIN b = 1 .. B /\ DOMAIN c = 1 .. A + B
  OBVIOUS
<1>2. \A k \in 1 .. A + B : IF k <= A THEN c[k] = a[k] ELSE c[k] = b[k - A]
  BY <1>1
<1> HIDE DEF c
<1>3. ASSUME NEW k \in 1 .. A + B
      PROVE  \/ k \in 1 .. A /\ c[k] = a[k] /\ c[k] \in ToSet(a)
             \/ k - A \in 1 .. B /\ c[k] = b[k - A] /\ c[k] \in ToSet(b)
  <2>1. CASE k <= A
    <3>1. k \in 1 .. A /\ c[k] = a[k]
      BY <1>1, <1>2, <2>1
    <3> QED BY <1>1, <3>1 DEF ToSet
  <2>2. CASE ~ (k <= A)
    <3>1. k - A \in 1 .. B /\ c[k] = b[k - A]
      BY <1>1, <1>2, <2>2
    <3> QED BY <1>1, <3>1 DEF ToSet
  <2> QED BY <2>1, <2>2
<1>4. NoDup(c)
  <2> SUFFICES ASSUME NEW k \in 1 .. A + B, NEW l \in 1 .. A + B, c[k] = c[l]
               PROVE  k = l
    BY <1>1 DEF NoDup
  <2>1. CASE k \in 1 .. A /\ l \in 1 .. A /\ a[k] = a[l]
    BY <2>1 DEF NoDup
  <2>2. CASE k - A \in 1 .. B /\ l - A \in 1 .. B /\ b[k - A] = b[l - A]
    <3>1. k - A = l - A
      BY <2>2, Zenon DEF NoDup
    <3> QED BY <1>1, <3>1
  <2> QED BY <1>3, <2>1, <2>2
<1>5. ASSUME NEW x \in ToSet(c) PROVE x \in ToSet(a) \cup ToSet(b)
  BY <1>1, <1>3 DEF ToSet
<1>6. ASSUME NEW x \in ToSet(a) PROVE x \in ToSet(c)
  <2>1. PICK k \in 1 .. A : a[k] = x
    BY <1>1 DEF ToSet
  <2>2. k \in 1 .. A + B /\ k <= A
    BY <1>1
  <2>3. c[k] = x
    BY <1>2, <2>1, <2>2
  <2> QED BY <1>1, <2>2, <2>3 DEF ToSet
<1>7. ASSUME NEW x \in ToSet(b) PROVE x \in ToSet(c)
  <2>1. PICK k \in 1 .. B : b[k] = x
    BY <1>1 DEF ToSet
  <2>2. A + k \in 1 .. A + B /\ ~ (A + k <= A) /\ A + k - A = k
    BY <1>1
  <2>3. c[A + k] = x
    BY <1>2, <2>1, <2>2
  <2> QED BY <1>1, <2>2, <2>3 DEF ToSet
<1> QED BY <1>1, <1>4, <1>5, <1>6, <1>7 DEF c

LEMMA AppendFacts ==
    ASSUME NEW X, NEW q \in Seq(X), NEW x \in X
    PROVE  /\ Append(q, x) \in Seq(X) /\ Len(q) \in Nat /\ Len(Append(q, x)) = Len(q) + 1
           /\ Append(q, x)[Len(q) + 1] = x
           /\ \A i \in 1 .. Len(q) : Append(q, x)[i] = q[i]
           /\ ToSet(Append(q, x)) = ToSet(q) \cup {x}
           /\ NoDup(q) /\ x \notin ToSet(q) => NoDup(Append(q, x))
<1> DEFINE a == Append(q, x)
           n == Len(q)
<1>1. /\ n \in Nat /\ a \in Seq(X) /\ Len(a) = n + 1 /\ a[n + 1] = x
      /\ DOMAIN q = 1 .. n /\ DOMAIN a = 1 .. n + 1
  OBVIOUS
<1>2. \A i \in 1 .. n : a[i] = q[i]
  BY <1>1
<1> HIDE DEF a
<1>3. \A i \in 1 .. n + 1 : i \in 1 .. n \/ i = n + 1
  BY <1>1
<1>4. \A i \in 1 .. n : i \in 1 .. n + 1
  BY <1>1
<1>5. n + 1 \in 1 .. n + 1
  BY <1>1
<1>6. ToSet(a) = ToSet(q) \cup {x}
  BY <1>1, <1>2, <1>3, <1>4, <1>5 DEF ToSet
<1>7. ASSUME NoDup(q), x \notin ToSet(q) PROVE NoDup(a)
  <2>1. \A i \in 1 .. n : q[i] # x
    BY <1>1, <1>7 DEF ToSet
  <2> SUFFICES ASSUME NEW i \in 1 .. n + 1, NEW j \in 1 .. n + 1, a[i] = a[j]
               PROVE  i = j
    BY <1>1 DEF NoDup
  <2>2. CASE i \in 1 .. n /\ j \in 1 .. n
    BY <1>2, <1>7, <2>2 DEF NoDup
  <2> QED BY <1>1, <1>2, <1>3, <2>1, <2>2
<1> QED BY <1>1, <1>2, <1>6, <1>7 DEF a

(* What one visited node does to the dependencies that are missing.        *)
LEMMA MissingFacts ==
    ASSUME NEW program, Sound(program), NEW out \in Seq(Ids(program)),
           NEW id \in Ids(program), id \notin ToSet(out), NEW n \in Ids(program)
    PROVE  LET before == Cardinality(Missing(program, n, out))
               after == Cardinality(Missing(program, n, Append(out, id)))
               times == Listed(nodesByID(program, n), id)
           IN  /\ before \in Nat /\ after \in Nat /\ times \in Nat
               /\ after = before - times
               /\ before = 0 <=> ToSet(nodesByID(program, n).deps) \subseteq ToSet(out)
               /\ times > 0 <=> id \in ToSet(nodesByID(program, n).deps)
<1> DEFINE deps == nodesByID(program, n).deps
           M == Missing(program, n, out)
           L == {i \in DOMAIN deps : deps[i] = id}
<1>1. Len(deps) \in Nat /\ DOMAIN deps = 1 .. Len(deps)
  BY NodeFacts, SequenceFacts
<1>2. IsFiniteSet(DOMAIN deps)
  BY <1>1, FS_Interval
<1>3. M \in SUBSET DOMAIN deps /\ L \in SUBSET DOMAIN deps
  BY DEF Missing
<1>4. IsFiniteSet(M) /\ IsFiniteSet(L)
  BY <1>2, <1>3, FS_Subset
<1>5. ToSet(Append(out, id)) = ToSet(out) \cup {id}
  BY AppendFacts
<1>6. Missing(program, n, Append(out, id)) = M \ L /\ M \cap L = L
  BY <1>5 DEF Missing
<1>7. M = {} <=> ToSet(deps) \subseteq ToSet(out)
  BY DEF Missing, ToSet
<1>8. L = {} <=> id \notin ToSet(deps)
  BY DEF ToSet
<1>9. Listed(nodesByID(program, n), id) = Cardinality(L)
  BY DEF Listed
<1> HIDE DEF M, L
<1>10. /\ Cardinality(M) \in Nat /\ Cardinality(L) \in Nat
       /\ IsFiniteSet(M \ L) /\ Cardinality(M \ L) = Cardinality(M) - Cardinality(L)
       /\ Cardinality(M) = 0 <=> M = {}
       /\ Cardinality(L) = 0 <=> L = {}
  BY <1>4, <1>6, FS_CardinalityType, FS_Difference, FS_EmptySet
<1>11. Cardinality(M \ L) \in Nat
  BY <1>10, FS_CardinalityType
<1>12. Cardinality(L) > 0 <=> id \in ToSet(deps)
  BY <1>8, <1>10
<1> QED BY <1>6, <1>7, <1>9, <1>10, <1>11, <1>12 DEF M

(* One turn of the loop.                                                   *)
LEMMA KahnVisit ==
    ASSUME NEW program, Sound(program), NEW path \in Path, NEW k \in Nat, NEW s,
           KahnInv(program, path, k, s), s.ready # <<>>
    PROVE  KahnInv(program, path, k + 1, visit(program, path, s))
<1> DEFINE I == Ids(program)
           out == s.out
           ready == s.ready
           id == Head(ready)
           Deps(n) == ToSet(nodesByID(program, n).deps)
           dependents == {n \in I : Listed(nodesByID(program, n), id) > 0}
           left == [n \in I |-> s.indegree[n] - Listed(nodesByID(program, n), id)]
           R == {n \in dependents : left[n] = 0}
           more == InOrder(program, R)
           new == Tail(ready) \o more
           q == queued(program, path, new)
           o == Append(out, id)
           t == visit(program, path, s)
<1>1. t.indegree = left /\ t.out = o /\ t.ready = q
  BY DEF visit
<1>2. /\ out \in Seq(I) /\ NoDup(out) /\ ready \in Seq(I) /\ NoDup(ready)
      /\ ToSet(out) \cap ToSet(ready) = {} /\ Ordered(program, out) /\ Len(out) = k
      /\ path = "runtime" => Sorted(program, ready) /\ Greedy(program, out)
  BY DEF KahnInv
<1>3. /\ id = ready[1] /\ id \in ToSet(ready) /\ id \in I
      /\ Tail(ready) \in Seq(I) /\ NoDup(Tail(ready))
      /\ ToSet(Tail(ready)) = ToSet(ready) \ {id}
      /\ Len(ready) \in Nat \ {0}
  BY <1>2, TailFacts
<1>4. id \notin ToSet(out)
  BY <1>2, <1>3
<1>5. \A n \in I : /\ s.indegree[n] = Cardinality(Missing(program, n, out))
                   /\ s.indegree[n] = 0 <=> n \in ToSet(out) \cup ToSet(ready)
  BY DEF KahnInv, Counted
<1>6. ASSUME NEW n \in I
      PROVE  /\ left[n] \in Nat
             /\ left[n] = Cardinality(Missing(program, n, o))
             /\ left[n] = 0 <=> Deps(n) \subseteq ToSet(out) \cup {id}
             /\ n \in dependents <=> id \in Deps(n)
             /\ n \in ToSet(out) \cup ToSet(ready) <=> Deps(n) \subseteq ToSet(out)
  <2> DEFINE before == Cardinality(Missing(program, n, out))
             after == Cardinality(Missing(program, n, o))
             times == Listed(nodesByID(program, n), id)
  <2>1. /\ before \in Nat /\ after \in Nat /\ times \in Nat
        /\ after = before - times
        /\ before = 0 <=> Deps(n) \subseteq ToSet(out)
        /\ times > 0 <=> id \in Deps(n)
    BY <1>2, <1>3, <1>4, MissingFacts
  <2>2. left[n] = before - times
    BY <1>5
  <2>3. s.indegree[n] = before
    BY <1>5
  <2>4. n \in dependents <=> times > 0
    OBVIOUS
  <2>5. ToSet(o) = ToSet(out) \cup {id}
    BY <1>2, <1>3, AppendFacts
  <2>6. after = 0 <=> Deps(n) \subseteq ToSet(o)
    <3>1. /\ IsFiniteSet(Missing(program, n, o))
          /\ Missing(program, n, o) = {} <=> Deps(n) \subseteq ToSet(o)
      <4>1. /\ DOMAIN nodesByID(program, n).deps = 1 .. Len(nodesByID(program, n).deps)
            /\ Len(nodesByID(program, n).deps) \in Nat
        BY NodeFacts, SequenceFacts
      <4>2. IsFiniteSet(DOMAIN nodesByID(program, n).deps)
        BY <4>1, FS_Interval
      <4>3. Missing(program, n, o) \in SUBSET DOMAIN nodesByID(program, n).deps
        BY DEF Missing
      <4>4. IsFiniteSet(Missing(program, n, o))
        BY <4>2, <4>3, FS_Subset
      <4>5. Missing(program, n, o) = {} <=> Deps(n) \subseteq ToSet(o)
        <5> HIDE DEF o
        <5> QED BY DEF Missing, ToSet
      <4> QED BY <4>4, <4>5
    <3> QED BY <3>1, FS_EmptySet
  <2>7. s.indegree[n] = 0 <=> n \in ToSet(out) \cup ToSet(ready)
    BY <1>5
  <2> HIDE DEF before, after, times, left, dependents, o, out, ready, id, Deps
  <2>8. left[n] \in Nat /\ left[n] = after
    BY <2>1, <2>2
  <2>9. left[n] = 0 <=> Deps(n) \subseteq ToSet(out) \cup {id}
    BY <2>5, <2>6, <2>8
  <2>10. n \in dependents <=> id \in Deps(n)
    BY <2>1, <2>4
  <2>11. n \in ToSet(out) \cup ToSet(ready) <=> Deps(n) \subseteq ToSet(out)
    BY <2>1, <2>3, <2>7
  <2> QED BY <2>8, <2>9, <2>10, <2>11 DEF after
<1>7. left \in [I -> Nat]
  <2>1. \A n \in I : left[n] \in Nat
    BY <1>6
  <2> QED BY <2>1
<1>8. R \in SUBSET I
  OBVIOUS
<1>9. \A n \in R : id \in Deps(n) /\ n \notin ToSet(out) \cup ToSet(ready)
  <2> HIDE DEF out, ready, id, left, dependents, Deps
  <2> QED BY <1>4, <1>6, <1>8
<1>10. \A n \in I : left[n] = 0 <=> n \in ToSet(out) \cup ToSet(ready) \cup R
  <2> HIDE DEF out, ready, id, left, dependents, Deps
  <2> QED BY <1>6
<1>11. more \in Seq(I) /\ Sorted(program, more) /\ ToSet(more) = R
  BY <1>8, InOrderFacts
<1>12. NoDup(more)
  BY <1>11, SortedNoDup
<1> HIDE DEF out, ready, id, left, dependents, R, more, Deps
<1>13. ToSet(Tail(ready)) \cap ToSet(more) = {}
  BY <1>3, <1>9, <1>11
<1>14. /\ new \in Seq(I) /\ NoDup(new)
       /\ ToSet(new) = ToSet(Tail(ready)) \cup ToSet(more)
  <2> DEFINE tail == Tail(ready)
  <2>1. tail \in Seq(I) /\ NoDup(tail) /\ ToSet(tail) \cap ToSet(more) = {}
    BY <1>3, <1>13
  <2> HIDE DEF tail
  <2>2. /\ tail \o more \in Seq(I) /\ NoDup(tail \o more)
        /\ ToSet(tail \o more) = ToSet(tail) \cup ToSet(more)
    BY <1>11, <1>12, <2>1, ConcatFacts
  <2> QED BY <2>2, Zenon DEF tail
<1> HIDE DEF new
<1>15. /\ q \in Seq(I) /\ NoDup(q) /\ ToSet(q) = ToSet(new)
       /\ path = "runtime" => Sorted(program, q)
  BY <1>14, QueuedFacts
<1>16. ToSet(q) = (ToSet(ready) \ {id}) \cup R
  BY <1>3, <1>11, <1>14, <1>15
<1>17. /\ o \in Seq(I) /\ Len(o) = k + 1 /\ o[k + 1] = id
       /\ \A i \in 1 .. k : o[i] = out[i]
       /\ ToSet(o) = ToSet(out) \cup {id} /\ NoDup(o)
  BY <1>2, <1>3, <1>4, AppendFacts
<1> HIDE DEF q, o, t
<1>18. ToSet(o) \cap ToSet(q) = {}
  BY <1>2, <1>3, <1>4, <1>9, <1>16, <1>17
<1>19. \A n \in I : left[n] = 0 <=> n \in ToSet(o) \cup ToSet(q)
  BY <1>3, <1>10, <1>16, <1>17
<1>20. Counted(program, t)
  BY <1>1, <1>6, <1>19 DEF Counted
<1>21. Ordered(program, o)
  <2> SUFFICES ASSUME NEW j \in 1 .. k + 1, NEW d \in Deps(o[j])
               PROVE  \E i \in 1 .. j - 1 : o[i] = d
    BY <1>17 DEF Ordered, Deps
  <2>1. CASE j \in 1 .. k
    <3>1. PICK i \in 1 .. j - 1 : out[i] = d
      BY <1>2, <1>17, <2>1 DEF Ordered, Deps
    <3>2. i \in 1 .. k
      BY <2>1
    <3> QED BY <1>17, <3>1, <3>2
  <2>2. CASE j = k + 1
    <3>1. Deps(id) \subseteq ToSet(out)
      BY <1>3, <1>6
    <3>2. d \in ToSet(out)
      BY <1>17, <2>2, <3>1
    <3>3. PICK i \in 1 .. k : out[i] = d
      BY <1>2, <3>2 DEF ToSet
    <3>4. i \in 1 .. j - 1
      BY <2>2
    <3> QED BY <1>17, <3>3, <3>4
  <2>3. j \in 1 .. k \/ j = k + 1
    OBVIOUS
  <2> QED BY <2>1, <2>2, <2>3
<1>22. ASSUME path = "runtime" PROVE Greedy(program, o)
  <2> SUFFICES ASSUME NEW i \in 1 .. k + 1, NEW n \in I,
                      n \notin Before(o, i + 1),
                      nodeOrder(program, n) < nodeOrder(program, o[i])
               PROVE  \E d \in Deps(n) : d \notin Before(o, i)
    BY <1>17 DEF Greedy, Deps
  <2>1. CASE i \in 1 .. k
    <3>1. Before(o, i) = Before(out, i)
      <4>1. \A l \in 1 .. i - 1 : l \in 1 .. k
        BY <2>1
      <4> QED BY <1>17, <4>1 DEF Before
    <3>2. Before(o, i + 1) = Before(out, i + 1)
      <4>1. \A l \in 1 .. i + 1 - 1 : l \in 1 .. k
        BY <2>1
      <4> QED BY <1>17, <4>1 DEF Before
    <3>3. o[i] = out[i]
      BY <1>17, <2>1
    <3> QED BY <1>2, <1>22, <2>1, <3>1, <3>2, <3>3, Zenon DEF Greedy, Deps
  <2>2. CASE i = k + 1
    <3>1. \A l \in 1 .. k : l \in 1 .. i + 1 - 1
      BY <2>2
    <3>2. k + 1 \in 1 .. i + 1 - 1
      BY <2>2
    <3>3. n # id /\ n \notin ToSet(out)
      <4>1. n # o[k + 1]
        BY <3>2 DEF Before
      <4>2. \A l \in 1 .. k : n # o[l]
        BY <3>1 DEF Before
      <4> QED BY <1>2, <1>17, <4>1, <4>2 DEF ToSet
    <3>4. n \notin ToSet(ready)
      <4> SUFFICES ASSUME n \in ToSet(ready) PROVE FALSE
        OBVIOUS
      <4>1. PICK j \in 1 .. Len(ready) : ready[j] = n
        BY <1>2 DEF ToSet
      <4>2. 1 \in 1 .. Len(ready) /\ 1 < j
        BY <1>3, <3>3, <4>1
      <4>3. nodeOrder(program, id) < nodeOrder(program, n)
        BY <1>2, <1>3, <1>22, <4>1, <4>2 DEF Sorted
      <4>4. nodeOrder(program, id) \in Nat /\ nodeOrder(program, n) \in Nat
        BY <1>3, NodeFacts
      <4>5. o[i] = id
        BY <1>17, <2>2
      <4> QED BY <4>3, <4>4, <4>5
    <3>5. PICK d \in Deps(n) : d \notin ToSet(out)
      BY <1>6, <3>3, <3>4
    <3>6. Before(o, i) = ToSet(out)
      <4>1. i - 1 = k
        BY <2>2
      <4>2. Before(o, i) = {o[l] : l \in 1 .. k}
        BY <4>1 DEF Before
      <4>3. {o[l] : l \in 1 .. k} = {out[l] : l \in 1 .. k}
        BY <1>17
      <4>4. DOMAIN out = 1 .. k
        BY <1>2
      <4> QED BY <4>2, <4>3, <4>4, Zenon DEF ToSet
    <3> QED BY <3>5, <3>6
  <2>3. i \in 1 .. k \/ i = k + 1
    OBVIOUS
  <2> QED BY <2>1, <2>2, <2>3
<1>23. k + 1 <= k + 1
  OBVIOUS
<1>24. KahnInv(program, path, k + 1, t)
  BY <1>1, <1>7, <1>15, <1>17, <1>18, <1>20, <1>21, <1>22, <1>23 DEF KahnInv
<1> QED BY <1>24 DEF t

(* g holds the states of the loop, up to the n-th.                         *)
IsKahn(program, path, n, g) ==
    g = [k \in 0 .. n |-> IF k = 0 THEN start(program)
                          ELSE IF g[k - 1].ready = <<>> THEN g[k - 1]
                          ELSE visit(program, path, g[k - 1])]

LEMMA KahnExists ==
    ASSUME NEW program, NEW path, NEW m \in Nat
    PROVE  \E g : IsKahn(program, path, m, g)
<1> DEFINE Turn(x) == IF x.ready = <<>> THEN x ELSE visit(program, path, x)
           First == start(program)
<1>1. \A n, g : IsKahn(program, path, n, g)
         <=> g = [k \in 0 .. n |-> IF k = 0 THEN First ELSE Turn(g[k - 1])]
  BY Zenon DEF IsKahn
<1> HIDE DEF Turn, First
<1> DEFINE S == {n \in Nat : \E g : g = [k \in 0 .. n |-> IF k = 0 THEN First
                                                          ELSE Turn(g[k - 1])]}
<1>2. 0 \in S
  <2> DEFINE g == [k \in 0 .. 0 |-> First]
  <2>1. g = [k \in 0 .. 0 |-> IF k = 0 THEN First ELSE Turn(g[k - 1])]
    OBVIOUS
  <2> QED BY <2>1
<1>3. ASSUME NEW n \in Nat, n \in S PROVE n + 1 \in S
  <2>1. PICK g : g = [k \in 0 .. n |-> IF k = 0 THEN First ELSE Turn(g[k - 1])]
    BY <1>3
  <2>2. \A k \in 0 .. n : g[k] = IF k = 0 THEN First ELSE Turn(g[k - 1])
    BY <2>1
  <2> DEFINE h == [k \in 0 .. n + 1 |-> IF k = n + 1 THEN Turn(g[n]) ELSE g[k]]
  <2>3. ASSUME NEW k \in 0 .. n + 1
        PROVE  h[k] = IF k = 0 THEN First ELSE Turn(h[k - 1])
    <3>1. CASE k = n + 1
      <4>1. h[k] = Turn(g[n]) /\ h[n] = g[n] /\ k - 1 = n /\ k # 0
        BY <3>1
      <4> QED BY <4>1
    <3>2. CASE k # n + 1
      <4>1. k \in 0 .. n /\ h[k] = g[k]
        BY <3>2
      <4>2. k # 0 => h[k - 1] = g[k - 1]
        BY <4>1
      <4> QED BY <2>2, <4>1, <4>2
    <3> QED BY <3>1, <3>2
  <2>4. h = [k \in 0 .. n + 1 |-> IF k = 0 THEN First ELSE Turn(h[k - 1])]
    BY <2>3
  <2>5. n + 1 \in Nat
    OBVIOUS
  <2> HIDE DEF h
  <2> QED BY <2>4, <2>5
<1>4. m \in S
  <2> HIDE DEF S
  <2> QED BY <1>2, <1>3, NatInductionOnSets
<1> QED BY <1>1, <1>4

LEMMA KahnResult ==
    ASSUME NEW program, Sound(program), NEW path \in Path
    PROVE  \E s : /\ KahnInv(program, path, Len(program.nodes), s)
                  /\ orderedProgramNodes(program, path) = s.out
<1> DEFINE N == Len(program.nodes)
           f == CHOOSE g : g = [k \in 0 .. N |->
                                  IF k = 0 THEN start(program)
                                  ELSE IF g[k - 1].ready = <<>> THEN g[k - 1]
                                  ELSE visit(program, path, g[k - 1])]
<1>1. N \in Nat
  BY NodeFacts
<1>2. orderedProgramNodes(program, path) = f[N].out
  BY Zenon DEF orderedProgramNodes
<1>3. IsKahn(program, path, N, f)
  <2>1. \E g : g = [k \in 0 .. N |-> IF k = 0 THEN start(program)
                                     ELSE IF g[k - 1].ready = <<>> THEN g[k - 1]
                                     ELSE visit(program, path, g[k - 1])]
    <3>1. \E g : IsKahn(program, path, N, g)
      BY <1>1, KahnExists
    <3> QED BY <3>1, Zenon DEF IsKahn
  <2> QED BY <2>1, Zenon DEF IsKahn
<1> HIDE DEF f, N
<1>4. \A k \in 0 .. N : f[k] = IF k = 0 THEN start(program)
                               ELSE IF f[k - 1].ready = <<>> THEN f[k - 1]
                               ELSE visit(program, path, f[k - 1])
  BY <1>3, Zenon DEF IsKahn
<1> DEFINE S == {k \in Nat : k <= N => KahnInv(program, path, k, f[k])}
<1>5. 0 \in S
  <2>1. 0 \in 0 .. N
    BY <1>1
  <2>2. f[0] = start(program)
    BY <1>4, <2>1
  <2> QED BY <2>2, KahnStart
<1>6. ASSUME NEW k \in Nat, k \in S PROVE k + 1 \in S
  <2> SUFFICES ASSUME k + 1 <= N PROVE KahnInv(program, path, k + 1, f[k + 1])
    OBVIOUS
  <2> DEFINE i == k + 1
  <2>1. i \in 0 .. N /\ i # 0 /\ i - 1 = k /\ k <= N
    BY <1>1
  <2>2. KahnInv(program, path, k, f[k])
    BY <1>6, <2>1
  <2> HIDE DEF i
  <2>3. f[i] = IF f[i - 1].ready = <<>> THEN f[i - 1] ELSE visit(program, path, f[i - 1])
    BY <1>4, <2>1, Zenon
  <2>4. f[i] = IF f[k].ready = <<>> THEN f[k] ELSE visit(program, path, f[k])
    BY <2>1, <2>3, Zenon
  <2>5. CASE f[k].ready # <<>>
    BY <2>2, <2>4, <2>5, KahnVisit DEF i
  <2>6. CASE f[k].ready = <<>>
    <3>1. f[i] = f[k]
      BY <2>4, <2>6
    <3>2. Len(f[k].out) \in Nat /\ Len(f[k].out) <= k
      BY <2>2 DEF KahnInv
    <3>3. Len(f[k].out) <= k + 1
      BY <3>2
    <3>4. KahnInv(program, path, k + 1, f[k])
      BY <2>2, <2>6, <3>3, Zenon DEF KahnInv
    <3> QED BY <3>1, <3>4 DEF i
  <2> QED BY <2>5, <2>6
<1>7. N \in S
  <2> HIDE DEF S
  <2> QED BY <1>1, <1>5, <1>6, NatInductionOnSets
<1>8. KahnInv(program, path, N, f[N])
  BY <1>1, <1>7
<1> QED BY <1>2, <1>8 DEF N

(* A sequence without repetition is as long as it has elements.            *)
LEMMA NoDupLength ==
    ASSUME NEW X, NEW q \in Seq(X), NoDup(q)
    PROVE  IsFiniteSet(ToSet(q)) /\ Cardinality(ToSet(q)) = Len(q)
<1>1. Len(q) \in Nat /\ DOMAIN q = 1 .. Len(q)
  OBVIOUS
<1> DEFINE f == [i \in 1 .. Len(q) |-> q[i]]
<1>2. f \in Surjection(1 .. Len(q), ToSet(q))
  BY <1>1 DEF Surjection, ToSet
<1>3. f \in Injection(1 .. Len(q), ToSet(q))
  BY <1>1 DEF Injection, IsInjective, ToSet, NoDup
<1>4. ExistsBijection(1 .. Len(q), ToSet(q))
  BY <1>2, <1>3 DEF ExistsBijection, Bijection
<1>5. IsFiniteSet(ToSet(q))
  BY <1>1, <1>4, FS_NatBijection
<1> QED BY <1>1, <1>4, <1>5, FS_CountingElements

LEMMA IdsCount ==
    ASSUME NEW program, Sound(program)
    PROVE  IsFiniteSet(Ids(program)) /\ Cardinality(Ids(program)) = Len(program.nodes)
<1> DEFINE N == Len(program.nodes)
           q == [i \in 1 .. N |-> program.nodes[i].id]
<1>1. N \in Nat /\ DOMAIN program.nodes = 1 .. N
  BY NodeFacts
<1>2. \A i \in 1 .. N : program.nodes[i].id \in Ids(program)
  BY NodeFacts
<1>3. q \in Seq(Ids(program)) /\ Len(q) = N
  BY <1>1, <1>2
<1>4. NoDup(q)
  BY <1>1, <1>3 DEF NoDup, Sound
<1>5. ToSet(q) = Ids(program)
  BY <1>1 DEF ToSet, Ids
<1> HIDE DEF q, N
<1> QED BY <1>3, <1>4, <1>5, NoDupLength DEF N

(* The order of the nodes: every visited node after its dependencies; all  *)
(* of them visited exactly when the program has no cycle.                  *)
LEMMA OrderFacts ==
    ASSUME NEW program, Sound(program), NEW path \in Path
    PROVE  LET order == orderedProgramNodes(program, path)
           IN  /\ order \in Seq(Ids(program)) /\ NoDup(order)
               /\ Ordered(program, order)
               /\ path = "runtime" => Greedy(program, order)
               /\ Len(order) = Len(program.nodes) =>
                    ToSet(order) = Ids(program) /\ ~ Cyclic(program)
               /\ Len(order) # Len(program.nodes) => Cyclic(program)
<1>1. PICK s : /\ KahnInv(program, path, Len(program.nodes), s)
               /\ orderedProgramNodes(program, path) = s.out
  BY KahnResult
<1> DEFINE N == Len(program.nodes)
           order == s.out
           I == Ids(program)
<1>2. /\ order \in Seq(I) /\ NoDup(order) /\ Ordered(program, order)
      /\ path = "runtime" => Greedy(program, order)
      /\ Len(order) <= N /\ (Len(order) = N \/ s.ready = <<>>)
      /\ Counted(program, s)
  BY <1>1 DEF KahnInv
<1>3. /\ N \in Nat /\ IsFiniteSet(I) /\ Cardinality(I) = N
      /\ Cardinality(ToSet(order)) = Len(order) /\ Len(order) \in Nat
  BY <1>2, NodeFacts, IdsCount, NoDupLength
<1>4. ToSet(order) \in SUBSET I /\ DOMAIN order = 1 .. Len(order)
  BY <1>2 DEF ToSet
<1> HIDE DEF order, N
<1>5. ASSUME Len(order) = N PROVE ToSet(order) = I
  BY <1>3, <1>4, <1>5, FS_Subset
<1>6. ASSUME Len(order) = N PROVE ~ Cyclic(program)
  <2> SUFFICES ASSUME NEW S \in SUBSET I, S # {},
                      \A n \in S : \E d \in S : Listed(nodesByID(program, n), d) > 0
               PROVE  FALSE
    BY DEF Cyclic
  <2> DEFINE T == {j \in 1 .. Len(order) : order[j] \in S}
  <2>1. T \in SUBSET Nat /\ T # {}
    BY <1>4, <1>5, <1>6 DEF ToSet
  <2>2. PICK j \in T : \A l \in T : j <= l
    BY <2>1, LeastElement
  <2>3. PICK d \in S : Listed(nodesByID(program, order[j]), d) > 0
    BY <2>2
  <2>4. order[j] \in I
    BY <2>2
  <2>5. d \in ToSet(nodesByID(program, order[j]).deps)
    <3>1. <<>> \in Seq(I) /\ d \notin ToSet(<<>>)
      BY DEF ToSet
    <3> QED BY <2>3, <2>4, <3>1, MissingFacts
  <2>6. PICK l \in 1 .. j - 1 : order[l] = d
    BY <1>2, <2>2, <2>5 DEF Ordered
  <2>7. l \in T /\ l < j /\ l \in Nat /\ j \in Nat
    BY <1>3, <2>2, <2>6
  <2> QED BY <2>2, <2>7
<1>7. ASSUME Len(order) # N PROVE Cyclic(program)
  <2> DEFINE S == I \ ToSet(order)
  <2>1. S # {} /\ S \subseteq I
    <3>1. ToSet(order) # I
      BY <1>3, <1>7
    <3> QED BY <1>4, <3>1
  <2>2. ToSet(s.ready) = {}
    BY <1>2, <1>7 DEF ToSet
  <2>3. ASSUME NEW n \in S PROVE \E d \in S : Listed(nodesByID(program, n), d) > 0
    <3>1. n \in I /\ n \notin ToSet(order) \cup ToSet(s.ready)
      BY <2>2
    <3>2. Cardinality(Missing(program, n, order)) # 0
      BY <1>2, <3>1 DEF Counted, order
    <3>3. ~ (ToSet(nodesByID(program, n).deps) \subseteq ToSet(order))
      BY <1>2, <2>3, <3>1, <3>2, MissingFacts
    <3>4. PICK d \in ToSet(nodesByID(program, n).deps) : d \notin ToSet(order)
      BY <3>3
    <3>5. d \in I
      BY <3>1, <3>4 DEF Sound
    <3>6. Listed(nodesByID(program, n), d) > 0
      BY <1>2, <3>1, <3>4, <3>5, MissingFacts
    <3> QED BY <3>4, <3>5, <3>6
  <2> HIDE DEF S
  <2> QED BY <2>1, <2>3 DEF Cyclic
<1> QED BY <1>1, <1>2, <1>5, <1>6, <1>7 DEF order, N

----------------------------------------------------------------------------
(* The steps of a node.                                                    *)

StepFields == {"node", "target", "total", "version", "view", "verify", "aggregateVerify",
               "scope", "onFail", "binds", "program", "status", "attempt"}

(* What a new step says of its node and its target.                        *)
StepIs(s, node, target, total, viewID) ==
    /\ DOMAIN s = StepFields
    /\ s.node = node.id /\ s.target = target /\ s.view = viewID
    /\ s.verify = compileProgramNodeVerifySpec(node, total)
    /\ s.aggregateVerify = applyProgramVerifyMetadata(node, total)
    /\ s.status = "pending"

LEMMA StepForm ==
    ASSUME NEW node, NEW target, NEW total
    PROVE  StepIs(stepFromProgramNode(node, target, total), node, target, total, NoView)
BY DEF stepFromProgramNode, StepFields, StepIs

LEMMA PinForm ==
    ASSUME NEW s, DOMAIN s = StepFields, NEW view
    PROVE  LET t == pinStepToCapabilityView(s, view)
           IN  /\ DOMAIN t = StepFields /\ t.view = view.id
               /\ t.node = s.node /\ t.target = s.target
               /\ t.verify = s.verify /\ t.aggregateVerify = s.aggregateVerify
               /\ t.status = s.status
<1> DEFINE found == findFrozenCapabilityEntry(view, s.version)
           v == IF found # {} THEN (CHOOSE e \in found : TRUE).version ELSE s.version
<1>1. pinStepToCapabilityView(s, view) = [s EXCEPT !.view = view.id, !.version = v]
  BY DEF pinStepToCapabilityView, StepFields
<1> HIDE DEF v
<1> QED BY <1>1 DEF StepFields

LEMMA AttachedForm ==
    ASSUME NEW node, NEW target, NEW total, NEW view
    PROVE  StepIs(compileAttachedProgramNodeStep(node, view, target, total),
                  node, target, total, view.id)
<1> DEFINE a == stepFromProgramNode(node, target, total)
           b == [a EXCEPT !.program = TRUE]
<1>1. /\ DOMAIN a = StepFields /\ a.node = node.id /\ a.target = target
      /\ a.verify = compileProgramNodeVerifySpec(node, total)
      /\ a.aggregateVerify = applyProgramVerifyMetadata(node, total)
      /\ a.status = "pending"
  BY DEF stepFromProgramNode, StepFields
<1> HIDE DEF a
<1>2. /\ DOMAIN b = StepFields /\ b.node = a.node /\ b.target = a.target
      /\ b.verify = a.verify /\ b.aggregateVerify = a.aggregateVerify /\ b.status = a.status
  BY <1>1 DEF StepFields
<1> HIDE DEF b
<1>3. compileAttachedProgramNodeStep(node, view, target, total)
        = pinStepToCapabilityView(b, view)
  BY DEF compileAttachedProgramNodeStep, a, b
<1> DEFINE c == pinStepToCapabilityView(b, view)
<1>4. /\ DOMAIN c = StepFields /\ c.view = view.id
      /\ c.node = b.node /\ c.target = b.target
      /\ c.verify = b.verify /\ c.aggregateVerify = b.aggregateVerify
      /\ c.status = b.status
  BY <1>2, PinForm, Zenon
<1> HIDE DEF c
<1>5. StepIs(c, node, target, total, view.id)
  BY <1>1, <1>2, <1>4, Zenon DEF StepIs
<1> QED BY <1>3, <1>5, Zenon DEF c

(* The steps a node is compiled to on a path.                              *)
NodeSteps(node, path, view) ==
    IF path = "runtime" THEN expandProgramNodeSteps(node)
    ELSE compileAttachedProgramNodeSteps(node, view)

(* The targets of a node, NoTarget for a node that has none.               *)
TargetSet(node, path) ==
    IF ToSet(targetsForProgramNode(node, path)) = {} THEN {NoTarget}
    ELSE ToSet(targetsForProgramNode(node, path))

(* What a step says of the node it comes from.                             *)
StepOf(s, node, path) ==
    /\ DOMAIN s = StepFields
    /\ s.node = node.id /\ s.target \in TargetSet(node, path)
    /\ s.verify = compileProgramNodeVerifySpec(node, Len(targetsForProgramNode(node, path)))
    /\ s.aggregateVerify
         = applyProgramVerifyMetadata(node, Len(targetsForProgramNode(node, path)))

LEMMA SequenceIntro ==
    ASSUME NEW n \in Nat, NEW s, s = [i \in 1 .. n |-> s[i]]
    PROVE  IsSequence(s) /\ Len(s) = n
<1>1. DOMAIN s = 1 .. n
  OBVIOUS
<1>2. \A i \in 1 .. n : s[i] \in ToSet(s)
  BY <1>1 DEF ToSet
<1> DEFINE X == ToSet(s)
<1> HIDE DEF X
<1>3. s \in Seq(X) /\ Len(s) = n
  BY <1>2 DEF X
<1> QED BY <1>3 DEF X, IsSequence

LEMMA TargetsFacts ==
    ASSUME NEW node, IsSequence(node.targets), NEW path \in Path
    PROVE  LET T == targetsForProgramNode(node, path)
           IN  /\ Len(T) \in Nat /\ DOMAIN T = 1 .. Len(T)
               /\ T = <<>> <=> Len(T) = 0
               /\ T = <<>> => TargetSet(node, path) = {NoTarget}
               /\ T # <<>> => TargetSet(node, path) = {T[j] : j \in 1 .. Len(T)}
<1> DEFINE T == targetsForProgramNode(node, path)
<1>1. IsSequence(<<>>)
  BY DEF IsSequence
<1>2. IsSequence(T)
  BY <1>1, ResolvedAssumption DEF targetsForProgramNode
<1>3. Len(T) \in Nat /\ DOMAIN T = 1 .. Len(T) /\ T \in Seq(ToSet(T))
  BY <1>2, SequenceFacts DEF IsSequence
<1> HIDE DEF T
<1>4. T = <<>> <=> Len(T) = 0
  <2> DEFINE X == ToSet(T)
  <2> HIDE DEF X
  <2>1. T \in Seq(X)
    BY <1>3 DEF X
  <2> QED BY <2>1
<1>5. ToSet(T) = {T[j] : j \in 1 .. Len(T)}
  BY <1>3, Zenon DEF ToSet
<1>6. T = <<>> => ToSet(T) = {}
  BY <1>3, <1>4, <1>5
<1>7. T # <<>> => ToSet(T) # {}
  <2> SUFFICES ASSUME T # <<>> PROVE ToSet(T) # {}
    OBVIOUS
  <2>1. 1 \in 1 .. Len(T)
    BY <1>3, <1>4
  <2> QED BY <1>5, <2>1
<1>8. TargetSet(node, path) = IF ToSet(T) = {} THEN {NoTarget} ELSE ToSet(T)
  BY DEF TargetSet, T
<1> QED BY <1>3, <1>4, <1>5, <1>6, <1>7, <1>8 DEF T

LEMMA NodeStepsFacts ==
    ASSUME NEW node, IsSequence(node.targets), NEW path \in Path, NEW view
    PROVE  LET B == NodeSteps(node, path, view)
               T == targetsForProgramNode(node, path)
           IN  /\ IsSequence(B) /\ Len(B) \in Nat \ {0}
               /\ Len(T) > 1 => Len(B) > 1
               /\ \A j \in 1 .. Len(B) :
                     /\ StepOf(B[j], node, path) /\ B[j].status = "pending"
                     /\ B[j].view = IF path = "runtime" THEN NoView ELSE view.id
               /\ \A x \in TargetSet(node, path) : \E j \in 1 .. Len(B) : B[j].target = x
<1> DEFINE T == targetsForProgramNode(node, path)
           B == NodeSteps(node, path, view)
           n == Len(T)
           Made(target, total) ==
               IF path = "runtime" THEN stepFromProgramNode(node, target, total)
               ELSE compileAttachedProgramNodeStep(node, view, target, total)
           viewID == IF path = "runtime" THEN NoView ELSE view.id
<1>1. /\ n \in Nat /\ DOMAIN T = 1 .. n /\ (T = <<>> <=> n = 0)
      /\ T = <<>> => TargetSet(node, path) = {NoTarget}
      /\ T # <<>> => TargetSet(node, path) = {T[j] : j \in 1 .. n}
  BY TargetsFacts
<1>2. ASSUME NEW target, NEW total
      PROVE  StepIs(Made(target, total), node, target, total, viewID)
  <2>1. CASE path = "runtime"
    BY <2>1, StepForm, Zenon
  <2>2. CASE path # "runtime"
    BY <2>2, AttachedForm, Zenon
  <2> QED BY <2>1, <2>2
<1>3. B = IF T = <<>> THEN <<Made(NoTarget, 0)>> ELSE [i \in DOMAIN T |-> Made(T[i], Len(T))]
  <2>1. CASE path = "runtime"
    BY <2>1, Zenon DEF NodeSteps, expandProgramNodeSteps
  <2>2. CASE path = "attached"
    <3>1. path # "runtime"
      BY <2>2
    <3> QED BY <2>2, <3>1, Zenon DEF NodeSteps, compileAttachedProgramNodeSteps
  <2> QED BY <2>1, <2>2 DEF Path
<1> HIDE DEF Made, B, T
<1>4. ASSUME NEW target \in TargetSet(node, path), NEW s, s = Made(target, n)
      PROVE  /\ StepOf(s, node, path) /\ s.status = "pending" /\ s.target = target
             /\ s.view = IF path = "runtime" THEN NoView ELSE view.id
  <2>1. StepIs(s, node, target, n, viewID)
    BY <1>2, <1>4, Zenon
  <2> QED BY <2>1, Zenon DEF StepIs, StepOf, T
<1>5. CASE T = <<>>
  <2>1. B = <<Made(NoTarget, 0)>> /\ n = 0
    BY <1>1, <1>3, <1>5
  <2>2. Len(B) = 1 /\ B[1] = Made(NoTarget, n)
    BY <2>1
  <2>3. B = [i \in 1 .. 1 |-> B[i]]
    BY <2>1
  <2>4. IsSequence(B)
    BY <2>3, SequenceIntro
  <2>5. TargetSet(node, path) = {NoTarget}
    BY <1>1, <1>5
  <2>6. /\ StepOf(B[1], node, path) /\ B[1].status = "pending" /\ B[1].target = NoTarget
        /\ B[1].view = IF path = "runtime" THEN NoView ELSE view.id
    BY <1>4, <2>2, <2>5
  <2>7. ~ (n > 1)
    BY <2>1
  <2> HIDE DEF n
  <2> QED BY <2>2, <2>4, <2>5, <2>6, <2>7 DEF B, T, n
<1>6. CASE T # <<>>
  <2>1. B = [i \in 1 .. n |-> Made(T[i], n)] /\ n # 0
    BY <1>1, <1>3, <1>6, Zenon
  <2>2. \A j \in 1 .. n : B[j] = Made(T[j], n)
    BY <2>1, Zenon
  <2>3. IsSequence(B) /\ Len(B) = n
    <3>1. B = [i \in 1 .. n |-> B[i]]
      BY <2>1, Zenon
    <3> QED BY <1>1, <3>1, SequenceIntro
  <2>4. TargetSet(node, path) = {T[j] : j \in 1 .. n}
    BY <1>1, <1>6
  <2>5. ASSUME NEW j \in 1 .. n
        PROVE  /\ StepOf(B[j], node, path) /\ B[j].status = "pending" /\ B[j].target = T[j]
               /\ B[j].view = IF path = "runtime" THEN NoView ELSE view.id
    BY <1>4, <2>2, <2>4
  <2>6. \A x \in TargetSet(node, path) : \E j \in 1 .. n : B[j].target = x
    BY <2>4, <2>5
  <2> HIDE DEF n
  <2> QED BY <1>1, <2>1, <2>3, <2>5, <2>6 DEF B, T, n
<1> QED BY <1>5, <1>6

----------------------------------------------------------------------------
(* The steps of a program.                                                 *)

(* The nodes of the program in the order of their steps, and the place in  *)
(* it of the node that a step comes from.                                  *)
Arranged(program, path, steps, order, blk) ==
    /\ order \in Seq(Ids(program)) /\ NoDup(order) /\ ToSet(order) = Ids(program)
    /\ Ordered(program, order)
    /\ path = "runtime" => Greedy(program, order)
    /\ blk \in [DOMAIN steps -> 1 .. Len(order)]
    /\ \A k, l \in DOMAIN steps : k < l => blk[k] <= blk[l]
    /\ \A k \in DOMAIN steps : StepOf(steps[k], nodesByID(program, order[blk[k]]), path)
    /\ \A i \in 1 .. Len(order) :
          /\ \A x \in TargetSet(nodesByID(program, order[i]), path) :
                \E k \in DOMAIN steps : blk[k] = i /\ steps[k].target = x
          /\ Len(targetsForProgramNode(nodesByID(program, order[i]), path)) > 1 =>
                \E k, l \in DOMAIN steps : k # l /\ blk[k] = i /\ blk[l] = i

CompiledFrom(program, path, steps) ==
    /\ path \in Path /\ Sound(program) /\ ~ Cyclic(program) /\ IsSequence(steps)
    /\ \E order, blk : Arranged(program, path, steps, order, blk)

(* What holds of the elements of every block holds of the whole.           *)
LEMMA FlattenBlocks ==
    ASSUME NEW B, IsSequence(B), \A i \in DOMAIN B : IsSequence(B[i])
    PROVE  LET f == FlattenSeq(B)
           IN  /\ IsSequence(f)
               /\ \E blk, pos : Blocks(B, Len(B), f, blk, pos)
<1> DEFINE n == Len(B)
           X == UNION {ToSet(B[i]) : i \in 1 .. n}
           f == FlattenSeq(B)
<1>1. n \in Nat /\ DOMAIN B = 1 .. n
  BY SequenceFacts
<1>2. \A i \in 1 .. n : B[i] \in Seq(X)
  <2> TAKE i \in 1 .. n
  <2>1. IsSequence(B[i]) /\ ToSet(B[i]) \subseteq X
    BY <1>1
  <2> HIDE DEF X
  <2> QED BY <2>1, SequenceFacts
<1> HIDE DEF X
<1>3. \A x \in ToSet(B) : x \in Seq(X)
  BY <1>1, <1>2, SequenceFacts
<1>4. B \in Seq(Seq(X))
  <2>1. ToSet(B) \subseteq Seq(X)
    BY <1>3
  <2> QED BY <2>1, SequenceFacts
<1>5. f \in Seq(X) /\ \E blk, pos : Blocks(B, n, f, blk, pos)
  BY <1>4, FlattenFacts
<1> HIDE DEF f
<1>6. f = [i \in 1 .. Len(f) |-> f[i]] /\ Len(f) \in Nat
  BY <1>5
<1>7. IsSequence(f)
  BY <1>6, SequenceIntro
<1> QED BY <1>5, <1>7 DEF f

LEMMA CompileFacts ==
    ASSUME NEW program, IsProgram(program), NEW path \in Path, NEW view
    PROVE  LET made == compile(program, path, view)
           IN  /\ made.err = "cycle" => Cyclic(program)
               /\ made.err = "none" =>
                    /\ CompiledFrom(program, path, made.steps)
                    /\ \A k \in DOMAIN made.steps :
                          /\ made.steps[k].status = "pending"
                          /\ made.steps[k].view = IF path = "runtime" THEN NoView ELSE view.id
<1> DEFINE order == IF malformed(program, path) THEN <<>> ELSE orderedProgramNodes(program, path)
           nodes == [i \in DOMAIN order |-> nodesByID(program, order[i])]
           unsupported == \E i \in DOMAIN nodes : \/ ~ targetingSupported(nodes[i], path)
                                                  \/ \E j \in DOMAIN nodes[i].binds :
                                                         ~ bindingSupported(nodes[i].binds[j])
           cycle == Len(order) # Len(program.nodes)
           B == [i \in DOMAIN nodes |->
                                IF path = "runtime" THEN expandProgramNodeSteps(nodes[i])
                                ELSE compileAttachedProgramNodeSteps(nodes[i], view)]
           steps == FlattenSeq(B)
           err == IF malformed(program, path) THEN "malformed"
                ELSE IF path = "attached" /\ cycle THEN "cycle"
                ELSE IF path = "attached" /\ program.nodes = <<>> THEN "malformed"
                ELSE IF unsupported THEN "unsupported"
                ELSE IF cycle THEN "cycle"
                ELSE "none"
           made == compile(program, path, view)
           viewID == IF path = "runtime" THEN NoView ELSE view.id
<1>1. made = [err |-> err, steps |-> steps]
  BY Zenon DEF compile
<1>2. err \in {"cycle", "none"} => ~ malformed(program, path)
  <2> HIDE DEF cycle, unsupported
  <2> QED OBVIOUS
<1>3. err = "cycle" => cycle
  <2> HIDE DEF cycle, unsupported
  <2> QED OBVIOUS
<1>4. err = "none" => ~ cycle
  <2> HIDE DEF cycle, unsupported
  <2> QED BY DEF Path
<1> HIDE DEF err
<1>5. made.err = err /\ made.steps = steps
  BY <1>1
<1>6. ASSUME ~ malformed(program, path)
      PROVE  /\ Sound(program) /\ order = orderedProgramNodes(program, path)
             /\ order \in Seq(Ids(program)) /\ NoDup(order) /\ Ordered(program, order)
             /\ path = "runtime" => Greedy(program, order)
             /\ ~ cycle => ToSet(order) = Ids(program) /\ ~ Cyclic(program)
             /\ cycle => Cyclic(program)
  <2>1. Sound(program) /\ order = orderedProgramNodes(program, path)
    BY <1>6, AcceptedIsSound
  <2> HIDE DEF order
  <2> QED BY <2>1, OrderFacts
<1>7. ASSUME err = "none"
      PROVE  /\ CompiledFrom(program, path, steps)
             /\ \A k \in DOMAIN steps : steps[k].status = "pending" /\ steps[k].view = viewID
  <2>1. /\ Sound(program) /\ ~ Cyclic(program)
        /\ order \in Seq(Ids(program)) /\ NoDup(order) /\ Ordered(program, order)
        /\ path = "runtime" => Greedy(program, order)
        /\ ToSet(order) = Ids(program)
    BY <1>2, <1>4, <1>6, <1>7
  <2> HIDE DEF order, steps
  <2> DEFINE n == Len(order)
             node(i) == nodesByID(program, order[i])
  <2>2. n \in Nat /\ DOMAIN order = 1 .. n /\ \A i \in 1 .. n : order[i] \in Ids(program)
    BY <2>1
  <2>3. DOMAIN B = 1 .. n /\ \A i \in 1 .. n : B[i] = NodeSteps(node(i), path, view)
    BY <2>2, Zenon DEF NodeSteps
  <2>4. \A i \in 1 .. n : IsSequence(node(i).targets)
    BY <2>1, <2>2, NodeFacts
  <2>5. B = [i \in 1 .. n |-> B[i]]
    BY <2>2
  <2>6. IsSequence(B) /\ Len(B) = n
    <3> HIDE DEF B
    <3> QED BY <2>2, <2>5, SequenceIntro
  <2> HIDE DEF B, node
  <2>7. ASSUME NEW i \in 1 .. n
        PROVE  /\ IsSequence(B[i]) /\ Len(B[i]) \in Nat \ {0}
               /\ Len(targetsForProgramNode(node(i), path)) > 1 => Len(B[i]) > 1
               /\ \A j \in 1 .. Len(B[i]) :
                     /\ StepOf(B[i][j], node(i), path) /\ B[i][j].status = "pending"
                     /\ B[i][j].view = viewID
               /\ \A x \in TargetSet(node(i), path) : \E j \in 1 .. Len(B[i]) : B[i][j].target = x
    <3>1. IsSequence(node(i).targets) /\ B[i] = NodeSteps(node(i), path, view)
      BY <2>3, <2>4
    <3> QED BY <3>1, NodeStepsFacts
  <2>8. IsSequence(steps) /\ \E blk, pos : Blocks(B, n, steps, blk, pos)
    BY <2>3, <2>6, <2>7, FlattenBlocks DEF steps
  <2>9. PICK blk, pos : Blocks(B, n, steps, blk, pos)
    BY <2>8
  <2>10. Len(steps) \in Nat /\ DOMAIN steps = 1 .. Len(steps)
    BY <2>8, SequenceFacts
  <2> HIDE DEF n, viewID
  <2>11. /\ blk \in [1 .. Len(steps) -> 1 .. n] /\ pos \in [1 .. Len(steps) -> Nat]
         /\ \A k \in 1 .. Len(steps) : /\ pos[k] \in 1 .. Len(B[blk[k]])
                                       /\ steps[k] = B[blk[k]][pos[k]]
         /\ \A k, l \in 1 .. Len(steps) : k < l =>
               blk[k] < blk[l] \/ (blk[k] = blk[l] /\ pos[k] < pos[l])
         /\ \A i \in 1 .. n : \A j \in 1 .. Len(B[i]) :
               \E k \in 1 .. Len(steps) : blk[k] = i /\ pos[k] = j
    BY <2>9 DEF Blocks
  <2>12. ASSUME NEW k \in 1 .. Len(steps)
         PROVE  /\ StepOf(steps[k], node(blk[k]), path)
                /\ steps[k].status = "pending" /\ steps[k].view = viewID
    <3>1. /\ blk[k] \in 1 .. n /\ pos[k] \in 1 .. Len(B[blk[k]])
          /\ steps[k] = B[blk[k]][pos[k]]
      BY <2>11
    <3>2. /\ StepOf(B[blk[k]][pos[k]], node(blk[k]), path)
          /\ B[blk[k]][pos[k]].status = "pending" /\ B[blk[k]][pos[k]].view = viewID
      BY <2>7, <3>1, Zenon
    <3> QED BY <3>1, <3>2, Zenon
  <2>13. ASSUME NEW k \in 1 .. Len(steps), NEW l \in 1 .. Len(steps), k < l
         PROVE  blk[k] <= blk[l]
    <3>1. blk[k] \in 1 .. n /\ blk[l] \in 1 .. n
      BY <2>11
    <3>2. blk[k] < blk[l] \/ blk[k] = blk[l]
      BY <2>11, <2>13
    <3> QED BY <2>2, <3>1, <3>2 DEF n
  <2>14. ASSUME NEW i \in 1 .. n, NEW x \in TargetSet(node(i), path)
         PROVE  \E k \in 1 .. Len(steps) : blk[k] = i /\ steps[k].target = x
    <3>1. PICK j \in 1 .. Len(B[i]) : B[i][j].target = x
      BY <2>7
    <3>2. PICK k \in 1 .. Len(steps) : blk[k] = i /\ pos[k] = j
      BY <2>11
    <3> QED BY <2>11, <3>1, <3>2
  <2>15. ASSUME NEW i \in 1 .. n, Len(targetsForProgramNode(node(i), path)) > 1
         PROVE  \E k, l \in 1 .. Len(steps) : k # l /\ blk[k] = i /\ blk[l] = i
    <3>1. Len(B[i]) > 1 /\ Len(B[i]) \in Nat
      BY <2>7, <2>15
    <3>2. 1 \in 1 .. Len(B[i]) /\ 2 \in 1 .. Len(B[i])
      BY <3>1
    <3>3. PICK k \in 1 .. Len(steps) : blk[k] = i /\ pos[k] = 1
      BY <2>11, <3>2
    <3>4. PICK l \in 1 .. Len(steps) : blk[l] = i /\ pos[l] = 2
      BY <2>11, <3>2
    <3> QED BY <3>3, <3>4
  <2>16. Arranged(program, path, steps, order, blk)
    <3>1. blk \in [DOMAIN steps -> 1 .. Len(order)]
      BY <2>10, <2>11 DEF n
    <3>2. \A k, l \in DOMAIN steps : k < l => blk[k] <= blk[l]
      BY <2>10, <2>13
    <3>3. \A k \in DOMAIN steps : StepOf(steps[k], nodesByID(program, order[blk[k]]), path)
      BY <2>10, <2>12, Zenon DEF node
    <3>4. \A i \in 1 .. Len(order) :
             \A x \in TargetSet(nodesByID(program, order[i]), path) :
                \E k \in DOMAIN steps : blk[k] = i /\ steps[k].target = x
      <4> SUFFICES ASSUME NEW i \in 1 .. Len(order),
                          NEW x \in TargetSet(nodesByID(program, order[i]), path)
                   PROVE  \E k \in DOMAIN steps : blk[k] = i /\ steps[k].target = x
        OBVIOUS
      <4>1. i \in 1 .. n /\ x \in TargetSet(node(i), path)
        BY DEF n, node
      <4> QED BY <2>10, <2>14, <4>1
    <3>5. \A i \in 1 .. Len(order) :
             Len(targetsForProgramNode(nodesByID(program, order[i]), path)) > 1 =>
                \E k, l \in DOMAIN steps : k # l /\ blk[k] = i /\ blk[l] = i
      BY <2>10, <2>15 DEF node, n
    <3> QED BY <2>1, <3>1, <3>2, <3>3, <3>4, <3>5, Zenon DEF Arranged
  <2> QED BY <2>1, <2>8, <2>10, <2>12, <2>16 DEF CompiledFrom
<1>8. err = "cycle" => Cyclic(program)
  BY <1>2, <1>3, <1>6
<1> HIDE DEF steps, made, viewID
<1>9. /\ made.err = "cycle" => Cyclic(program)
      /\ made.err = "none" =>
            /\ CompiledFrom(program, path, made.steps)
            /\ \A k \in DOMAIN made.steps :
                  made.steps[k].status = "pending" /\ made.steps[k].view = viewID
  BY <1>5, <1>7, <1>8
<1> QED BY <1>9 DEF made, viewID

(* The run of a step changes its status and its count of attempts only.    *)
LEMMA CompiledKept ==
    ASSUME NEW program, NEW path, NEW steps, NEW other,
           CompiledFrom(program, path, steps), IsSequence(other), DOMAIN other = DOMAIN steps,
           \A k \in DOMAIN steps :
              /\ DOMAIN steps[k] = StepFields => DOMAIN other[k] = StepFields
              /\ other[k].node = steps[k].node /\ other[k].target = steps[k].target
              /\ other[k].verify = steps[k].verify
              /\ other[k].aggregateVerify = steps[k].aggregateVerify
    PROVE  CompiledFrom(program, path, other)
<1>1. PICK order, blk : Arranged(program, path, steps, order, blk)
  BY Zenon DEF CompiledFrom
<1>2. \A k \in DOMAIN steps : StepOf(other[k], nodesByID(program, order[blk[k]]), path)
  <2> TAKE k \in DOMAIN steps
  <2>1. StepOf(steps[k], nodesByID(program, order[blk[k]]), path)
    BY <1>1, Zenon DEF Arranged
  <2> QED BY <2>1, Zenon DEF StepOf
<1>3. \A k \in DOMAIN steps : other[k].target = steps[k].target
  OBVIOUS
<1>4. Arranged(program, path, other, order, blk)
  <2>1. /\ blk \in [DOMAIN steps -> 1 .. Len(order)]
        /\ \A k, l \in DOMAIN steps : k < l => blk[k] <= blk[l]
        /\ \A i \in 1 .. Len(order) :
              \A x \in TargetSet(nodesByID(program, order[i]), path) :
                  \E k \in DOMAIN steps : blk[k] = i /\ steps[k].target = x
        /\ \A i \in 1 .. Len(order) :
              Len(targetsForProgramNode(nodesByID(program, order[i]), path)) > 1 =>
                  \E k, l \in DOMAIN steps : k # l /\ blk[k] = i /\ blk[l] = i
    BY <1>1, Zenon DEF Arranged
  <2>2. /\ blk \in [DOMAIN other -> 1 .. Len(order)]
        /\ \A k, l \in DOMAIN other : k < l => blk[k] <= blk[l]
        /\ \A i \in 1 .. Len(order) :
              Len(targetsForProgramNode(nodesByID(program, order[i]), path)) > 1 =>
                  \E k, l \in DOMAIN other : k # l /\ blk[k] = i /\ blk[l] = i
    BY <2>1
  <2>3. \A i \in 1 .. Len(order) :
              \A x \in TargetSet(nodesByID(program, order[i]), path) :
                  \E k \in DOMAIN other : blk[k] = i /\ other[k].target = x
    BY <1>3, <2>1
  <2>4. \A k \in DOMAIN other : StepOf(other[k], nodesByID(program, order[blk[k]]), path)
    BY <1>2, Zenon
  <2>5. /\ order \in Seq(Ids(program)) /\ NoDup(order) /\ ToSet(order) = Ids(program)
        /\ Ordered(program, order) /\ (path = "runtime" => Greedy(program, order))
    BY <1>1, Zenon DEF Arranged
  <2> QED BY <2>2, <2>3, <2>4, <2>5, Zenon DEF Arranged
<1> QED BY <1>4, Zenon DEF CompiledFrom

(* Where the steps of a node are.                                          *)
LEMMA StepsFacts ==
    ASSUME NEW program, NEW path \in Path, NEW steps, NEW order, NEW blk,
           Sound(program), IsSequence(steps), Arranged(program, path, steps, order, blk)
    PROVE  /\ Len(order) \in Nat /\ DOMAIN order = 1 .. Len(order)
           /\ Len(steps) \in Nat /\ DOMAIN steps = 1 .. Len(steps)
           /\ \A i \in 1 .. Len(order) : order[i] \in Ids(program)
           /\ \A k \in DOMAIN steps : blk[k] \in 1 .. Len(order) /\ steps[k].node = order[blk[k]]
           /\ \A n \in Ids(program) : \E i \in 1 .. Len(order) : order[i] = n
           /\ \A i \in 1 .. Len(order) : \A k \in StepsOf(steps, order[i]) :
                 k \in DOMAIN steps /\ blk[k] = i
           /\ \A i \in 1 .. Len(order) : \E k \in StepsOf(steps, order[i]) : TRUE
<1>1. /\ order \in Seq(Ids(program)) /\ NoDup(order) /\ ToSet(order) = Ids(program)
      /\ blk \in [DOMAIN steps -> 1 .. Len(order)]
      /\ \A k \in DOMAIN steps : StepOf(steps[k], nodesByID(program, order[blk[k]]), path)
      /\ \A i \in 1 .. Len(order) :
            \A x \in TargetSet(nodesByID(program, order[i]), path) :
                \E k \in DOMAIN steps : blk[k] = i /\ steps[k].target = x
  BY Zenon DEF Arranged
<1>2. Len(order) \in Nat /\ DOMAIN order = 1 .. Len(order)
  BY <1>1
<1>3. \A i \in 1 .. Len(order) : order[i] \in Ids(program)
  BY <1>1
<1>4. Len(steps) \in Nat /\ DOMAIN steps = 1 .. Len(steps)
  BY SequenceFacts
<1>5. ASSUME NEW k \in DOMAIN steps
      PROVE  blk[k] \in 1 .. Len(order) /\ steps[k].node = order[blk[k]]
  <2>1. blk[k] \in 1 .. Len(order)
    BY <1>1
  <2>2. steps[k].node = nodesByID(program, order[blk[k]]).id
    BY <1>1, Zenon DEF StepOf
  <2> QED BY <1>3, <2>1, <2>2, NodeFacts
<1>6. \A n \in Ids(program) : \E i \in 1 .. Len(order) : order[i] = n
  BY <1>1, <1>2 DEF ToSet
<1>7. ASSUME NEW i \in 1 .. Len(order), NEW k \in StepsOf(steps, order[i])
      PROVE  k \in DOMAIN steps /\ blk[k] = i
  <2>1. k \in DOMAIN steps /\ steps[k].node = order[i]
    BY DEF StepsOf
  <2> QED BY <1>1, <1>5, <2>1 DEF NoDup
<1>8. ASSUME NEW i \in 1 .. Len(order) PROVE \E k \in StepsOf(steps, order[i]) : TRUE
  <2>1. IsSequence(nodesByID(program, order[i]).targets)
    BY <1>3, NodeFacts
  <2> DEFINE node == nodesByID(program, order[i])
             T == targetsForProgramNode(node, path)
  <2> HIDE DEF node
  <2>2. /\ Len(T) \in Nat /\ (T = <<>> <=> Len(T) = 0)
        /\ T = <<>> => TargetSet(node, path) = {NoTarget}
        /\ T # <<>> => TargetSet(node, path) = {T[j] : j \in 1 .. Len(T)}
    BY <2>1, TargetsFacts DEF node
  <2> HIDE DEF T
  <2>3. TargetSet(node, path) # {}
    <3>1. CASE T = <<>>
      BY <2>2, <3>1
    <3>2. CASE T # <<>>
      <4>1. 1 \in 1 .. Len(T)
        BY <2>2, <3>2
      <4> QED BY <2>2, <3>2, <4>1
    <3> QED BY <3>1, <3>2
  <2>4. PICK k \in DOMAIN steps : blk[k] = i
    BY <1>1, <2>3 DEF node
  <2> QED BY <1>5, <2>4 DEF StepsOf
<1> QED BY <1>2, <1>3, <1>4, <1>5, <1>6, <1>7, <1>8

After(steps, a, b) == \A j \in StepsOf(steps, a), k \in StepsOf(steps, b) : j > k

(* One node's steps come after another's exactly if it comes after it.     *)
LEMMA AfterFacts ==
    ASSUME NEW program, NEW path \in Path, NEW steps, NEW order, NEW blk,
           Sound(program), IsSequence(steps), Arranged(program, path, steps, order, blk),
           NEW i \in 1 .. Len(order), NEW j \in 1 .. Len(order)
    PROVE  After(steps, order[i], order[j]) <=> i > j
<1>1. /\ Len(order) \in Nat /\ Len(steps) \in Nat /\ DOMAIN steps = 1 .. Len(steps)
      /\ \A k \in DOMAIN steps : blk[k] \in 1 .. Len(order)
      /\ \A k \in StepsOf(steps, order[i]) : k \in DOMAIN steps /\ blk[k] = i
      /\ \A k \in StepsOf(steps, order[j]) : k \in DOMAIN steps /\ blk[k] = j
      /\ \E k \in StepsOf(steps, order[i]) : TRUE
      /\ \E k \in StepsOf(steps, order[j]) : TRUE
  BY StepsFacts
<1>2. \A k, l \in DOMAIN steps : k < l => blk[k] <= blk[l]
  BY Zenon DEF Arranged
<1>3. i \in Nat /\ j \in Nat
  BY <1>1
<1>4. ASSUME i > j PROVE After(steps, order[i], order[j])
  <2> SUFFICES ASSUME NEW k \in StepsOf(steps, order[i]), NEW l \in StepsOf(steps, order[j])
               PROVE  k > l
    BY DEF After
  <2>1. k \in 1 .. Len(steps) /\ l \in 1 .. Len(steps) /\ blk[k] = i /\ blk[l] = j
    BY <1>1
  <2>2. k # l
    BY <1>3, <1>4, <2>1
  <2>3. ~ (k < l)
    BY <1>1, <1>2, <1>3, <1>4, <2>1
  <2> QED BY <1>1, <2>1, <2>2, <2>3
<1>5. ASSUME After(steps, order[i], order[j]) PROVE i > j
  <2>1. PICK k \in StepsOf(steps, order[i]) : TRUE
    BY <1>1
  <2>2. PICK l \in StepsOf(steps, order[j]) : TRUE
    BY <1>1
  <2>3. k \in 1 .. Len(steps) /\ l \in 1 .. Len(steps) /\ blk[k] = i /\ blk[l] = j
    BY <1>1, <2>1, <2>2
  <2>4. k > l
    BY <1>5, <2>1, <2>2 DEF After
  <2>5. l < k
    BY <1>1, <2>3, <2>4
  <2>6. j <= i
    BY <1>1, <1>2, <2>3, <2>5
  <2>7. CASE i = j
    <3>1. k \in StepsOf(steps, order[j]) /\ k > k
      BY <1>5, <2>1, <2>7 DEF After
    <3> QED BY <1>1, <2>3, <3>1
  <2> QED BY <1>3, <2>6, <2>7
<1> QED BY <1>4, <1>5

(* Dependency order, and on the runtime path as early as possible.         *)
LEMMA CompiledOrder ==
    ASSUME NEW program, NEW path, NEW steps, CompiledFrom(program, path, steps)
    PROVE  /\ ~ Cyclic(program)
           /\ \A n \in Ids(program) : \A d \in ToSet(nodesByID(program, n).deps) :
                 After(steps, n, d)
           /\ path = "runtime" =>
                 \A n, m \in Ids(program) :
                     nodeOrder(program, n) < nodeOrder(program, m) /\ After(steps, n, m) =>
                         \E d \in ToSet(nodesByID(program, n).deps) :
                             d = m \/ After(steps, d, m)
<1>1. /\ path \in Path /\ Sound(program) /\ ~ Cyclic(program) /\ IsSequence(steps)
      /\ \E order, blk : Arranged(program, path, steps, order, blk)
  BY Zenon DEF CompiledFrom
<1>2. PICK order, blk : Arranged(program, path, steps, order, blk)
  BY <1>1
<1>3. /\ Len(order) \in Nat
      /\ \A i \in 1 .. Len(order) : order[i] \in Ids(program)
      /\ \A n \in Ids(program) : \E i \in 1 .. Len(order) : order[i] = n
  BY <1>1, <1>2, StepsFacts
<1>4. \A i, j \in 1 .. Len(order) : After(steps, order[i], order[j]) <=> i > j
  BY <1>1, <1>2, AfterFacts
<1>5. Ordered(program, order) /\ (path = "runtime" => Greedy(program, order))
  BY <1>2, Zenon DEF Arranged
<1>6. ASSUME NEW n \in Ids(program), NEW d \in ToSet(nodesByID(program, n).deps)
      PROVE  After(steps, n, d)
  <2>1. PICK i \in 1 .. Len(order) : order[i] = n
    BY <1>3
  <2>2. PICK j \in 1 .. i - 1 : order[j] = d
    BY <1>5, <2>1 DEF Ordered
  <2>3. j \in 1 .. Len(order) /\ i > j
    BY <1>3, <2>1, <2>2
  <2> QED BY <1>4, <2>1, <2>2, <2>3
<1>7. ASSUME path = "runtime", NEW n \in Ids(program), NEW m \in Ids(program),
             nodeOrder(program, n) < nodeOrder(program, m), After(steps, n, m)
      PROVE  \E d \in ToSet(nodesByID(program, n).deps) : d = m \/ After(steps, d, m)
  <2>1. PICK j \in 1 .. Len(order) : order[j] = n
    BY <1>3
  <2>2. PICK i \in 1 .. Len(order) : order[i] = m
    BY <1>3
  <2>3. j > i /\ i \in Nat /\ j \in Nat
    BY <1>3, <1>4, <1>7, <2>1, <2>2
  <2>4. n \notin Before(order, i + 1)
    <3> SUFFICES ASSUME NEW l \in 1 .. i + 1 - 1, order[l] = n PROVE FALSE
      BY DEF Before
    <3>1. l \in 1 .. Len(order) /\ l # j
      BY <1>3, <2>2, <2>3
    <3>2. NoDup(order)
      BY <1>2, Zenon DEF Arranged
    <3> QED BY <2>1, <3>1, <3>2 DEF NoDup
  <2>5. PICK d \in ToSet(nodesByID(program, n).deps) : d \notin Before(order, i)
    BY <1>5, <1>7, <2>2, <2>4 DEF Greedy
  <2>6. d \in Ids(program)
    BY <1>1, <2>5 DEF Sound
  <2>7. PICK l \in 1 .. Len(order) : order[l] = d
    BY <1>3, <2>6
  <2>8. ~ (l < i)
    <3> SUFFICES ASSUME l < i PROVE FALSE
      OBVIOUS
    <3>1. l \in 1 .. i - 1
      BY <1>3, <2>3
    <3> QED BY <2>5, <2>7, <3>1 DEF Before
  <2>9. l = i \/ l > i
    BY <1>3, <2>3, <2>7, <2>8
  <2> QED BY <1>4, <2>2, <2>5, <2>7, <2>9
<1> QED BY <1>1, <1>6, <1>7

(* One step per target, verified by itself or with its group.              *)
LEMMA CompiledNodes ==
    ASSUME NEW program, NEW path, NEW steps, CompiledFrom(program, path, steps),
           NEW n \in Ids(program)
    PROVE  LET node == nodesByID(program, n)
               own == {steps[k] : k \in StepsOf(steps, n)}
           IN  /\ {s.target : s \in own} = TargetSet(node, path)
               /\ node.verify => \A s \in own : s.verify # s.aggregateVerify
               /\ \A s \in own : s.aggregateVerify => Cardinality(StepsOf(steps, n)) > 1
<1> DEFINE node == nodesByID(program, n)
           own == {steps[k] : k \in StepsOf(steps, n)}
           total == Len(targetsForProgramNode(node, path))
<1>1. /\ path \in Path /\ Sound(program) /\ IsSequence(steps)
      /\ \E order, blk : Arranged(program, path, steps, order, blk)
  BY Zenon DEF CompiledFrom
<1>2. PICK order, blk : Arranged(program, path, steps, order, blk)
  BY <1>1
<1>3. /\ Len(order) \in Nat /\ Len(steps) \in Nat /\ DOMAIN steps = 1 .. Len(steps)
      /\ \A i \in 1 .. Len(order) : order[i] \in Ids(program)
      /\ \A m \in Ids(program) : \E i \in 1 .. Len(order) : order[i] = m
      /\ \A k \in DOMAIN steps : blk[k] \in 1 .. Len(order) /\ steps[k].node = order[blk[k]]
      /\ \A i \in 1 .. Len(order) : \A k \in StepsOf(steps, order[i]) :
                 k \in DOMAIN steps /\ blk[k] = i
  BY <1>1, <1>2, StepsFacts
<1>4. PICK i \in 1 .. Len(order) : order[i] = n
  BY <1>3
<1>5. ASSUME NEW k \in StepsOf(steps, n) PROVE StepOf(steps[k], node, path)
  <2>1. k \in DOMAIN steps /\ blk[k] = i
    BY <1>3, <1>4
  <2>2. StepOf(steps[k], nodesByID(program, order[blk[k]]), path)
    BY <1>2, <2>1, Zenon DEF Arranged
  <2> QED BY <1>4, <2>1, <2>2
<1>6. ASSUME NEW x \in TargetSet(node, path)
      PROVE  \E k \in StepsOf(steps, n) : steps[k].target = x
  <2>1. x \in TargetSet(nodesByID(program, order[i]), path)
    BY <1>4
  <2>2. PICK k \in DOMAIN steps : blk[k] = i /\ steps[k].target = x
    BY <1>2, <2>1, Zenon DEF Arranged
  <2>3. k \in StepsOf(steps, n)
    BY <1>3, <1>4, <2>2 DEF StepsOf
  <2> QED BY <2>2, <2>3
<1>7. ASSUME total > 1 PROVE Cardinality(StepsOf(steps, n)) > 1
  <2>1. Len(targetsForProgramNode(nodesByID(program, order[i]), path)) > 1
    BY <1>4, <1>7
  <2>2. PICK k, l \in DOMAIN steps : k # l /\ blk[k] = i /\ blk[l] = i
    BY <1>2, <2>1, Zenon DEF Arranged
  <2>3. k \in StepsOf(steps, n) /\ l \in StepsOf(steps, n)
    BY <1>3, <1>4, <2>2 DEF StepsOf
  <2> DEFINE S == StepsOf(steps, n)
  <2>4. IsFiniteSet(S)
    <3>1. S \subseteq 1 .. Len(steps)
      BY <1>3 DEF StepsOf
    <3>2. IsFiniteSet(1 .. Len(steps))
      BY <1>3, FS_Interval
    <3> HIDE DEF S
    <3> QED BY <3>1, <3>2, FS_Subset
  <2> HIDE DEF S
  <2>5. {k, l} \subseteq S
    BY <2>3 DEF S
  <2>6. Cardinality({k, l}) <= Cardinality(S) /\ Cardinality(S) \in Nat
    BY <2>4, <2>5, FS_Subset, FS_CardinalityType
  <2>7. Cardinality({k, l}) = 2
    <3>1. IsFiniteSet({l}) /\ Cardinality({l}) = 1
      BY FS_Singleton
    <3>2. k \notin {l} /\ {k, l} = {l} \cup {k}
      BY <2>2
    <3>3. Cardinality({l} \cup {k}) = 1 + 1
      BY <3>1, <3>2, FS_AddElement
    <3> QED BY <3>2, <3>3
  <2> QED BY <2>6, <2>7 DEF S
<1>8. total \in Nat /\ node.verify \in BOOLEAN
  BY <1>1, NodeFacts, TargetsFacts
<1>9. ASSUME NEW k \in StepsOf(steps, n)
      PROVE  /\ steps[k].target \in TargetSet(node, path)
             /\ steps[k].verify = compileProgramNodeVerifySpec(node, total)
             /\ steps[k].aggregateVerify = applyProgramVerifyMetadata(node, total)
  BY <1>5, Zenon DEF StepOf
<1>10. node.verify =>
         compileProgramNodeVerifySpec(node, total) # applyProgramVerifyMetadata(node, total)
  <2> DEFINE A == total > 1
             C == compiledProgramVerifyScope(node, total) = "aggregate"
  <2>1. compileProgramNodeVerifySpec(node, total) = (node.verify /\ ~ (A /\ C))
    BY Zenon DEF compileProgramNodeVerifySpec
  <2>2. applyProgramVerifyMetadata(node, total) = (node.verify /\ A /\ C)
    BY Zenon DEF applyProgramVerifyMetadata
  <2> HIDE DEF A, C
  <2> QED BY <1>8, <2>1, <2>2
<1>11. applyProgramVerifyMetadata(node, total) => total > 1
  BY DEF applyProgramVerifyMetadata
<1> HIDE DEF node, total
<1>12. {s.target : s \in own} = TargetSet(node, path)
  <2>1. \A x \in TargetSet(node, path) : x \in {s.target : s \in own}
    <3> TAKE x \in TargetSet(node, path)
    <3>1. PICK k \in StepsOf(steps, n) : steps[k].target = x
      BY <1>6
    <3> QED BY <3>1
  <2>2. \A s \in own : s.target \in TargetSet(node, path)
    BY <1>9
  <2> QED BY <2>1, <2>2
<1>13. ASSUME node.verify, NEW s \in own PROVE s.verify # s.aggregateVerify
  <2>1. PICK k \in StepsOf(steps, n) : s = steps[k]
    OBVIOUS
  <2> DEFINE A == compileProgramNodeVerifySpec(node, total)
             C == applyProgramVerifyMetadata(node, total)
  <2>2. A # C
    BY <1>10, <1>13
  <2>3. steps[k].verify = A /\ steps[k].aggregateVerify = C
    BY <1>9
  <2> HIDE DEF A, C
  <2> QED BY <2>1, <2>2, <2>3
<1>14. ASSUME NEW s \in own, s.aggregateVerify PROVE Cardinality(StepsOf(steps, n)) > 1
  <2>1. PICK k \in StepsOf(steps, n) : s = steps[k]
    OBVIOUS
  <2>2. applyProgramVerifyMetadata(node, total)
    BY <1>9, <1>14, <2>1, Zenon
  <2> QED BY <1>7, <1>11, <2>2
<1> QED BY <1>12, <1>13, <1>14, Zenon DEF node

(* The steps of an ancestor come first.                                    *)
LEMMA AncestorsFirst ==
    ASSUME NEW program, NEW path, NEW steps, CompiledFrom(program, path, steps),
           NEW k \in DOMAIN steps, NEW S \in SUBSET Ids(program), NEW m \in S,
           steps[k].node \in S, steps[k].node # m,
           \A x \in S \ {m} : \E d \in S \ {x} : Listed(nodesByID(program, x), d) > 0
    PROVE  \A j \in StepsOf(steps, m) : j \in DOMAIN steps /\ j < k
<1>1. /\ path \in Path /\ Sound(program) /\ IsSequence(steps)
      /\ \E order, blk : Arranged(program, path, steps, order, blk)
  BY Zenon DEF CompiledFrom
<1>2. PICK order, blk : Arranged(program, path, steps, order, blk)
  BY <1>1
<1>3. /\ Len(order) \in Nat /\ Len(steps) \in Nat /\ DOMAIN steps = 1 .. Len(steps)
      /\ \A i \in 1 .. Len(order) : order[i] \in Ids(program)
      /\ \A n \in Ids(program) : \E i \in 1 .. Len(order) : order[i] = n
      /\ \A l \in DOMAIN steps : blk[l] \in 1 .. Len(order) /\ steps[l].node = order[blk[l]]
      /\ \A i \in 1 .. Len(order) : \E l \in StepsOf(steps, order[i]) : TRUE
      /\ \A i \in 1 .. Len(order) : \A l \in StepsOf(steps, order[i]) :
                 l \in DOMAIN steps /\ blk[l] = i
  BY <1>1, <1>2, StepsFacts
<1>4. /\ Ordered(program, order)
      /\ \A l, j \in DOMAIN steps : l < j => blk[l] <= blk[j]
  BY <1>2, Zenon DEF Arranged
<1> DEFINE T == {i \in 1 .. Len(order) : order[i] \in S}
<1>5. T \in SUBSET Nat /\ blk[k] \in T
  BY <1>3
<1>6. PICK i \in T : \A l \in T : i <= l
  BY <1>5, LeastElement
<1>7. order[i] = m
  <2> SUFFICES ASSUME order[i] # m PROVE FALSE
    OBVIOUS
  <2>1. PICK d \in S \ {order[i]} : Listed(nodesByID(program, order[i]), d) > 0
    BY <1>6
  <2>2. d \in ToSet(nodesByID(program, order[i]).deps)
    <3>1. /\ <<>> \in Seq(Ids(program)) /\ d \notin ToSet(<<>>)
          /\ d \in Ids(program) /\ order[i] \in Ids(program)
      BY <1>3, <1>6, <2>1 DEF ToSet
    <3> QED BY <1>1, <2>1, <3>1, MissingFacts
  <2>3. PICK l \in 1 .. i - 1 : order[l] = d
    BY <1>4, <1>6, <2>2 DEF Ordered
  <2>4. l \in T /\ l < i /\ l \in Nat /\ i \in Nat
    BY <1>3, <1>6, <2>1, <2>3
  <2> QED BY <1>6, <2>4
<1>8. i < blk[k] /\ i \in Nat /\ blk[k] \in Nat
  <2>1. i <= blk[k] /\ i \in Nat /\ blk[k] \in Nat
    BY <1>3, <1>5, <1>6
  <2>2. i # blk[k]
    BY <1>3, <1>7
  <2> QED BY <2>1, <2>2
<1>9. TAKE j \in StepsOf(steps, m)
<1>10. j \in DOMAIN steps /\ blk[j] = i
  BY <1>3, <1>6, <1>7
<1>11. j # k
  BY <1>8, <1>10
<1>12. ~ (k < j)
  <2> SUFFICES ASSUME k < j PROVE FALSE
    OBVIOUS
  <2>1. blk[k] <= blk[j]
    BY <1>4, <1>10
  <2> QED BY <1>8, <1>10, <2>1
<1>13. j < k
  BY <1>3, <1>10, <1>11, <1>12
<1> QED BY <1>10, <1>13
=============================================================================
