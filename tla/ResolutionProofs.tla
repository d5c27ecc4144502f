-------------------------- MODULE ResolutionProofs --------------------------
(***************************************************************************)
(* What TLAPS proves of Resolution, for every screen and every Target.     *)
(*                                                                         *)
(* The model's data is recursive (a node's ancestors, the text under a     *)
(* node) and counted (the members of a set in document order).  What has   *)
(* to be said of such data for every screen is said by a least             *)
(* counterexample, which the well-foundedness of < on the naturals gives.  *)
(***************************************************************************)
EXTENDS Resolution, FiniteSetTheorems, WellFoundedInduction, TLAPS

-----------------------------------------------------------------------------
\* Sets of naturals

\* A set of naturals with something in it has a least member.
LEMMA Least ==
  ASSUME NEW T, T \subseteq Nat, T # {}
  PROVE  \E n \in T : \A m \in T : n <= m
<1>1. \E x \in T : \A y \in T : ~ (<<y, x>> \in OpToRel(<, Nat))
  BY NatLessThanWellFounded, WFMin
<1>2. \A y, x \in Nat : <<y, x>> \in OpToRel(<, Nat) <=> y < x
  BY Zenon DEF OpToRel
<1>3. \E x \in T : \A y \in T : ~ (y < x)
  BY <1>1, <1>2, Zenon
<1> QED
  BY <1>3

\* One that goes no further than N has a greatest.
LEMMA Greatest ==
  ASSUME NEW N \in Nat, NEW S, S \subseteq 0..N, S # {}
  PROVE  \E n \in S : \A m \in S : m <= n
<1> DEFINE T == {N - m : m \in S}
<1>1. T \subseteq Nat /\ T # {}
  <2>1. \A m \in S : N - m \in Nat
    OBVIOUS
  <2> QED
    BY <2>1
<1>2. PICK k \in T : \A m \in T : k <= m
  <2> HIDE DEF T
  <2> QED
    BY <1>1, Least
<1>3. PICK n \in S : k = N - n
  OBVIOUS
<1>4. \A m \in S : N - n <= N - m
  BY <1>2, <1>3
<1>5. \A m \in S : m <= n
  BY <1>4
<1> QED
  BY <1>5

LEMMA MaxOf ==
  ASSUME NEW N \in Nat, NEW S, S \subseteq 0..N, S # {}
  PROVE  Max(S) \in S /\ \A m \in S : m <= Max(S)
<1>1. PICK n \in S : \A m \in S : m <= n
  BY Greatest
<1>2. \A m \in S : n >= m
  BY <1>1
<1>3. Max(S) \in S /\ \A m \in S : Max(S) >= m
  BY <1>2 DEF Max
<1> QED
  BY <1>3

LEMMA MinOf ==
  ASSUME NEW S, S \subseteq Nat, S # {}
  PROVE  Min(S) \in S /\ \A m \in S : Min(S) <= m
<1>1. \E n \in S : \A m \in S : n <= m
  BY Least
<1> QED
  BY <1>1 DEF Min

-----------------------------------------------------------------------------
\* Document order

\* Of the members of a set of nodes, one and only one has i members up to itself.
LEMMA Counted ==
  ASSUME NEW N \in Nat, NEW S, S \subseteq 1..N
  PROVE  /\ IsFiniteSet(S) /\ Cardinality(S) \in Nat
         /\ \A i \in 1..Cardinality(S) : \E n \in S : Cardinality({m \in S : m <= n}) = i
<1> DEFINE UpTo(Q, n) == {m \in Q : m <= n}
           Holds(Q) == \A i \in 1..Cardinality(Q) : \E n \in Q : Cardinality(UpTo(Q, n)) = i
           T == {k \in Nat : \E Q : Q \subseteq 1..k /\ ~Holds(Q)}
<1>1. \A k \in Nat : \A Q : Q \subseteq 1..k => IsFiniteSet(Q) /\ Cardinality(Q) \in Nat
  <2> TAKE k \in Nat
  <2>1. IsFiniteSet(1..k)
    BY FS_Interval
  <2> QED
    BY <2>1, FS_Subset, FS_CardinalityType
<1>2. T = {}
  <2> SUFFICES ASSUME T # {} PROVE FALSE
    OBVIOUS
  <2>1. PICK k \in T : \A m \in T : k <= m
    <3>1. T \subseteq Nat
      OBVIOUS
    <3> HIDE DEF T
    <3> QED
      BY <3>1, Least
  <2>2. PICK Q : Q \subseteq 1..k /\ ~Holds(Q)
    BY <2>1
  <2>k. k \in Nat
    BY <2>1
  <2>3. IsFiniteSet(Q) /\ Cardinality(Q) \in Nat
    BY <1>1, <2>1, <2>2
  <2>4. \A P : P \subseteq 1..(k - 1) => Holds(P)
    <3>1. CASE k = 0
      <4>1. 1..(k - 1) = {}
        BY <3>1
      <4>2. Cardinality({}) = 0
        BY FS_EmptySet
      <4> QED
        BY <4>1, <4>2, \A P : P \subseteq {} => P = {}, 1..0 = {}
    <3>2. CASE k # 0
      <4>1. k - 1 \in Nat /\ k - 1 \notin T
        BY <2>1, <3>2
      <4> QED
        BY <4>1
    <3> QED
      BY <3>1, <3>2
  <2>5. k \in Q
    <3> SUFFICES ASSUME k \notin Q PROVE FALSE
      OBVIOUS
    <3>1. \A x \in 1..k : x # k => x \in 1..(k - 1)
      BY <2>k
    <3>2. Q \subseteq 1..(k - 1)
      BY <2>2, <3>1
    <3> QED
      BY <2>2, <2>4, <3>2
  <2> DEFINE P == Q \ {k}
  <2>6. P \subseteq 1..(k - 1)
    <3>1. \A x \in 1..k : x # k => x \in 1..(k - 1)
      BY <2>k
    <3> QED
      BY <2>2, <3>1
  <2>7. Cardinality(Q) = Cardinality(P) + 1 /\ Cardinality(P) \in Nat
    <3>1. Cardinality(P) = Cardinality(Q) - 1
      BY <2>3, <2>5, FS_RemoveElement
    <3>2. Cardinality(Q) # 0
      BY <2>3, <2>5, FS_EmptySet
    <3> QED
      BY <2>3, <3>1, <3>2
  <2>8. ASSUME NEW i \in 1..Cardinality(Q) PROVE \E n \in Q : Cardinality(UpTo(Q, n)) = i
    <3>1. CASE i = Cardinality(Q)
      <4>1. UpTo(Q, k) = Q
        <5>1. \A x \in 1..k : x <= k
          BY <2>k
        <5> QED
          BY <2>2, <5>1
      <4> QED
        BY <2>5, <3>1, <4>1
    <3>2. CASE i # Cardinality(Q)
      <4>1. i \in 1..Cardinality(P)
        BY <2>3, <2>7, <3>2
      <4>2. PICK n \in P : Cardinality(UpTo(P, n)) = i
        BY <2>4, <2>6, <4>1
      <4>3. UpTo(Q, n) = UpTo(P, n)
        <5>1. ~ (k <= n)
          BY <2>k, <2>6, <4>2
        <5> QED
          BY <5>1
      <4> QED
        BY <4>2, <4>3
    <3> QED
      BY <3>1, <3>2
  <2> QED
    BY <2>2, <2>8
<1>3. Holds(S)
  <2>1. N \notin T
    BY <1>2, Zenon
  <2> QED
    BY <2>1
<1> QED
  BY <1>1, <1>3

\* Two members of a set are as far along it only if they are one.
LEMMA CountedApart ==
  ASSUME NEW N \in Nat, NEW S, S \subseteq 1..N, NEW n \in S, NEW k \in S,
         Cardinality({m \in S : m <= n}) = Cardinality({m \in S : m <= k})
  PROVE  n = k
<1> SUFFICES ASSUME NEW a \in S, NEW b \in S, a < b,
                    Cardinality({m \in S : m <= a}) = Cardinality({m \in S : m <= b})
             PROVE  FALSE
  <2>1. S \subseteq Nat
    OBVIOUS
  <2>2. n \in Nat /\ k \in Nat
    BY <2>1
  <2>3. CASE n < k
    BY <2>3
  <2>4. CASE k < n
    BY <2>4
  <2> QED
    BY <2>2, <2>3, <2>4
<1> DEFINE A == {m \in S : m <= a}
           B == {m \in S : m <= b}
<1>1. A \in SUBSET B /\ b \in B /\ b \notin A
  <2>1. \A m \in S : m \in Nat
    OBVIOUS
  <2>2. \A m \in S : m <= a => m <= b
    BY <2>1
  <2>3. b <= b /\ ~ (b <= a)
    BY <2>1
  <2> QED
    BY <2>2, <2>3
<1>2. IsFiniteSet(B)
  <2>1. IsFiniteSet(S)
    BY Counted
  <2> QED
    BY <2>1, FS_Subset
<1>3. A = B
  <2>1. Cardinality(B) = Cardinality(A)
    OBVIOUS
  <2> HIDE DEF A, B
  <2> QED
    BY <1>1, <1>2, <2>1, FS_Subset
<1> QED
  BY <1>1, <1>3

\* Document order keeps every member of a set, once.
LEMMA InOrderIs ==
  ASSUME NEW N \in Nat, NEW S, S \subseteq 1..N
  PROVE  /\ InOrder(S) \in Seq(S)
         /\ Len(InOrder(S)) = Cardinality(S) /\ Cardinality(S) \in Nat
         /\ ToSet(InOrder(S)) = S
         /\ InOrder(S) = <<>> <=> S = {}
<1> DEFINE UpTo(n) == {m \in S : m <= n}
           s == InOrder(S)
           c == Cardinality(S)
<1>1. IsFiniteSet(S) /\ c \in Nat
  BY Counted
<1>2. \A i \in 1..c : s[i] \in S /\ Cardinality(UpTo(s[i])) = i
  <2>1. \A i \in 1..c : \E n \in S : Cardinality(UpTo(n)) = i
    BY Counted
  <2> QED
    BY <2>1 DEF InOrder
<1>3. s \in Seq(S) /\ Len(s) = c /\ DOMAIN s = 1..c
  <2>1. s = [i \in 1..c |-> s[i]]
    BY DEF InOrder
  <2>2. s \in [1..c -> S]
    <3> HIDE DEF s, c
    <3> QED
      BY <1>2, <2>1
  <2> HIDE DEF s, c
  <2> QED
    BY <1>1, <2>2
<1>4. ASSUME NEW n \in S PROVE \E i \in 1..c : s[i] = n
  <2>1. UpTo(n) \in SUBSET S /\ n \in UpTo(n)
    OBVIOUS
  <2>2. Cardinality(UpTo(n)) \in 1..c
    <3>1. IsFiniteSet(UpTo(n)) /\ Cardinality(UpTo(n)) <= c
      BY <1>1, <2>1, FS_Subset
    <3>2. Cardinality(UpTo(n)) \in Nat
      BY <3>1, FS_CardinalityType
    <3>3. Cardinality(UpTo(n)) # 0
      BY <2>1, <3>1, FS_EmptySet
    <3> QED
      BY <1>1, <3>1, <3>2, <3>3
  <2>3. s[Cardinality(UpTo(n))] = n
    <3> DEFINE k == s[Cardinality(UpTo(n))]
    <3>1. k \in S /\ Cardinality(UpTo(k)) = Cardinality(UpTo(n))
      BY <1>2, <2>2
    <3> HIDE DEF k, s
    <3>2. k = n
      BY <3>1, CountedApart
    <3> QED
      BY <3>2 DEF k
  <2> QED
    BY <2>2, <2>3
<1>5. ToSet(s) = S
  <2> HIDE DEF s, c
  <2> QED
    BY <1>2, <1>3, <1>4 DEF ToSet
<1>6. s = <<>> <=> S = {}
  <2>1. c = 0 <=> S = {}
    BY <1>1, FS_EmptySet
  <2> HIDE DEF s, c
  <2> QED
    BY <1>1, <1>3, <2>1
<1> QED
  BY <1>1, <1>3, <1>5, <1>6

-----------------------------------------------------------------------------
\* What stands above a node

\* The recursion that says what stands above each node has an answer on every
\* screen: a parent is an earlier node.
LEMMA AboveStep ==
  ASSUME NEW tree, tree \in Seq(NodeType), IsScreen(tree)
  PROVE  /\ DOMAIN Above(tree) = DOMAIN tree
         /\ \A n \in DOMAIN tree :
              Above(tree)[n] = {tree[n].parent}
                \cup (IF tree[n].parent = Root THEN {} ELSE Above(tree)[tree[n].parent])
<1> DEFINE N == Len(tree)
           Said(g, n) == {tree[n].parent}
                           \cup (IF tree[n].parent = Root THEN {} ELSE g[tree[n].parent])
           Is(g, k) == g = [n \in 1..k |-> g[n]] /\ \A n \in 1..k : g[n] = Said(g, n)
           T == {k \in Nat : k <= N /\ ~\E g : Is(g, k)}
<1>1. N \in Nat /\ DOMAIN tree = 1..N
  OBVIOUS
<1>2. \A n \in 1..N : tree[n].parent \in 0..(n - 1)
  BY <1>1 DEF IsScreen
<1>3. T = {}
  <2> SUFFICES ASSUME T # {} PROVE FALSE
    OBVIOUS
  <2>1. PICK k \in T : \A m \in T : k <= m
    <3>1. T \subseteq Nat
      OBVIOUS
    <3> HIDE DEF T
    <3> QED
      BY <3>1, Least
  <2>2. k \in Nat /\ k <= N /\ ~\E g : Is(g, k)
    BY <2>1
  <2>3. k # 0
    <3>1. Is([n \in 1..0 |-> {}], 0)
      OBVIOUS
    <3> HIDE DEF Is
    <3> QED
      BY <2>2, <3>1
  <2>4. \E g : Is(g, k - 1)
    <3>1. k - 1 \in Nat /\ k - 1 <= N /\ ~ (k <= k - 1)
      BY <1>1, <2>2, <2>3
    <3>2. k - 1 \notin T
      BY <2>1, <3>1
    <3> HIDE DEF Is
    <3> QED
      BY <3>1, <3>2
  <2>5. PICK g : Is(g, k - 1)
    BY <2>4
  <2> DEFINE h == [n \in 1..k |-> IF n = k THEN Said(g, k) ELSE g[n]]
  <2>6. \A n \in 1..k : h[n] = Said(g, n)
    <3>1. \A n \in 1..k : n # k => n \in 1..(k - 1)
      BY <2>2
    <3> QED
      BY <2>5, <3>1
  <2>7. \A n \in 1..k : Said(h, n) = Said(g, n)
    <3> TAKE n \in 1..k
    <3>1. tree[n].parent \in 0..(n - 1) /\ n \in Nat /\ n <= k
      BY <1>1, <1>2, <2>2
    <3>2. tree[n].parent # Root => tree[n].parent \in 1..k /\ tree[n].parent # k
      BY <2>2, <3>1 DEF Root
    <3>3. tree[n].parent # Root => h[tree[n].parent] = g[tree[n].parent]
      BY <3>2
    <3> HIDE DEF h
    <3> QED
      BY <3>3
  <2>8. Is(h, k)
    <3>1. h = [n \in 1..k |-> h[n]]
      OBVIOUS
    <3> HIDE DEF h, Said
    <3> QED
      BY <2>6, <2>7, <3>1
  <2> HIDE DEF Is
  <2> QED
    BY <2>2, <2>8
<1>4. PICK g : Is(g, N)
  <2>1. N \notin T
    BY <1>3, Zenon
  <2> HIDE DEF Is
  <2> QED
    BY <1>1, <2>1
<1>5. g = [n \in DOMAIN tree |-> Said(g, n)]
  <2>1. g = [n \in 1..N |-> g[n]]
    BY <1>4
  <2> HIDE DEF Said
  <2> QED
    BY <1>1, <1>4, <2>1
<1>6. Above(tree) = [n \in DOMAIN tree |-> Said(Above(tree), n)]
  BY <1>5 DEF Above
<1> DEFINE a == Above(tree)
           r == [n \in DOMAIN tree |-> Said(a, n)]
<1>7. a = r
  BY <1>6
<1>8. DOMAIN r = DOMAIN tree /\ \A n \in DOMAIN tree : r[n] = Said(a, n)
  OBVIOUS
<1>9. DOMAIN a = DOMAIN tree /\ \A n \in DOMAIN tree : a[n] = Said(a, n)
  <2> HIDE DEF a, r
  <2> QED
    BY <1>7, <1>8
<1> QED
  BY <1>9

\* An indexed screen.
Indexed(ix) == \E tree : tree \in Seq(NodeType) /\ IsScreen(tree) /\ ix = Index(tree)

LEMMA IndexedIs ==
  ASSUME NEW ix, Indexed(ix)
  PROVE  /\ Len(ix.node) \in Nat /\ Nodes(ix) = 1..Len(ix.node)
         /\ \A n \in Nodes(ix) :
              /\ n \in Nat /\ n # Root
              /\ ix.node[n] \in NodeType
              /\ ix.node[n].parent \in 0..(n - 1)
              /\ ix.above[n] = {ix.node[n].parent}
                   \cup (IF ix.node[n].parent = Root THEN {} ELSE ix.above[ix.node[n].parent])
<1>1. PICK tree : tree \in Seq(NodeType) /\ IsScreen(tree) /\ ix = Index(tree)
  BY DEF Indexed
<1>2. ix.node = tree /\ ix.above = Above(tree)
  BY <1>1 DEF Index
<1>3. Len(tree) \in Nat /\ DOMAIN tree = 1..Len(tree) /\ \A n \in DOMAIN tree : tree[n] \in NodeType
  BY <1>1
<1>4. \A n \in DOMAIN tree : n \in Nat /\ n # Root
  BY <1>3 DEF Root
<1>5. \A n \in DOMAIN tree : tree[n].parent \in 0..(n - 1)
  BY <1>1 DEF IsScreen
<1> QED
  BY <1>1, <1>2, <1>3, <1>4, <1>5, AboveStep DEF Nodes

\* What stands above a node is the document and nodes before it, and what stands
\* above one of those stands above it.
LEMMA AboveIs ==
  ASSUME NEW ix, Indexed(ix)
  PROVE  \A n \in Nodes(ix) :
           /\ ix.above[n] \subseteq 0..(n - 1)
           /\ Root \in ix.above[n]
           /\ \A m \in ix.above[n] \ {Root} : m \in Nodes(ix) /\ ix.above[m] \subseteq ix.above[n]
<1> DEFINE N == Len(ix.node)
           Fine(n) == /\ ix.above[n] \subseteq 0..(n - 1)
                      /\ Root \in ix.above[n]
                      /\ \A m \in ix.above[n] \ {Root} : m \in Nodes(ix) /\ ix.above[m] \subseteq ix.above[n]
           T == {n \in Nodes(ix) : ~Fine(n)}
<1>1. N \in Nat /\ Nodes(ix) = 1..N
  BY IndexedIs
<1> SUFFICES ASSUME T # {} PROVE FALSE
  OBVIOUS
<1>2. PICK n \in T : \A m \in T : n <= m
  <2>1. T \subseteq Nat
    BY <1>1
  <2> HIDE DEF T
  <2> QED
    BY <2>1, Least
<1> DEFINE p == ix.node[n].parent
<1>3. n \in 1..N /\ ~Fine(n)
  BY <1>1, <1>2
<1>4. /\ n \in Nat /\ n # Root
      /\ p \in 0..(n - 1)
      /\ ix.above[n] = {p} \cup (IF p = Root THEN {} ELSE ix.above[p])
  BY <1>1, <1>3, IndexedIs
<1>5. CASE p = Root
  BY <1>3, <1>4, <1>5 DEF Root
<1>6. CASE p # Root
  <2>1. p \in Nodes(ix) /\ p \in Nat /\ p < n /\ ~ (n <= p)
    BY <1>1, <1>3, <1>4, <1>6 DEF Root
  <2>2. Fine(p)
    BY <1>2, <2>1
  <2>3. ix.above[n] = {p} \cup ix.above[p]
    BY <1>4, <1>6
  <2>4. ix.above[n] \subseteq 0..(n - 1)
    <3>1. \A m \in 0..(p - 1) : m \in 0..(n - 1)
      BY <1>4, <2>1
    <3> QED
      BY <1>4, <2>2, <2>3, <3>1
  <2>5. Root \in ix.above[n]
    BY <2>2, <2>3
  <2>6. \A m \in ix.above[n] \ {Root} : m \in Nodes(ix) /\ ix.above[m] \subseteq ix.above[n]
    BY <2>1, <2>2, <2>3
  <2> QED
    BY <1>3, <2>4, <2>5, <2>6
<1> QED
  BY <1>5, <1>6

-----------------------------------------------------------------------------
\* The innermost of a set of nodes

LEMMA InnermostIs ==
  ASSUME NEW ix, Indexed(ix), NEW S, S \subseteq Nodes(ix)
  PROVE  /\ Innermost(ix, S) \subseteq S
         /\ \A n \in S \ Innermost(ix, S) : \E m \in Innermost(ix, S) : IsAncestorOf(ix, n, m)
         /\ Innermost(ix, S) = {} <=> S = {}
<1>1. Innermost(ix, S) \subseteq S
  BY DEF Innermost
<1>2. ASSUME NEW n \in S \ Innermost(ix, S)
      PROVE  \E m \in Innermost(ix, S) : IsAncestorOf(ix, n, m)
  <2> DEFINE D == {m \in S : IsAncestorOf(ix, n, m)}
  <2>1. D # {}
    BY DEF Innermost
  <2>2. Len(ix.node) \in Nat /\ Nodes(ix) = 1..Len(ix.node)
    BY IndexedIs
  <2>3. PICK m \in D : \A k \in D : k <= m
    <3>1. D \subseteq 0..Len(ix.node)
      BY <2>2
    <3> HIDE DEF D
    <3> QED
      BY <2>1, <2>2, <3>1, Greatest
  <2>4. m \in Nodes(ix) /\ m \in Nat /\ m # Root /\ n \in ix.above[m] /\ n # Root
    BY <2>2, <2>3, IndexedIs DEF IsAncestorOf
  <2>5. ASSUME NEW k \in S, IsAncestorOf(ix, m, k) PROVE FALSE
    <3>1. k \in Nodes(ix) /\ k # Root /\ m \in ix.above[k]
      BY <2>5, IndexedIs DEF IsAncestorOf
    <3>2. ix.above[m] \subseteq ix.above[k] /\ m \in 0..(k - 1) /\ k \in Nat
      BY <2>4, <3>1, AboveIs, IndexedIs
    <3>3. k \in D /\ ~ (k <= m)
      BY <2>4, <3>1, <3>2 DEF IsAncestorOf
    <3> QED
      BY <2>3, <3>3
  <2> QED
    BY <2>3, <2>5 DEF Innermost
<1> QED
  BY <1>1, <1>2
-----------------------------------------------------------------------------
\* Texts

LEMMA RungIs ==
  ASSUME NEW text, NEW wanted, NEW exactOnly \in BOOLEAN, NEW byTokens \in BOOLEAN
  PROVE  /\ Rung(text, wanted, exactOnly, byTokens) \in 0..3
         /\ Rung(text, wanted, exactOnly, byTokens) = 3 <=> text = wanted
         /\ Rung(text, wanted, exactOnly, byTokens) = 2 <=>
              text # wanted /\ ~exactOnly /\ Includes(text, wanted)
         /\ Rung(text, wanted, exactOnly, byTokens) = 1 <=>
              /\ text # wanted /\ ~exactOnly /\ ~Includes(text, wanted)
              /\ byTokens /\ IsTokenSubsetOf(text, wanted)
<1> DEFINE inside == Includes(text, wanted)
           tokens == IsTokenSubsetOf(text, wanted)
<1>1. Rung(text, wanted, exactOnly, byTokens) =
        CASE text = wanted -> 3
          [] text # wanted /\ ~exactOnly /\ inside -> 2
          [] text # wanted /\ ~exactOnly /\ ~inside /\ byTokens /\ tokens -> 1
          [] OTHER -> 0
  BY DEF Rung
<1> HIDE DEF inside, tokens
<1>2. /\ Rung(text, wanted, exactOnly, byTokens) \in 0..3
      /\ Rung(text, wanted, exactOnly, byTokens) = 3 <=> text = wanted
      /\ Rung(text, wanted, exactOnly, byTokens) = 2 <=> text # wanted /\ ~exactOnly /\ inside
      /\ Rung(text, wanted, exactOnly, byTokens) = 1 <=>
           text # wanted /\ ~exactOnly /\ ~inside /\ byTokens /\ tokens
  <2>1. CASE text = wanted
    BY <1>1, <2>1
  <2>2. CASE text # wanted /\ ~exactOnly /\ inside
    BY <1>1, <2>2
  <2>3. CASE text # wanted /\ ~exactOnly /\ ~inside /\ byTokens /\ tokens
    BY <1>1, <2>3
  <2>4. CASE text # wanted /\ (exactOnly \/ (~inside /\ ~ (byTokens /\ tokens)))
    BY <1>1, <2>4
  <2> QED
    BY <2>1, <2>2, <2>3, <2>4, Zenon
<1> QED
  BY <1>2 DEF inside, tokens

\* Narrowing by a text in three rungs keeps the nodes that answer it best, and so
\* keeps one as soon as one of those it is offered answers at all.
LEMMA NarrowByTextIs ==
  ASSUME NEW S, NEW wanted, NEW read, NEW exactOnly \in BOOLEAN, NEW byTokens \in BOOLEAN
  PROVE  /\ NarrowByText(S, wanted, read, exactOnly, byTokens).found \subseteq S
         /\ \A n \in S :
              n \in NarrowByText(S, wanted, read, exactOnly, byTokens).found <=>
                /\ Rung(Text(read[n]), wanted, exactOnly, byTokens) > 0
                /\ \A m \in S : Rung(Text(read[m]), wanted, exactOnly, byTokens)
                                  <= Rung(Text(read[n]), wanted, exactOnly, byTokens)
         /\ \A n \in S : Rung(Text(read[n]), wanted, exactOnly, byTokens) # 0 =>
              NarrowByText(S, wanted, read, exactOnly, byTokens).found # {}
<1> DEFINE found == NarrowByText(S, wanted, read, exactOnly, byTokens).found
           rung  == [n \in S |-> Rung(Text(read[n]), wanted, exactOnly, byTokens)]
           exact    == {n \in S : rung[n] = 3}
           contains == {n \in S : Includes(Text(read[n]), wanted)}
           tokens   == {n \in S : IsTokenSubsetOf(Text(read[n]), wanted)}
<1>1. \A n \in S : /\ rung[n] = Rung(Text(read[n]), wanted, exactOnly, byTokens)
                   /\ rung[n] \in 0..3
                   /\ rung[n] = 3 <=> Text(read[n]) = wanted
                   /\ rung[n] = 2 <=> n \notin exact /\ ~exactOnly /\ n \in contains
                   /\ rung[n] = 1 <=> /\ n \notin exact /\ ~exactOnly /\ n \notin contains
                                      /\ byTokens /\ n \in tokens
  BY RungIs
<1>2. exact = {n \in S : Text(read[n]) = wanted}
  BY <1>1
<1>3. found = CASE exact # {} \/ exactOnly -> exact
                [] exact = {} /\ ~exactOnly /\ (contains # {} \/ ~byTokens \/ tokens = {}) -> contains
                [] OTHER -> tokens
  <2>1. exact # {} \/ exactOnly \/ ~ (exact # {} \/ exactOnly)
    OBVIOUS
  <2> QED
    BY <1>2 DEF NarrowByText
<1>5. exact \subseteq S /\ contains \subseteq S /\ tokens \subseteq S
  OBVIOUS
<1>6. \A n \in S : n \in exact <=> rung[n] = 3
  OBVIOUS
<1> HIDE DEF found, rung, exact, contains, tokens
<1>7. /\ found \subseteq S
      /\ found = {n \in S : rung[n] > 0 /\ \A m \in S : rung[m] <= rung[n]}
      /\ \A n \in S : rung[n] # 0 => found # {}
  <2>1. CASE exact # {}
    <3>1. found = exact
      BY <1>3, <2>1
    <3>2. PICK k \in S : rung[k] = 3
      BY <1>5, <1>6, <2>1
    <3> QED
      BY <1>1, <1>6, <3>1, <3>2, <1>5
  <2>2. CASE exact = {} /\ exactOnly
    <3>1. found = {}
      BY <1>3, <2>2
    <3>2. \A n \in S : rung[n] = 0
      <4> TAKE n \in S
      <4>1. rung[n] \in 0..3 /\ rung[n] # 3 /\ rung[n] # 2 /\ rung[n] # 1
        BY <1>1, <1>6, <2>2
      <4> QED
        BY <4>1
    <3> QED
      BY <3>1, <3>2
  <2>3. CASE exact = {} /\ ~exactOnly /\ contains # {}
    <3>1. found = contains
      BY <1>3, <2>3
    <3>2. \A n \in S : rung[n] \in 0..2 /\ (rung[n] = 2 <=> n \in contains)
      BY <1>1, <1>6, <2>3
    <3> QED
      BY <1>5, <2>3, <3>1, <3>2
  <2>4. CASE exact = {} /\ ~exactOnly /\ contains = {} /\ (~byTokens \/ tokens = {})
    <3>1. found = {}
      BY <1>3, <2>4
    <3>2. \A n \in S : rung[n] = 0
      BY <1>1, <1>6, <2>4
    <3> QED
      BY <3>1, <3>2
  <2>5. CASE exact = {} /\ ~exactOnly /\ contains = {} /\ byTokens /\ tokens # {}
    <3>1. found = tokens
      BY <1>3, <2>5
    <3>2. \A n \in S : rung[n] \in 0..1 /\ (rung[n] = 1 <=> n \in tokens)
      <4> TAKE n \in S
      <4>1. /\ rung[n] \in 0..3 /\ rung[n] # 3 /\ rung[n] # 2
            /\ rung[n] = 1 <=> n \in tokens
        BY <1>1, <1>6, <2>5
      <4> QED
        BY <4>1
    <3> QED
      BY <1>5, <2>5, <3>1, <3>2
  <2> QED
    BY <2>1, <2>2, <2>3, <2>4, <2>5
<1> QED
  BY <1>1, <1>7 DEF found, rung

LEMMA NarrowByTextBest ==
  ASSUME NEW S, NEW wanted, NEW read, NEW exactOnly \in BOOLEAN, NEW byTokens \in BOOLEAN
  PROVE  NarrowByText(S, wanted, read, exactOnly, byTokens).found =
           Best(S, [n \in S |-> Rung(Text(read[n]), wanted, exactOnly, byTokens)])
BY NarrowByTextIs DEF Best

LEMMA TextIs ==
  ASSUME NEW node \in NodeType
  PROVE  /\ Text(node.name) \in Texts /\ Text(node.value) \in Texts
         /\ OwnText(node) \in Texts
         /\ Identity(node) \in Texts
         /\ Text(Identity(node)) = Identity(node)
         /\ node.name = Absent \/ node.value = Absent => OwnText(node) = Identity(node)
         /\ Identity(node) # <<>> => Identity(node) # Absent
<1>1. node.name \in Optional(Texts) /\ node.value \in Optional(Texts)
  BY DEF NodeType
<1>2. Text(node.name) \in Texts /\ Text(node.value) \in Texts
  BY <1>1 DEF Text, Optional, Texts
<1>3. OwnText(node) \in Texts
  BY <1>2 DEF OwnText, Texts
<1>4. Identity(node) \in Texts
  BY <1>1, <1>2 DEF Identity, Optional
<1>5. Identity(node) # Absent
  BY <1>4, AbsentAssumption
<1>6. Text(Identity(node)) = Identity(node)
  BY <1>5 DEF Text
<1>7. node.name = Absent \/ node.value = Absent => OwnText(node) = Identity(node)
  <2>1. \A s \in Texts : <<>> \o s = s /\ s \o <<>> = s
    BY DEF Texts
  <2>2. CASE node.name = Absent
    BY <1>2, <2>1, <2>2 DEF OwnText, Identity, Text
  <2>3. CASE node.name # Absent /\ node.value = Absent
    BY <1>2, <2>1, <2>3 DEF OwnText, Identity, Text
  <2> QED
    BY <2>2, <2>3
<1> QED
  BY <1>2, <1>3, <1>4, <1>5, <1>6, <1>7
-----------------------------------------------------------------------------
\* Regions

LEMMA ContainerIs ==
  ASSUME NEW ix, Indexed(ix), NEW n \in Nodes(ix)
  PROVE  ContainerOf(ix, n) \in Nodes(ix) \cup {Root}
<1> DEFINE S == {Root} \cup {a \in ix.above[n] \ {Root} : ix.node[a].role \in SectionRoles}
<1>1. S \subseteq Nodes(ix) \cup {Root} /\ S # {}
  BY AboveIs
<1>2. Len(ix.node) \in Nat /\ S \subseteq 0..Len(ix.node)
  BY <1>1, IndexedIs DEF Root
<1>3. Max(S) \in S
  <2> HIDE DEF S
  <2> QED
    BY <1>1, <1>2, MaxOf
<1> QED
  BY <1>1, <1>3 DEF ContainerOf

\* A heading is a text, and one that says something is read off a node: it is the
\* name the section goes by, or the whole of what a node says.
LEMMA HeadingIs ==
  ASSUME NEW ix, Indexed(ix), NEW n \in Nodes(ix)
  PROVE  /\ HeadingOf(ix, n) \in Texts
         /\ HeadingOf(ix, n) # <<>> =>
              \E m \in Nodes(ix) : HeadingOf(ix, n) \in {Identity(ix.node[m]), OwnText(ix.node[m])}
<1> DEFINE readable == {m \in Subtree(ix, n) \ {n} :
                          ix.node[m].role \notin ControlRoles /\ OwnText(ix.node[m]) # <<>>}
<1>1. HeadingOf(ix, n) = IF Identity(ix.node[n]) # <<>> THEN Identity(ix.node[n])
                         ELSE IF readable # {} THEN OwnText(ix.node[Min(readable)]) ELSE <<>>
  BY DEF HeadingOf
<1>2. Identity(ix.node[n]) \in Texts
  BY IndexedIs, TextIs
<1>3. readable \subseteq Nodes(ix) /\ Nodes(ix) \subseteq Nat
  BY IndexedIs DEF Subtree
<1> HIDE DEF readable
<1>4. CASE Identity(ix.node[n]) # <<>>
  BY <1>1, <1>2, <1>4
<1>5. CASE Identity(ix.node[n]) = <<>> /\ readable # {}
  <2>1. Min(readable) \in Nodes(ix)
    BY <1>3, <1>5, MinOf
  <2>2. OwnText(ix.node[Min(readable)]) \in Texts
    BY <2>1, IndexedIs, TextIs
  <2> QED
    BY <1>1, <1>5, <2>1, <2>2
<1>6. CASE Identity(ix.node[n]) = <<>> /\ readable = {}
  BY <1>1, <1>6 DEF Texts
<1> QED
  BY <1>4, <1>5, <1>6

LEMMA RegionIs ==
  ASSUME NEW ix, Indexed(ix)
  PROVE  /\ \A n \in Nodes(ix) : RegionOf(ix, n) \in Texts
         /\ RegionsOffered(ix) \subseteq Texts
         /\ \A region \in RegionsOffered(ix) :
              \E m \in Nodes(ix) : region \in {Identity(ix.node[m]), OwnText(ix.node[m])}
<1>1. <<>> \in Texts
  BY DEF Texts
<1>2. \A n \in Nodes(ix) : RegionOf(ix, n) \in Texts
  BY <1>1, ContainerIs, HeadingIs DEF RegionOf
<1> QED
  BY <1>2, HeadingIs DEF RegionsOffered

\* On a screen with something on it, something is inside whatever is there.
LEMMA InsideSome ==
  ASSUME NEW ix, Indexed(ix), Nodes(ix) # {},
         NEW S, S \subseteq Nodes(ix) \cup {Root}, S # {}
  PROVE  Inside(ix, Nodes(ix), S) # {}
<1>1. PICK root : root \in S
  OBVIOUS
<1>2. CASE root \in Nodes(ix)
  BY <1>1, <1>2 DEF Inside
<1>3. CASE root = Root
  <2>1. PICK n : n \in Nodes(ix)
    OBVIOUS
  <2>2. IsAncestorOf(ix, Root, n)
    BY <2>1, AboveIs, IndexedIs DEF IsAncestorOf
  <2> QED
    BY <1>1, <1>3, <2>1, <2>2 DEF Inside
<1> QED
  BY <1>1, <1>2, <1>3

LEMMA HeadedByIs ==
  ASSUME NEW ix, Indexed(ix), NEW heading
  PROVE  /\ HeadedBy(ix, heading) \subseteq Nodes(ix) \cup {Root}
         /\ HeadedBy(ix, heading) # {} => Inside(ix, Nodes(ix), HeadedBy(ix, heading)) # {}
         /\ (\E m \in Nodes(ix) : Identity(ix.node[m]) = heading) => HeadedBy(ix, heading) # {}
<1> DEFINE found == NarrowByText(Nodes(ix), heading, Names(ix), FALSE, FALSE).found
<1>1. found \subseteq Nodes(ix)
      /\ \A n \in Nodes(ix) : Rung(Text(Names(ix)[n]), heading, FALSE, FALSE) # 0 => found # {}
  BY NarrowByTextIs
<1>2. HeadedBy(ix, heading) =
        {IF Children(ix, n) # {} THEN n ELSE ContainerOf(ix, n) : n \in found}
  BY DEF HeadedBy
<1> HIDE DEF found
<1>3. HeadedBy(ix, heading) \subseteq Nodes(ix) \cup {Root}
  BY <1>1, <1>2, ContainerIs
<1>4. HeadedBy(ix, heading) # {} => Nodes(ix) # {}
  BY <1>1, <1>2
<1>5. ASSUME NEW m \in Nodes(ix), Identity(ix.node[m]) = heading
      PROVE  HeadedBy(ix, heading) # {}
  <2>1. Text(Names(ix)[m]) = heading
    BY <1>5, IndexedIs, TextIs DEF Names
  <2>2. Rung(Text(Names(ix)[m]), heading, FALSE, FALSE) = 3
    <3>1. \A e \in BOOLEAN : Rung(Text(Names(ix)[m]), heading, e, e) = 3
      BY <2>1, RungIs
    <3> QED
      BY <3>1
  <2>3. found # {}
    <3>1. 3 # 0
      OBVIOUS
    <3> QED
      BY <1>1, <2>2, <3>1, Zenon
  <2> QED
    BY <1>2, <2>3
<1> QED
  BY <1>3, <1>4, <1>5, InsideSome

-----------------------------------------------------------------------------
\* What each criterion of a Target leaves

WithinLeft(ix, t) ==
  IF t.within = Absent THEN Nodes(ix) ELSE Inside(ix, Nodes(ix), ScopeOf(ix, t.within, TRUE))
RoleLeft(ix, t) ==
  IF t.role = Absent THEN WithinLeft(ix, t) ELSE {n \in WithinLeft(ix, t) : ix.node[n].role = t.role}
NameLeft(ix, t) ==
  IF t.name = Absent THEN RoleLeft(ix, t)
  ELSE NarrowByText(RoleLeft(ix, t), t.name, Names(ix), t.exact, TRUE).found
LabelLeft(ix, t) ==
  IF t.label = Absent THEN NameLeft(ix, t)
  ELSE NarrowByText(NameLeft(ix, t), t.label, Labels(ix), FALSE, FALSE).found
Left(ix, t) ==
  IF t.textNear = Absent THEN LabelLeft(ix, t) ELSE Nearest(ix, LabelLeft(ix, t), t.textNear)

FailsWithin(ix, t) == t.within # Absent /\ WithinLeft(ix, t) = {}
FailsRole(ix, t) == t.role # Absent /\ RoleLeft(ix, t) = {}
FailsName(ix, t) == t.name # Absent /\ NameLeft(ix, t) = {}
FailsLabel(ix, t) == t.label # Absent /\ LabelLeft(ix, t) = {}
FailsText(ix, t) == t.textNear # Absent /\ Left(ix, t) = {}

\* Each criterion only takes away.
LEMMA LeftIs ==
  ASSUME NEW ix, NEW t \in TargetType
  PROVE  /\ WithinLeft(ix, t) \subseteq Nodes(ix)
         /\ RoleLeft(ix, t) \subseteq WithinLeft(ix, t)
         /\ NameLeft(ix, t) \subseteq RoleLeft(ix, t)
         /\ LabelLeft(ix, t) \subseteq NameLeft(ix, t)
         /\ Left(ix, t) \subseteq LabelLeft(ix, t)
<1>1. t.exact \in BOOLEAN
  BY DEF TargetType
<1>2. NameLeft(ix, t) \subseteq RoleLeft(ix, t)
  BY <1>1, NarrowByTextIs DEF NameLeft
<1>3. LabelLeft(ix, t) \subseteq NameLeft(ix, t)
  BY NarrowByTextIs DEF LabelLeft
<1>4. Left(ix, t) \subseteq LabelLeft(ix, t)
  BY DEF Left, Nearest
<1>5. WithinLeft(ix, t) \subseteq Nodes(ix)
  BY DEF WithinLeft, Inside
<1>6. RoleLeft(ix, t) \subseteq WithinLeft(ix, t)
  BY DEF RoleLeft
<1> QED
  BY <1>2, <1>3, <1>4, <1>5, <1>6

\* One criterion: not asked for, it changes nothing; and once one has left
\* nothing, none is tried.
LEMMA NarrowIs ==
  ASSUME NEW so, NEW wanted, NEW strategy, NEW left,
         so.failed \in BOOLEAN, so.failed => so.left = {},
         wanted # Absent => left \subseteq so.left
  PROVE  LET to == Narrow(so, wanted, strategy, left)
         IN /\ to.failed \in BOOLEAN
            /\ to.left = IF wanted = Absent THEN so.left ELSE left
            /\ to.failed => to.left = {}
            /\ so.failed => to = so
            /\ ~so.failed /\ to.failed =>
                 to.by = strategy /\ to.offered = so.left /\ wanted # Absent /\ to.left = {}
            /\ ~to.failed => /\ ~so.failed
                             /\ to.by = IF wanted = Absent THEN so.by ELSE strategy
                             /\ wanted # Absent => to.left # {}
<1>1. CASE so.failed
  BY <1>1 DEF Narrow
<1>2. CASE ~so.failed /\ wanted = Absent
  BY <1>2 DEF Narrow
<1>3. CASE ~so.failed /\ wanted # Absent
  <2> DEFINE to == [left |-> left, offered |-> so.left, by |-> strategy, failed |-> left = {}]
  <2>1. Narrow(so, wanted, strategy, left) = to
    BY <1>3 DEF Narrow
  <2>2. to.left = left /\ to.offered = so.left /\ to.by = strategy /\ to.failed = (left = {})
    OBVIOUS
  <2> HIDE DEF to
  <2> QED
    BY <1>3, <2>1, <2>2
<1> QED
  BY <1>1, <1>2, <1>3
\* A resolution keeps what every criterion leaves, and when that is nothing the
\* report names the first criterion to leave nothing.
LEMMA NarrowingIs ==
  ASSUME NEW ix, NEW t \in TargetType
  PROVE  LET so == Narrowing(ix, t, TRUE)
         IN /\ so.left = Left(ix, t)
            /\ so.left = {} =>
                 \/ so.by = Absent
                 \/ so.by = "within" /\ FailsWithin(ix, t)
                 \/ so.by = "role" /\ FailsRole(ix, t) /\ ~FailsWithin(ix, t)
                      /\ so.offered = WithinLeft(ix, t)
                 \/ so.by = "name" /\ FailsName(ix, t) /\ ~FailsRole(ix, t) /\ ~FailsWithin(ix, t)
                 \/ so.by = "label" /\ FailsLabel(ix, t)
                      /\ ~FailsName(ix, t) /\ ~FailsRole(ix, t) /\ ~FailsWithin(ix, t)
                 \/ so.by = "textNear" /\ FailsText(ix, t) /\ ~FailsLabel(ix, t)
                      /\ ~FailsName(ix, t) /\ ~FailsRole(ix, t) /\ ~FailsWithin(ix, t)
<1> DEFINE s0 == Unnarrowed(ix)
           w1 == IF t.within = Absent THEN {} ELSE Inside(ix, Nodes(ix), ScopeOf(ix, t.within, TRUE))
           s1 == Narrow(s0, t.within, "within", w1)
           w2 == {n \in s1.left : ix.node[n].role = t.role}
           s2 == Narrow(s1, t.role, "role", w2)
           w3 == IF t.name = Absent THEN {}
                 ELSE NarrowByText(s2.left, t.name, Names(ix), t.exact, TRUE).found
           s3 == Narrow(s2, t.name, "name", w3)
           w4 == IF t.label = Absent THEN {}
                 ELSE NarrowByText(s3.left, t.label, Labels(ix), FALSE, FALSE).found
           s4 == Narrow(s3, t.label, "label", w4)
           w5 == IF t.textNear = Absent THEN {} ELSE Nearest(ix, s4.left, t.textNear)
           s5 == Narrow(s4, t.textNear, "textNear", w5)
<1>1. Narrowing(ix, t, TRUE) = s5
  BY DEF Narrowing
<1>2. s0.failed \in BOOLEAN /\ ~s0.failed /\ s0.left = Nodes(ix) /\ s0.by = Absent
  BY DEF Unnarrowed
<1>3. w1 \subseteq s0.left
  BY DEF Inside, Unnarrowed
<1>4. w2 \subseteq s1.left
  OBVIOUS
<1>5. w3 \subseteq s2.left
  <2>1. t.exact \in BOOLEAN
    BY DEF TargetType
  <2> HIDE DEF s2
  <2> QED
    BY <2>1, NarrowByTextIs
<1>6. w4 \subseteq s3.left
  <2> HIDE DEF s3
  <2> QED
    BY NarrowByTextIs
<1>7. w5 \subseteq s4.left
  <2> HIDE DEF s4
  <2> QED
    BY DEF Nearest
<1> HIDE DEF s0, w1, w2, w3, w4, w5
<1>8. /\ s1.failed \in BOOLEAN /\ s1.left = WithinLeft(ix, t)
      /\ s1.failed => s1.by = "within" /\ FailsWithin(ix, t) /\ s1.left = {}
      /\ ~s1.failed => ~FailsWithin(ix, t)
  <2>1. s1.left = IF t.within = Absent THEN s0.left ELSE w1
    BY <1>2, <1>3, NarrowIs
  <2>2. s1.left = WithinLeft(ix, t)
    BY <1>2, <2>1 DEF WithinLeft, w1
  <2> QED
    BY <1>2, <1>3, <2>2, NarrowIs DEF FailsWithin
<1> HIDE DEF s1
<1>9. /\ s2.failed \in BOOLEAN /\ s2.left = RoleLeft(ix, t)
      /\ s2.failed => /\ s2.left = {}
                      /\ \/ s2 = s1 /\ s1.failed
                         \/ s2.by = "role" /\ FailsRole(ix, t) /\ s2.offered = s1.left /\ ~s1.failed
      /\ ~s2.failed => ~FailsRole(ix, t) /\ ~s1.failed
  <2>1. s2.left = IF t.role = Absent THEN s1.left ELSE w2
    BY <1>8, <1>4, NarrowIs
  <2>2. s2.left = RoleLeft(ix, t)
    BY <1>8, <2>1 DEF RoleLeft, w2
  <2> QED
    BY <1>8, <1>4, <2>2, NarrowIs DEF FailsRole
<1> HIDE DEF s2
<1>10. /\ s3.failed \in BOOLEAN /\ s3.left = NameLeft(ix, t)
       /\ s3.failed => /\ s3.left = {}
                       /\ \/ s3 = s2 /\ s2.failed
                          \/ s3.by = "name" /\ FailsName(ix, t) /\ ~s2.failed
       /\ ~s3.failed => ~FailsName(ix, t) /\ ~s2.failed
  <2>1. s3.left = IF t.name = Absent THEN s2.left ELSE w3
    BY <1>9, <1>5, NarrowIs
  <2>2. s3.left = NameLeft(ix, t)
    BY <1>9, <2>1 DEF NameLeft, w3
  <2> QED
    BY <1>9, <1>5, <2>2, NarrowIs DEF FailsName
<1> HIDE DEF s3
<1>11. /\ s4.failed \in BOOLEAN /\ s4.left = LabelLeft(ix, t)
       /\ s4.failed => /\ s4.left = {}
                       /\ \/ s4 = s3 /\ s3.failed
                          \/ s4.by = "label" /\ FailsLabel(ix, t) /\ ~s3.failed
       /\ ~s4.failed => ~FailsLabel(ix, t) /\ ~s3.failed
  <2>1. s4.left = IF t.label = Absent THEN s3.left ELSE w4
    BY <1>10, <1>6, NarrowIs
  <2>2. s4.left = LabelLeft(ix, t)
    BY <1>10, <2>1 DEF LabelLeft, w4
  <2> QED
    BY <1>10, <1>6, <2>2, NarrowIs DEF FailsLabel
<1> HIDE DEF s4
<1>12. /\ s5.failed \in BOOLEAN /\ s5.left = Left(ix, t)
       /\ s5.failed => /\ s5.left = {}
                       /\ \/ s5 = s4 /\ s4.failed
                          \/ s5.by = "textNear" /\ FailsText(ix, t) /\ ~s4.failed
       /\ ~s5.failed => ~s4.failed
  <2>1. s5.left = IF t.textNear = Absent THEN s4.left ELSE w5
    BY <1>11, <1>7, NarrowIs
  <2>2. s5.left = Left(ix, t)
    BY <1>11, <2>1 DEF Left, w5
  <2> QED
    BY <1>11, <1>7, <2>2, NarrowIs DEF FailsText
<1>13. s5.left = {} /\ ~s5.failed => s5.by = Absent
  <2> SUFFICES ASSUME s5.left = {}, ~s5.failed PROVE s5.by = Absent
    OBVIOUS
  <2>1. t.textNear = Absent /\ s4.left = {} /\ ~s4.failed /\ s5.by = s4.by
    BY <1>11, <1>7, NarrowIs
  <2>2. t.label = Absent /\ s3.left = {} /\ ~s3.failed /\ s4.by = s3.by
    BY <2>1, <1>10, <1>6, NarrowIs DEF s4
  <2>3. t.name = Absent /\ s2.left = {} /\ ~s2.failed /\ s3.by = s2.by
    BY <2>2, <1>9, <1>5, NarrowIs DEF s3
  <2>4. t.role = Absent /\ s1.left = {} /\ ~s1.failed /\ s2.by = s1.by
    BY <2>3, <1>8, <1>4, NarrowIs DEF s2
  <2>5. t.within = Absent /\ s1.by = s0.by
    BY <2>4, <1>2, <1>3, NarrowIs DEF s1
  <2> QED
    BY <2>1, <2>2, <2>3, <2>4, <2>5, <1>2
<1> HIDE DEF s5
<1> QED
  BY <1>1, <1>8, <1>9, <1>10, <1>11, <1>12, <1>13
-----------------------------------------------------------------------------
\* What a resolution answers

Candidates(ix, t) == Innermost(ix, Left(ix, t))
Matches(ix, t) == InOrder(Candidates(ix, t))

LEMMA MatchesIs ==
  ASSUME NEW ix, Indexed(ix), NEW t \in TargetType
  PROVE  /\ Left(ix, t) \subseteq Nodes(ix) /\ Candidates(ix, t) \subseteq Left(ix, t)
         /\ Matches(ix, t) \in Seq(Candidates(ix, t)) /\ Matches(ix, t) \in Seq(Nodes(ix))
         /\ ToSet(Matches(ix, t)) = Candidates(ix, t)
         /\ Matches(ix, t) = <<>> <=> Left(ix, t) = {}
         /\ \A i \in 1..Len(Matches(ix, t)) : Matches(ix, t)[i] \in Candidates(ix, t)
         /\ Len(Matches(ix, t)) = 1 => Candidates(ix, t) = {Matches(ix, t)[1]}
<1> DEFINE C == Candidates(ix, t)
           s == Matches(ix, t)
<1>1. Left(ix, t) \subseteq Nodes(ix)
  BY LeftIs
<1>2. C \subseteq Left(ix, t) /\ (C = {} <=> Left(ix, t) = {})
  BY <1>1, InnermostIs DEF Candidates
<1>3. Len(ix.node) \in Nat /\ Nodes(ix) = 1..Len(ix.node)
  BY IndexedIs
<1>4. C \subseteq 1..Len(ix.node)
  BY <1>1, <1>2, <1>3
<1>5. s \in Seq(C) /\ ToSet(s) = C /\ (s = <<>> <=> C = {})
  <2> HIDE DEF C
  <2> QED
    BY <1>3, <1>4, InOrderIs DEF Matches, C
<1>6. s \in Seq(Nodes(ix))
  BY <1>1, <1>2, <1>5
<1>7. \A i \in 1..Len(s) : s[i] \in C
  <2> HIDE DEF s, C
  <2> QED
    BY <1>5
<1>8. Len(s) = 1 => C = {s[1]}
  <2> HIDE DEF s, C
  <2>1. C = {s[i] : i \in DOMAIN s} /\ DOMAIN s = 1..Len(s)
    BY <1>5 DEF ToSet
  <2> QED
    BY <2>1
<1> QED
  BY <1>1, <1>2, <1>5, <1>6, <1>7, <1>8

\* The four ways a resolution ends.
LEMMA ResolveIs ==
  ASSUME NEW ix, Indexed(ix), NEW t \in TargetType
  PROVE  LET a == ResolveTargetIn(ix, t, TRUE)
             s == Matches(ix, t)
             so == Narrowing(ix, t, TRUE)
         IN \/ s = <<>> /\ a = NotFound(ix, t, so.by, so.offered)
            \/ /\ s # <<>> /\ t.nth # Absent /\ t.nth < Len(s)
               /\ a = Found(s[t.nth + 1], s)
            \/ /\ s # <<>> /\ t.nth # Absent /\ ~ (t.nth < Len(s))
               /\ a = NotFound(ix, t, "ordinal", Candidates(ix, t))
            \/ /\ s # <<>> /\ t.nth = Absent /\ Len(s) > 1
               /\ a = [NoAnswer EXCEPT !.tag = "Ambiguous", !.matches = s, !.remedy = RemedyFor(ix, t, s)]
            \/ /\ s # <<>> /\ t.nth = Absent /\ Len(s) = 1
               /\ a = Found(s[1], s)
<1> DEFINE so == Narrowing(ix, t, TRUE)
           s == InOrder(Innermost(ix, so.left))
           a == ResolveTargetIn(ix, t, TRUE)
<1>1. s = Matches(ix, t)
  BY NarrowingIs DEF Matches, Candidates
<1>2. a = CASE s = <<>> -> NotFound(ix, t, so.by, so.offered)
            [] s # <<>> /\ t.nth # Absent ->
                 IF t.nth < Len(s) THEN Found(s[t.nth + 1], s)
                 ELSE NotFound(ix, t, "ordinal", ToSet(s))
            [] Len(s) > 1 /\ t.nth = Absent ->
                 [NoAnswer EXCEPT !.tag = "Ambiguous", !.matches = s, !.remedy = RemedyFor(ix, t, s)]
            [] OTHER -> Found(s[1], s)
  BY DEF ResolveTargetIn
<1>3. s \in Seq(Nodes(ix)) /\ ToSet(s) = Candidates(ix, t)
  BY <1>1, MatchesIs
<1> HIDE DEF a, s, so
<1>4. Len(s) \in Nat /\ (s = <<>> <=> Len(s) = 0)
  BY <1>3
<1>5. CASE s = <<>>
  <2>1. ~ (Len(s) > 1)
    BY <1>4, <1>5
  <2>2. a = NotFound(ix, t, so.by, so.offered)
    BY <1>2, <1>5, <2>1
  <2> QED
    BY <1>1, <1>5, <2>2 DEF a, so
<1>6. CASE s # <<>> /\ t.nth # Absent
  <2>1. a = IF t.nth < Len(s) THEN Found(s[t.nth + 1], s) ELSE NotFound(ix, t, "ordinal", ToSet(s))
    BY <1>2, <1>6
  <2> QED
    BY <1>1, <1>3, <1>6, <2>1 DEF a
<1>7. CASE s # <<>> /\ t.nth = Absent /\ Len(s) > 1
  <2>1. a = [NoAnswer EXCEPT !.tag = "Ambiguous", !.matches = s, !.remedy = RemedyFor(ix, t, s)]
    BY <1>2, <1>7
  <2> QED
    BY <1>1, <1>7, <2>1 DEF a
<1>8. CASE s # <<>> /\ t.nth = Absent /\ ~ (Len(s) > 1)
  <2>1. a = Found(s[1], s)
    BY <1>2, <1>8
  <2>2. Len(s) = 1
    BY <1>4, <1>8
  <2> QED
    BY <1>1, <1>8, <2>1, <2>2 DEF a
<1> QED
  BY <1>5, <1>6, <1>7, <1>8

\* What a Target describes is what its first four criteria leave: the order they
\* are tried in, and the rungs, come to conditions and contests.
LEMMA DescribedIs ==
  ASSUME NEW ix, Indexed(ix), NEW t \in TargetType
  PROVE  Described(ix, t) = LabelLeft(ix, t)
<1> DEFINE scoped == {n \in Nodes(ix) :
                        /\ t.role \in {Absent, ix.node[n].role}
                        /\ \/ t.within = Absent
                           \/ Lineage(ix, n) \cap ScopeOf(ix, t.within, TRUE) # {}}
           named == IF t.name = Absent THEN scoped
                    ELSE Best(scoped, [n \in scoped |-> Rung(Identity(ix.node[n]), t.name, t.exact, TRUE)])
<1>1. Described(ix, t) =
        IF t.label = Absent THEN named
        ELSE Best(named, [n \in named |-> Rung(Text(LabelOf(ix, n)), t.label, FALSE, FALSE)])
  BY DEF Described
<1>2. \A n \in Nodes(ix) : n # Root
  BY IndexedIs
<1>3. \A n \in Nodes(ix) :
        t.within # Absent =>
          (n \in WithinLeft(ix, t) <=> Lineage(ix, n) \cap ScopeOf(ix, t.within, TRUE) # {})
  BY <1>2 DEF WithinLeft, Inside, Lineage, IsAncestorOf
<1>4. WithinLeft(ix, t) \subseteq Nodes(ix) /\ (t.within = Absent => WithinLeft(ix, t) = Nodes(ix))
  BY LeftIs DEF WithinLeft
<1>5. scoped = RoleLeft(ix, t)
  BY <1>3, <1>4 DEF RoleLeft
<1>6. RoleLeft(ix, t) \subseteq Nodes(ix) /\ NameLeft(ix, t) \subseteq Nodes(ix)
  BY LeftIs
<1>7. t.exact \in BOOLEAN
  BY DEF TargetType
<1> HIDE DEF scoped
<1>8. \A n \in Nodes(ix) : Text(Names(ix)[n]) = Identity(ix.node[n])
  BY IndexedIs, TextIs DEF Names
<1>9. \A n \in Nodes(ix) : Text(Labels(ix)[n]) = Text(LabelOf(ix, n))
  BY DEF Labels
<1>10. named = NameLeft(ix, t)
  <2>1. CASE t.name = Absent
    BY <1>5, <2>1 DEF NameLeft
  <2>2. CASE t.name # Absent
    <3> DEFINE R == RoleLeft(ix, t)
    <3>1. NarrowByText(R, t.name, Names(ix), t.exact, TRUE).found =
            Best(R, [n \in R |-> Rung(Text(Names(ix)[n]), t.name, t.exact, TRUE)])
      <4> HIDE DEF R
      <4>1. \A e \in BOOLEAN :
              NarrowByText(R, t.name, Names(ix), t.exact, e).found =
                Best(R, [n \in R |-> Rung(Text(Names(ix)[n]), t.name, t.exact, e)])
        BY <1>7, NarrowByTextBest
      <4> QED
        BY <4>1
    <3>2. [n \in R |-> Rung(Text(Names(ix)[n]), t.name, t.exact, TRUE)] =
            [n \in R |-> Rung(Identity(ix.node[n]), t.name, t.exact, TRUE)]
      BY <1>6, <1>8
    <3> QED
      BY <1>5, <2>2, <3>1, <3>2 DEF NameLeft
  <2> QED
    BY <2>1, <2>2
<1> HIDE DEF named
<1>11. CASE t.label = Absent
  BY <1>1, <1>10, <1>11 DEF LabelLeft
<1>12. CASE t.label # Absent
  <2> DEFINE R == NameLeft(ix, t)
  <2>1. NarrowByText(R, t.label, Labels(ix), FALSE, FALSE).found =
          Best(R, [n \in R |-> Rung(Text(Labels(ix)[n]), t.label, FALSE, FALSE)])
    <3> HIDE DEF R
    <3>1. \A e \in BOOLEAN :
            NarrowByText(R, t.label, Labels(ix), e, e).found =
              Best(R, [n \in R |-> Rung(Text(Labels(ix)[n]), t.label, e, e)])
      BY NarrowByTextBest
    <3> QED
      BY <3>1
  <2>2. [n \in R |-> Rung(Text(Labels(ix)[n]), t.label, FALSE, FALSE)] =
          [n \in R |-> Rung(Text(LabelOf(ix, n)), t.label, FALSE, FALSE)]
    BY <1>6, <1>9
  <2> QED
    BY <1>1, <1>10, <1>12, <2>1, <2>2 DEF LabelLeft
<1> QED
  BY <1>11, <1>12
-----------------------------------------------------------------------------
\* The types of what is answered

\* Texts one after the other make a text.
LEMMA FlattenIs ==
  ASSUME NEW seqs \in Seq(Texts)
  PROVE  FlattenSeq(seqs) \in Texts
<1> DEFINE N == Len(seqs)
           Said(g, i) == IF i = 1 THEN seqs[i] ELSE g[i - 1] \o seqs[i]
           Is(g, k) == g = [i \in 1..k |-> g[i]] /\ \A i \in 1..k : g[i] = Said(g, i) /\ g[i] \in Texts
           T == {k \in Nat : k <= N /\ ~\E g : Is(g, k)}
           flat == CHOOSE g : g = [i \in 1..N |-> Said(g, i)]
<1>1. N \in Nat /\ \A i \in 1..N : seqs[i] \in Texts
  OBVIOUS
<1>2. \A s, u \in Texts : s \o u \in Texts
  BY DEF Texts
<1>3. T = {}
  <2> SUFFICES ASSUME T # {} PROVE FALSE
    OBVIOUS
  <2>1. PICK k \in T : \A m \in T : k <= m
    <3>1. T \subseteq Nat
      OBVIOUS
    <3> HIDE DEF T
    <3> QED
      BY <3>1, Least
  <2>2. k \in Nat /\ k <= N /\ ~\E g : Is(g, k)
    BY <2>1
  <2>3. k # 0
    <3>1. Is([i \in 1..0 |-> {}], 0)
      OBVIOUS
    <3> HIDE DEF Is
    <3> QED
      BY <2>2, <3>1
  <2>4. \E g : Is(g, k - 1)
    <3>1. k - 1 \in Nat /\ k - 1 <= N /\ ~ (k <= k - 1)
      BY <1>1, <2>2, <2>3
    <3>2. k - 1 \notin T
      BY <2>1, <3>1
    <3> HIDE DEF Is
    <3> QED
      BY <3>1, <3>2
  <2>5. PICK g : Is(g, k - 1)
    BY <2>4
  <2> DEFINE h == [i \in 1..k |-> IF i = k THEN Said(g, k) ELSE g[i]]
  <2>6. \A i \in 1..k : h[i] = Said(g, i)
    <3>1. \A i \in 1..k : i # k => i \in 1..(k - 1)
      BY <2>2
    <3> QED
      BY <2>5, <3>1
  <2>7. \A i \in 1..k : Said(h, i) = Said(g, i)
    <3> TAKE i \in 1..k
    <3>1. i # 1 => i - 1 \in 1..k /\ i - 1 # k
      BY <2>2
    <3>2. i # 1 => h[i - 1] = g[i - 1]
      BY <3>1
    <3> HIDE DEF h
    <3> QED
      BY <3>2
  <2>8. \A i \in 1..k : Said(g, i) \in Texts
    <3> TAKE i \in 1..k
    <3>1. seqs[i] \in Texts
      BY <1>1, <2>2
    <3>2. i # 1 => g[i - 1] \in Texts
      <4>1. i # 1 => i - 1 \in 1..(k - 1)
        BY <2>2
      <4> QED
        BY <2>5, <4>1
    <3> QED
      BY <1>2, <3>1, <3>2
  <2>9. Is(h, k)
    <3>1. h = [i \in 1..k |-> h[i]]
      OBVIOUS
    <3> HIDE DEF h, Said
    <3> QED
      BY <2>6, <2>7, <2>8, <3>1
  <2> HIDE DEF Is
  <2> QED
    BY <2>2, <2>9
<1>4. PICK g : Is(g, N)
  <2>1. N \notin T
    BY <1>3, Zenon
  <2> HIDE DEF Is
  <2> QED
    BY <1>1, <2>1
<1>5. \E f : f = [i \in 1..N |-> Said(f, i)]
  <2>1. g = [i \in 1..N |-> g[i]] /\ \A i \in 1..N : g[i] = Said(g, i)
    BY <1>4
  <2> HIDE DEF Said
  <2>2. g = [i \in 1..N |-> Said(g, i)]
    BY <2>1
  <2> QED
    BY <2>2
<1>6. flat = [i \in 1..N |-> Said(flat, i)]
  BY <1>5
<1>7. \A i \in 1..N : flat[i] = Said(flat, i)
  <2> DEFINE r == [i \in 1..N |-> Said(flat, i)]
  <2>1. \A i \in 1..N : r[i] = Said(flat, i)
    OBVIOUS
  <2>2. flat = r
    BY <1>6
  <2> HIDE DEF r, flat
  <2> QED
    BY <2>1, <2>2
<1> HIDE DEF flat
<1>8. \A i \in 1..N : flat[i] \in Texts
  <2> DEFINE U == {i \in 1..N : flat[i] \notin Texts}
  <2> SUFFICES ASSUME U # {} PROVE FALSE
    OBVIOUS
  <2>1. PICK i \in U : \A m \in U : i <= m
    <3>1. U \subseteq Nat
      OBVIOUS
    <3> HIDE DEF U
    <3> QED
      BY <3>1, Least
  <2>2. i \in 1..N /\ flat[i] \notin Texts /\ flat[i] = Said(flat, i)
    BY <1>7, <2>1
  <2>3. i # 1
    BY <1>1, <2>2
  <2>4. i - 1 \in 1..N /\ ~ (i <= i - 1)
    BY <1>1, <2>2, <2>3
  <2>5. flat[i - 1] \in Texts
    BY <2>1, <2>4
  <2> QED
    BY <1>1, <1>2, <2>2, <2>3, <2>5
<1>9. FlattenSeq(seqs) = IF N = 0 THEN seqs ELSE flat[N]
  BY DEF FlattenSeq, flat
<1>10. N = 0 => seqs \in Texts
  BY DEF Texts
<1> QED
  BY <1>1, <1>8, <1>9, <1>10
LEMMA LabelTextIs ==
  ASSUME NEW ix, Indexed(ix), NEW n \in Nodes(ix)
  PROVE  LabelTextOf(ix, n) \in Texts
<1> DEFINE S == Subtree(ix, n)
           s == [i \in 1..Cardinality(S) |-> OwnText(ix.node[InOrder(S)[i]])]
<1>1. Len(ix.node) \in Nat /\ Nodes(ix) = 1..Len(ix.node)
  BY IndexedIs
<1>2. S \subseteq Nodes(ix)
  BY DEF Subtree
<1>3. InOrder(S) \in Seq(S) /\ Len(InOrder(S)) = Cardinality(S) /\ Cardinality(S) \in Nat
  <2> HIDE DEF S
  <2> QED
    BY <1>1, <1>2, InOrderIs
<1>4. \A i \in 1..Cardinality(S) : InOrder(S)[i] \in Nodes(ix)
  <2> HIDE DEF S
  <2> QED
    BY <1>2, <1>3
<1>5. \A i \in 1..Cardinality(S) : OwnText(ix.node[InOrder(S)[i]]) \in Texts
  BY <1>4, IndexedIs, TextIs
<1>6. s \in Seq(Texts)
  <2> HIDE DEF S
  <2> QED
    BY <1>3, <1>5
<1>7. FlattenSeq(s) \in Texts
  <2> HIDE DEF s
  <2> QED
    BY <1>6, FlattenIs
<1>8. NodeText(ix, n) \in Texts
  BY <1>7 DEF NodeText
<1> QED
  BY <1>8, IndexedIs, TextIs DEF LabelTextOf

LEMMA ScopedIs ==
  ASSUME NEW t \in TargetType
  PROVE  /\ Unscoped(t) \in TargetType
         /\ \A heading \in Optional(Texts) : Scoped(t, heading) \in TargetType
<1>1. Absent \in Optional(ScopeType) /\ Absent \in Optional(STRING)
  BY DEF Optional
<1>2. \A heading \in Optional(Texts) : [role |-> Absent, name |-> heading] \in Optional(ScopeType)
  BY <1>1 DEF ScopeType, Optional
<1> QED
  BY <1>1, <1>2 DEF Scoped, Unscoped, TargetType

LEMMA ReachForType ==
  ASSUME NEW ix, Indexed(ix), NEW t \in TargetType, NEW n \in Nodes(ix)
  PROVE  ReachFor(ix, t, n) \subseteq TargetType
<1> DEFINE there == [t EXCEPT !.role = ix.node[n].role]
<1>1. ix.node[n].role \in Optional(STRING)
  BY IndexedIs DEF NodeType, Optional
<1>2. there \in TargetType
  BY <1>1 DEF TargetType
<1>3. RegionOf(ix, n) \in Optional(Texts)
  BY RegionIs DEF Optional
<1>4. ReachFor(ix, t, n) =
        {Unscoped(there)} \cup (IF RegionOf(ix, n) = <<>> THEN {} ELSE {Scoped(there, RegionOf(ix, n))})
  BY DEF ReachFor
<1> HIDE DEF there
<1> QED
  BY <1>2, <1>3, <1>4, ScopedIs

LEMMA RegionAdviceType ==
  ASSUME NEW ix, Indexed(ix), NEW t \in TargetType
  PROVE  RegionAdvice(ix, t) \subseteq TargetType
<1>1. RegionsOffered(ix) \subseteq Optional(Texts)
  BY RegionIs DEF Optional
<1> QED
  BY <1>1, ScopedIs DEF RegionAdvice

\* The Targets a report advises are Targets.
LEMMA RemedyForUnresolvedType ==
  ASSUME NEW ix, Indexed(ix), NEW t \in TargetType,
         NEW strategy \in Strategies \cup {Absent}, NEW offered, offered \subseteq Nodes(ix),
         strategy = "within" => t.within # Absent
  PROVE  RemedyForUnresolved(ix, t, strategy, offered) \subseteq TargetType
<1>1. Absent \in Optional(Texts) /\ Absent \in Optional(Nat) /\ Absent \notin Strategies
  BY AbsentAssumption DEF Optional
<1>2. CASE strategy = "within"
  <2>1. t.within \in ScopeType
    BY <1>2 DEF TargetType, Optional
  <2>2. t.within.name \in Optional(Texts)
    BY <2>1 DEF ScopeType
  <2>3. WithinRemedy(ix, t) \subseteq TargetType
    BY <2>2, ScopedIs, RegionAdviceType DEF WithinRemedy
  <2> QED
    BY <1>1, <1>2, <2>3 DEF RemedyForUnresolved, Strategies
<1>3. CASE strategy = "role"
  <2>1. \A n \in offered : ix.node[n].role \in Optional(STRING)
    BY IndexedIs DEF NodeType, Optional
  <2>2. \A n \in offered : [t EXCEPT !.role = ix.node[n].role] \in TargetType
    BY <2>1 DEF TargetType
  <2>3. RoleRemedy(ix, t, offered) \subseteq TargetType
    BY <2>2, ScopedIs DEF RoleRemedy
  <2> QED
    BY <1>1, <1>3, <2>3 DEF RemedyForUnresolved, Strategies
<1>4. CASE strategy = "name"
  <2> DEFINE found == NarrowByText(Nodes(ix), t.name, Names(ix), t.exact, TRUE).found
             caption == [t EXCEPT !.name = Absent, !.label = t.name]
             n == Min(found)
  <2>1. t.exact \in BOOLEAN /\ t.name \in Optional(Texts)
    BY DEF TargetType
  <2>2. found \subseteq Nodes(ix)
    BY <2>1, NarrowByTextIs
  <2>3. found # {} => n \in Nodes(ix)
    <3> HIDE DEF found
    <3>1. found \subseteq Nat
      BY <2>2, IndexedIs
    <3> QED
      BY <2>2, <3>1, MinOf
  <2>4. caption \in TargetType
    BY <1>1, <2>1 DEF TargetType
  <2>5. found # {} => [caption EXCEPT !.role = ix.node[n].role] \in TargetType
    <3>1. found # {} => ix.node[n].role \in Optional(STRING)
      BY <2>3, IndexedIs DEF NodeType, Optional
    <3> HIDE DEF caption, found, n
    <3> QED
      BY <2>4, <3>1 DEF TargetType
  <2>6. [t EXCEPT !.exact = FALSE] \in TargetType
    BY DEF TargetType
  <2>7. \/ NameRemedy(ix, t) \subseteq
             ReachFor(ix, t, n) \cup {Unscoped([caption EXCEPT !.role = ix.node[n].role])} /\ found # {}
        \/ NameRemedy(ix, t) = {[t EXCEPT !.exact = FALSE]}
        \/ NameRemedy(ix, t) = {caption}
    BY DEF NameRemedy
  <2> HIDE DEF found, caption, n
  <2>8. NameRemedy(ix, t) \subseteq TargetType
    BY <2>3, <2>4, <2>5, <2>6, <2>7, ReachForType, ScopedIs
  <2> QED
    BY <1>1, <1>4, <2>8 DEF RemedyForUnresolved, Strategies
<1>5. CASE strategy = "label"
  <2> DEFINE found == NarrowByText(Nodes(ix), t.label, Labels(ix), FALSE, FALSE).found
  <2>1. found \subseteq Nodes(ix)
    BY NarrowByTextIs
  <2>2. found # {} => Min(found) \in Nodes(ix)
    <3> HIDE DEF found
    <3>1. found \subseteq Nat
      BY <2>1, IndexedIs
    <3> QED
      BY <2>1, <3>1, MinOf
  <2>3. [t EXCEPT !.name = Absent] \in TargetType
    BY <1>1 DEF TargetType
  <2>4. LabelRemedy(ix, t) = IF found = {} THEN {} ELSE ReachFor(ix, [t EXCEPT !.name = Absent], Min(found))
    BY DEF LabelRemedy
  <2> HIDE DEF found
  <2>5. LabelRemedy(ix, t) \subseteq TargetType
    BY <2>2, <2>3, <2>4, ReachForType
  <2> QED
    BY <1>1, <1>5, <2>5 DEF RemedyForUnresolved, Strategies
<1>6. CASE strategy = "textNear"
  <2>1. [t EXCEPT !.textNear = Absent] \in TargetType
    BY <1>1 DEF TargetType
  <2> QED
    BY <1>1, <1>6, <2>1 DEF RemedyForUnresolved, Strategies
<1>7. CASE strategy = "ordinal"
  <2>1. [t EXCEPT !.nth = Absent] \in TargetType
    BY <1>1 DEF TargetType
  <2> QED
    BY <1>1, <1>7, <2>1 DEF RemedyForUnresolved, Strategies
<1>8. CASE strategy = Absent
  BY <1>1, <1>8 DEF RemedyForUnresolved, Strategies
<1> QED
  BY <1>2, <1>3, <1>4, <1>5, <1>6, <1>7, <1>8 DEF Strategies

LEMMA RemedyForType ==
  ASSUME NEW ix, Indexed(ix), NEW t \in TargetType, NEW matches \in Seq(Nodes(ix))
  PROVE  RemedyFor(ix, t, matches) \subseteq TargetType
<1> DEFINE regions == [i \in DOMAIN matches |-> RegionOf(ix, matches[i])]
<1>1. \A i \in DOMAIN matches : i \in Nat /\ i >= 1 /\ matches[i] \in Nodes(ix)
  OBVIOUS
<1>2. \A i \in DOMAIN matches : [t EXCEPT !.nth = i - 1] \in TargetType
  <2>1. \A i \in DOMAIN matches : i - 1 \in Optional(Nat)
    BY <1>1 DEF Optional
  <2> QED
    BY <2>1 DEF TargetType
<1>3. \A region \in Range(regions) : Scoped(t, region) \in TargetType
  <2>1. \A region \in Range(regions) : region \in Optional(Texts)
    BY <1>1, RegionIs DEF Range, Optional
  <2> QED
    BY <2>1, ScopedIs
<1>4. RemedyFor(ix, t, matches) \subseteq
        {[t EXCEPT !.nth = i - 1] : i \in DOMAIN matches} \cup {Scoped(t, region) : region \in Range(regions)}
  BY DEF RemedyFor
<1> HIDE DEF regions
<1> QED
  BY <1>2, <1>3, <1>4
LEMMA NoAnswerIs ==
  /\ NoAnswer.tag = "Unasked" /\ NoAnswer.node = Root /\ NoAnswer.matches = <<>>
  /\ NoAnswer.narrowedBy = Absent /\ NoAnswer.remedy = {}
BY DEF NoAnswer

LEMMA NoTargetIs ==
  /\ NoTarget \in TargetType
  /\ \A list \in [itemRole : STRING, within : Optional(ScopeType)], label \in Texts :
       LET t == TargetForItem(list, label)
       IN /\ t \in TargetType
          /\ t.role = list.itemRole /\ t.name = label /\ t.exact = TRUE /\ t.within = list.within
          /\ t.label = Absent /\ t.textNear = Absent /\ t.nth = Absent
<1>1. Absent \in Optional(STRING) /\ Absent \in Optional(Texts) /\ Absent \in Optional(ScopeType)
      /\ Absent \in Optional(Nat)
  BY DEF Optional
<1>2. \A role \in STRING : role \in Optional(STRING)
  BY DEF Optional
<1>3. \A label \in Texts : label \in Optional(Texts)
  BY DEF Optional
<1>4. NoTarget \in TargetType
  BY <1>1 DEF NoTarget, TargetType
<1> QED
  BY <1>1, <1>2, <1>3, <1>4 DEF NoTarget, TargetForItem, TargetType

\* A resolution answers with one of three tags; it names a node only when it
\* resolves, and what it advises are Targets.
LEMMA ResolveType ==
  ASSUME NEW ix, Indexed(ix), NEW t \in TargetType
  PROVE  LET a == ResolveTargetIn(ix, t, TRUE)
         IN /\ a.tag \in {"Resolved", "NotFound", "Ambiguous"}
            /\ a.node \in Nodes(ix) \cup {Root}
            /\ a.tag = "Resolved" <=> a.node # Root
            /\ a.matches \in Seq(Nodes(ix))
            /\ a.narrowedBy \in Strategies \cup {Absent}
            /\ a.remedy \subseteq TargetType
<1> DEFINE a == ResolveTargetIn(ix, t, TRUE)
           s == Matches(ix, t)
           so == Narrowing(ix, t, TRUE)
<1>1. /\ s \in Seq(Nodes(ix)) /\ (s = <<>> <=> Left(ix, t) = {})
      /\ Candidates(ix, t) \subseteq Nodes(ix)
  BY MatchesIs
<1>2. <<>> \in Seq(Nodes(ix)) /\ Root \notin Nodes(ix)
  BY IndexedIs
<1>3. \A i \in 1..Len(s) : s[i] \in Nodes(ix)
  <2> HIDE DEF s
  <2> QED
    BY <1>1
<1>4. \A n \in Nodes(ix) : LET f == Found(n, s)
                           IN /\ f.tag = "Resolved" /\ f.node = n /\ f.matches = s
                              /\ f.narrowedBy = Absent /\ f.remedy = {}
  <2> HIDE DEF s
  <2> QED
    BY DEF Found, NoAnswer
<1>5. \A by, offered : LET f == NotFound(ix, t, by, offered)
                       IN /\ f.tag = "NotFound" /\ f.node = Root /\ f.matches = <<>>
                          /\ f.narrowedBy = by /\ f.remedy = RemedyForUnresolved(ix, t, by, offered)
  BY DEF NotFound, NoAnswer
<1>6. CASE s = <<>> /\ a = NotFound(ix, t, so.by, so.offered)
  <2>1. /\ so.by \in Strategies \cup {Absent} /\ (so.by = "within" => t.within # Absent)
    BY <1>1, <1>6, NarrowingIs, AbsentAssumption DEF Strategies, FailsWithin
  <2>2. RemedyForUnresolved(ix, t, so.by, so.offered) \subseteq TargetType
    <3>1. CASE so.by # "role"
      <4>1. RemedyForUnresolved(ix, t, so.by, so.offered) = RemedyForUnresolved(ix, t, so.by, {})
        BY <2>1, <3>1, AbsentAssumption DEF RemedyForUnresolved, Strategies
      <4> HIDE DEF so
      <4> QED
        BY <2>1, <4>1, RemedyForUnresolvedType
    <3>2. CASE so.by = "role"
      <4>1. so.offered \subseteq Nodes(ix)
        BY <1>1, <1>6, <3>2, NarrowingIs, LeftIs, AbsentAssumption DEF Strategies
      <4> HIDE DEF so
      <4> QED
        BY <2>1, <4>1, RemedyForUnresolvedType
    <3> QED
      BY <3>1, <3>2
  <2>3. /\ a.tag = "NotFound" /\ a.node = Root /\ a.matches = <<>>
        /\ a.narrowedBy = so.by /\ a.remedy = RemedyForUnresolved(ix, t, so.by, so.offered)
    <3> HIDE DEF a, so, s
    <3> QED
      BY <1>5, <1>6
  <2> HIDE DEF a, so, s
  <2> QED
    BY <1>2, <2>1, <2>2, <2>3 DEF a
<1>7. CASE s # <<>> /\ t.nth # Absent /\ t.nth < Len(s) /\ a = Found(s[t.nth + 1], s)
  <2>1. t.nth \in Nat
    BY <1>7 DEF TargetType, Optional
  <2>2. t.nth + 1 \in 1..Len(s)
    <3> HIDE DEF s
    <3> QED
      BY <1>1, <1>7, <2>1
  <2> HIDE DEF a, s
  <2>3. /\ a.tag = "Resolved" /\ a.node \in Nodes(ix) /\ a.matches = s
        /\ a.narrowedBy = Absent /\ a.remedy = {}
    BY <1>3, <1>4, <1>7, <2>2
  <2> QED
    BY <1>1, <1>2, <2>3 DEF a
<1>8. CASE a = NotFound(ix, t, "ordinal", Candidates(ix, t))
  <2>1. "ordinal" \in Strategies
    BY DEF Strategies
  <2>2. RemedyForUnresolved(ix, t, "ordinal", Candidates(ix, t)) \subseteq TargetType
    BY <1>1, <2>1, RemedyForUnresolvedType
  <2> HIDE DEF a
  <2>3. /\ a.tag = "NotFound" /\ a.node = Root /\ a.matches = <<>> /\ a.narrowedBy = "ordinal"
        /\ a.remedy = RemedyForUnresolved(ix, t, "ordinal", Candidates(ix, t))
    BY <1>5, <1>8
  <2> QED
    BY <1>2, <2>1, <2>2, <2>3 DEF a
<1>9. CASE a = [NoAnswer EXCEPT !.tag = "Ambiguous", !.matches = s, !.remedy = RemedyFor(ix, t, s)]
  <2>1. RemedyFor(ix, t, s) \subseteq TargetType
    <3> HIDE DEF s
    <3> QED
      BY <1>1, RemedyForType
  <2>2. /\ a.tag = "Ambiguous" /\ a.node = Root /\ a.matches = s
        /\ a.narrowedBy = Absent /\ a.remedy = RemedyFor(ix, t, s)
    <3> HIDE DEF a, s
    <3> QED
      BY <1>9 DEF NoAnswer
  <2> QED
    BY <1>1, <1>2, <2>1, <2>2
<1>10. CASE s # <<>> /\ Len(s) = 1 /\ a = Found(s[1], s)
  <2> HIDE DEF a, s
  <2>1. /\ a.tag = "Resolved" /\ a.node \in Nodes(ix) /\ a.matches = s
        /\ a.narrowedBy = Absent /\ a.remedy = {}
    BY <1>3, <1>4, <1>10
  <2> QED
    BY <1>1, <1>2, <2>1 DEF a
<1> QED
  BY <1>6, <1>7, <1>8, <1>9, <1>10, ResolveIs

\* What a selection takes: an item is one of a list whose label carries every
\* word asked for, and it is chosen only when it is the one such.
Wanted(ix, request) ==
  {n \in ListItemsIn(ix, request.list) : IsTokenSubsetOf(request.wanted, LabelTextOf(ix, n))}

LEMMA ChooseIs ==
  ASSUME NEW ix, Indexed(ix), NEW request \in RequestType
  PROVE  LET a == ChooseItem(ix, request)
         IN /\ Wanted(ix, request) \subseteq Nodes(ix)
            /\ a.matches \in Seq(Nodes(ix)) /\ a.narrowedBy = Absent
            /\ \/ a.tag \in {"Declared", "NoMatch", "AmbiguousMatch"} /\ a.node = Root /\ a.remedy = {}
               \/ /\ a.tag = "Chosen" /\ a.node \in Nodes(ix) /\ a.node # Root
                  /\ Wanted(ix, request) = {a.node}
                  /\ a.remedy = {TargetForItem(request.list, LabelTextOf(ix, a.node))}
                  /\ TargetForItem(request.list, LabelTextOf(ix, a.node)) \in TargetType
<1> DEFINE a == ChooseItem(ix, request)
           C == Wanted(ix, request)
           s == InOrder(C)
<1>1. Len(ix.node) \in Nat /\ Nodes(ix) = 1..Len(ix.node) /\ Root \notin Nodes(ix)
  BY IndexedIs
<1>2. C \subseteq Nodes(ix)
  BY DEF Wanted, ListItemsIn, Innermost, Inside
<1>3. s \in Seq(C) /\ ToSet(s) = C
  <2> HIDE DEF C
  <2> QED
    BY <1>1, <1>2, InOrderIs
<1>4. s \in Seq(Nodes(ix)) /\ <<>> \in Seq(Nodes(ix))
  BY <1>2, <1>3
<1>5. Len(s) = 1 => C = {s[1]} /\ s[1] \in Nodes(ix)
  <2> HIDE DEF s, C
  <2>1. C = {s[i] : i \in DOMAIN s} /\ DOMAIN s = 1..Len(s)
    BY <1>3 DEF ToSet
  <2> QED
    BY <1>2, <2>1
<1>6. Len(s) \in Nat /\ (s = <<>> <=> Len(s) = 0)
  <2> HIDE DEF s
  <2> QED
    BY <1>4
<1>7. a = CASE s = <<>> ->
                 [NoAnswer EXCEPT !.tag = IF request.declared THEN "Declared" ELSE "NoMatch"]
            [] Len(s) > 1 -> [NoAnswer EXCEPT !.tag = "AmbiguousMatch", !.matches = s]
            [] Len(s) = 1 ->
                 [NoAnswer EXCEPT !.tag = "Chosen", !.node = s[1], !.matches = s,
                                  !.remedy = {TargetForItem(request.list, LabelTextOf(ix, s[1]))}]
  BY DEF ChooseItem, SelectFrom, Wanted
<1> HIDE DEF a, s
<1>8. CASE s = <<>>
  <2>1. a = [NoAnswer EXCEPT !.tag = IF request.declared THEN "Declared" ELSE "NoMatch"]
    BY <1>6, <1>7, <1>8
  <2>2. a.tag \in {"Declared", "NoMatch"} /\ a.node = Root /\ a.remedy = {}
        /\ a.matches = <<>> /\ a.narrowedBy = Absent
    BY <2>1 DEF NoAnswer
  <2> QED
    BY <1>2, <1>4, <2>2 DEF a
<1>9. CASE Len(s) > 1
  <2>1. a = [NoAnswer EXCEPT !.tag = "AmbiguousMatch", !.matches = s]
    <3>1. s # <<>> /\ Len(s) # 1
      BY <1>6, <1>9
    <3> QED
      BY <1>7, <1>9, <3>1
  <2>2. a.tag = "AmbiguousMatch" /\ a.node = Root /\ a.remedy = {}
        /\ a.matches = s /\ a.narrowedBy = Absent
    BY <2>1 DEF NoAnswer
  <2> QED
    BY <1>2, <1>4, <2>2 DEF a
<1>10. CASE Len(s) = 1
  <2> DEFINE t == TargetForItem(request.list, LabelTextOf(ix, s[1]))
  <2>1. a = [NoAnswer EXCEPT !.tag = "Chosen", !.node = s[1], !.matches = s, !.remedy = {t}]
    BY <1>6, <1>7, <1>10
  <2>2. a.tag = "Chosen" /\ a.node = s[1] /\ a.remedy = {t}
        /\ a.matches = s /\ a.narrowedBy = Absent
    BY <2>1 DEF NoAnswer
  <2>3. t \in TargetType
    <3>1. LabelTextOf(ix, s[1]) \in Texts
      BY <1>5, <1>10, LabelTextIs
    <3>2. request.list \in [itemRole : STRING, within : Optional(ScopeType)]
      BY DEF RequestType
    <3> QED
      BY <3>1, <3>2, NoTargetIs
  <2>4. C = {s[1]} /\ s[1] \in Nodes(ix) /\ s[1] # Root
    BY <1>1, <1>5, <1>10
  <2> HIDE DEF C
  <2> QED
    BY <1>2, <1>4, <2>2, <2>3, <2>4 DEF a, C
<1>11. s = <<>> \/ Len(s) > 1 \/ Len(s) = 1
  BY <1>6
<1> QED
  BY <1>8, <1>9, <1>10, <1>11
-----------------------------------------------------------------------------
\* The reader

\* The inductive invariant: the screen is one a snapshot may hold, and an answer is
\* what the code answers to the Target asked for last, or to a selection.
Answered ==
  /\ index \in {Index(tree) : tree \in Screens}
  /\ target \in TargetType
  /\ turns \in 0..MaxTurns
  /\ \/ answer = NoAnswer /\ turns = 0
     \/ answer = ResolveTargetIn(index, target, TRUE)
     \/ \E request \in Requests : answer = ChooseItem(index, request)

LEMMA ScreensIndexed ==
  ASSUME Answered
  PROVE  Indexed(index)
BY ScreenAssumption DEF Answered, Indexed

\* Which answers advise, and what was asked when they did.
LEMMA AnsweredIs ==
  ASSUME Answered
  PROVE  /\ answer.remedy \subseteq TargetType
         /\ answer.tag = "Unasked" => answer = NoAnswer /\ turns = 0
         /\ answer.tag \in {"Resolved", "NotFound", "Ambiguous"} =>
              answer = ResolveTargetIn(index, target, TRUE)
         /\ answer.tag = "Chosen" =>
              \E request \in Requests : answer = ChooseItem(index, request)
<1>1. Indexed(index) /\ target \in TargetType /\ Requests \subseteq RequestType
  BY ScreensIndexed, AskedAssumption DEF Answered
<1>2. CASE answer = NoAnswer /\ turns = 0
  BY <1>2, NoAnswerIs
<1>3. CASE answer = ResolveTargetIn(index, target, TRUE)
  <2>1. answer.remedy \subseteq TargetType /\ answer.tag \in {"Resolved", "NotFound", "Ambiguous"}
    BY <1>1, <1>3, ResolveType
  <2> QED
    BY <1>3, <2>1
<1>4. ASSUME NEW request \in Requests, answer = ChooseItem(index, request)
      PROVE  /\ answer.remedy \subseteq TargetType
             /\ answer.tag \in {"Declared", "NoMatch", "AmbiguousMatch", "Chosen"}
  <2>1. request \in RequestType
    BY <1>1
  <2> QED
    BY <1>1, <1>4, <2>1, ChooseIs
<1> QED
  BY <1>2, <1>3, <1>4 DEF Answered

LEMMA AnsweredInit == Init => Answered
<1> SUFFICES ASSUME Init PROVE Answered
  OBVIOUS
<1>1. 0 \in 0..MaxTurns
  BY TurnsAssumption
<1> QED
  BY <1>1, NoTargetIs DEF Init, Answered

LEMMA AnsweredNext == Answered /\ [Next]_vars => Answered'
<1> SUFFICES ASSUME Answered, [Next]_vars PROVE Answered'
  OBVIOUS
<1>1. MaxTurns \in Nat /\ MaxTurns >= 1
  BY TurnsAssumption
<1>2. CASE Begin
  <2>1. turns = 0
    BY <1>2, AnsweredIs DEF Begin
  <2>2. ASSUME NEW t \in Targets, Ask(t) PROVE Answered'
    <3>1. t \in TargetType /\ turns' \in 0..MaxTurns
      BY <1>1, <2>1, <2>2, AskedAssumption DEF Ask
    <3> QED
      BY <2>2, <3>1 DEF Ask, Answered
  <2>3. ASSUME NEW request \in Requests, Choose(request) PROVE Answered'
    BY <2>3 DEF Choose, Answered
  <2> QED
    BY <1>2, <2>2, <2>3 DEF Begin
<1>3. CASE Follow
  <2>1. PICK t \in answer.remedy : Ask(t)
    BY <1>3 DEF Follow
  <2>2. t \in TargetType
    BY <2>1, AnsweredIs
  <2>3. turns' \in 0..MaxTurns
    BY <1>1, <1>3, <2>1 DEF Follow, Ask, Answered
  <2> QED
    BY <2>1, <2>2, <2>3 DEF Ask, Answered
<1>4. CASE UNCHANGED vars
  BY <1>4 DEF vars, Answered
<1> QED
  BY <1>2, <1>3, <1>4 DEF Next

\* The model's values stay what they are declared to be: an answer names a node of
\* the screen when it resolves or chooses and at no other time, and what it advises
\* are Targets.
THEOREM ResolutionTypeCorrect == Spec => []TypeOK
<1>1. Answered => TypeOK
  <2> SUFFICES ASSUME Answered PROVE TypeOK
    OBVIOUS
  <2>1. Indexed(index) /\ target \in TargetType /\ turns \in 0..MaxTurns /\ Requests \subseteq RequestType
    BY ScreensIndexed, AskedAssumption DEF Answered
  <2>2. CASE answer = NoAnswer
    <3>1. <<>> \in Seq(Nodes(index))
      OBVIOUS
    <3> QED
      BY <2>1, <2>2, <3>1, NoAnswerIs DEF TypeOK
  <2>3. CASE answer = ResolveTargetIn(index, target, TRUE)
    BY <2>1, <2>3, ResolveType DEF TypeOK
  <2>4. ASSUME NEW request \in Requests, answer = ChooseItem(index, request) PROVE TypeOK
    <3>1. request \in RequestType
      BY <2>1
    <3> QED
      BY <2>1, <2>4, <3>1, ChooseIs DEF TypeOK
  <2> QED
    BY <2>2, <2>3, <2>4 DEF Answered
<1> QED
  BY <1>1, AnsweredInit, AnsweredNext, PTL DEF Spec

\* How far a node stands from a text is a number.
LEMMA NearnessIs ==
  ASSUME NEW ix, Indexed(ix), NEW n \in Nodes(ix), NEW near,
         Measurable(ix, n, AnchorsFor(ix, near), near)
  PROVE  Nearness(ix, n, AnchorsFor(ix, near), near) \in Nat
<1> DEFINE anchors == AnchorsFor(ix, near)
           D == {TreeDistance(ix, n, a) : a \in anchors \ {n}}
<1>1. anchors \subseteq Nodes(ix)
  BY DEF AnchorsFor
<1>2. \A m \in Nodes(ix) : IsFiniteSet(Lineage(ix, m))
  <2> SUFFICES ASSUME NEW m \in Nodes(ix) PROVE IsFiniteSet(Lineage(ix, m))
    OBVIOUS
  <2>1. m \in Nat /\ m # Root /\ ix.above[m] \subseteq 0..(m - 1)
    BY IndexedIs, AboveIs
  <2>2. Lineage(ix, m) \subseteq 0..m
    BY <2>1 DEF Lineage
  <2>3. IsFiniteSet(0..m)
    BY <2>1, FS_Interval
  <2> QED
    BY <2>2, <2>3, FS_Subset
<1>3. \A a, b \in Nodes(ix) : TreeDistance(ix, a, b) \in Nat
  <2> SUFFICES ASSUME NEW a \in Nodes(ix), NEW b \in Nodes(ix) PROVE TreeDistance(ix, a, b) \in Nat
    OBVIOUS
  <2>1. IsFiniteSet(Lineage(ix, a) \ Lineage(ix, b)) /\ IsFiniteSet(Lineage(ix, b) \ Lineage(ix, a))
    BY <1>2, FS_Difference
  <2> QED
    BY <2>1, FS_CardinalityType DEF TreeDistance
<1>4. D \subseteq Nat
  BY <1>1, <1>3
<1> HIDE DEF anchors
<1>5. CASE ix.node[n].role \in ControlRoles /\ OwnText(ix.node[n]) = near
  BY <1>5 DEF Nearness
<1>6. CASE ~(ix.node[n].role \in ControlRoles /\ OwnText(ix.node[n]) = near)
  <2>1. D # {}
    BY <1>6 DEF Measurable, anchors
  <2>2. Min(D) \in Nat
    <3> HIDE DEF D
    <3> QED
      BY <1>4, <2>1, MinOf
  <2>3. Nearness(ix, n, anchors, near) = Min(D)
    BY <1>6 DEF Nearness
  <2> QED
    BY <2>2, <2>3 DEF anchors
<1> QED
  BY <1>5, <1>6

\* What is not among the nearest to a text stands further from it than they do.
LEMMA NearestIs ==
  ASSUME NEW ix, Indexed(ix), NEW S, S \subseteq Nodes(ix), NEW near,
         NEW m \in Nearest(ix, S, near), NEW n \in S \ Nearest(ix, S, near)
  PROVE  FurtherFrom(ix, near, n, m)
<1> DEFINE anchors == AnchorsFor(ix, near)
           Scored(k) == Measurable(ix, k, anchors, near)
           Distance(k) == Nearness(ix, k, anchors, near)
<1>1. Nearest(ix, S, near) =
        IF anchors = {} THEN {}
        ELSE {k \in {l \in S : Scored(l)} : \A l \in {j \in S : Scored(j)} : Distance(k) <= Distance(l)}
  BY DEF Nearest
<1>2. \A k \in Nodes(ix) : Scored(k) => Distance(k) \in Nat
  BY NearnessIs
<1>3. Scored(n) => Distance(n) > Distance(m)
  <2> HIDE DEF Scored, Distance
  <2>1. m \in S /\ Scored(m) /\ anchors # {} /\ \A l \in S : Scored(l) => Distance(m) <= Distance(l)
    BY <1>1
  <2> SUFFICES ASSUME Scored(n) PROVE Distance(n) > Distance(m)
    OBVIOUS
  <2>2. PICK l \in S : Scored(l) /\ ~(Distance(n) <= Distance(l))
    BY <1>1, <2>1
  <2> QED
    BY <1>2, <2>1, <2>2
<1> QED
  BY <1>3 DEF FurtherFrom

\* Nothing chooses for the reader: whatever a Target that resolves also describes
\* stands around the node it resolved to, or further from the text it was to be near.
THEOREM NothingIsEverGuessed == Spec => []NothingIsGuessed
<1>1. Answered => NothingIsGuessed
  <2> SUFFICES ASSUME Answered, answer.tag = "Resolved", target.nth = Absent
               PROVE  /\ answer.node \in Described(index, target)
                      /\ \A n \in Described(index, target) \ {answer.node} :
                           \/ IsAncestorOf(index, n, answer.node)
                           \/ /\ target.textNear # Absent
                              /\ FurtherFrom(index, target.textNear, n, answer.node)
    BY DEF NothingIsGuessed
  <2> DEFINE s == Matches(index, target)
             C == Candidates(index, target)
  <2>1. Indexed(index) /\ target \in TargetType
    BY ScreensIndexed DEF Answered
  <2>2. answer = ResolveTargetIn(index, target, TRUE)
    BY AnsweredIs
  <2>3. Len(s) = 1 /\ answer = Found(s[1], s)
    <3>1. \A by, offered : NotFound(index, target, by, offered).tag = "NotFound"
      BY DEF NotFound, NoAnswer
    <3>2. \A r : [NoAnswer EXCEPT !.tag = "Ambiguous", !.matches = s, !.remedy = r].tag = "Ambiguous"
      BY DEF NoAnswer
    <3>3. \/ \E by, offered : answer = NotFound(index, target, by, offered)
          \/ \E r : answer = [NoAnswer EXCEPT !.tag = "Ambiguous", !.matches = s, !.remedy = r]
          \/ Len(s) = 1 /\ answer = Found(s[1], s)
      BY <2>1, <2>2, ResolveIs
    <3> HIDE DEF s
    <3> QED
      BY <3>1, <3>2, <3>3
  <2>4. answer.node = s[1] /\ C = {s[1]}
    BY <2>1, <2>3, MatchesIs DEF Found, NoAnswer
  <2>5. /\ Described(index, target) = LabelLeft(index, target)
        /\ Left(index, target) \subseteq LabelLeft(index, target)
        /\ Left(index, target) \subseteq Nodes(index)
    BY <2>1, DescribedIs, LeftIs
  <2>6. \A n \in Left(index, target) \ C : \E m \in C : IsAncestorOf(index, n, m)
    BY <2>1, <2>5, InnermostIs DEF Candidates
  <2>7. C \subseteq Left(index, target)
    BY <2>1, MatchesIs
  <2>8. target.textNear = Absent => Left(index, target) = LabelLeft(index, target)
    BY DEF Left
  <2>9. \A n \in LabelLeft(index, target) \ Left(index, target) :
          target.textNear # Absent /\ FurtherFrom(index, target.textNear, n, answer.node)
    <3>1. LabelLeft(index, target) \subseteq Nodes(index)
      BY <2>1, LeftIs
    <3>2. answer.node \in Left(index, target)
      BY <2>4, <2>7
    <3> QED
      BY <2>1, <2>8, <3>1, <3>2, NearestIs DEF Left
  <2> HIDE DEF s, C
  <2> QED
    BY <2>4, <2>5, <2>6, <2>7, <2>9
<1> QED
  BY <1>1, AnsweredInit, AnsweredNext, PTL DEF Spec
\* An ambiguity report's candidates, and what it advises.
LEMMA AmbiguousIs ==
  ASSUME NEW ix, Indexed(ix), NEW t \in TargetType,
         ResolveTargetIn(ix, t, TRUE).tag = "Ambiguous"
  PROVE  LET a == ResolveTargetIn(ix, t, TRUE)
         IN /\ t.nth = Absent
            /\ a.matches = Matches(ix, t) /\ a.matches # <<>>
            /\ a.remedy = RemedyFor(ix, t, Matches(ix, t))
<1> DEFINE a == ResolveTargetIn(ix, t, TRUE)
           s == Matches(ix, t)
           so == Narrowing(ix, t, TRUE)
<1>1. \A by, offered : NotFound(ix, t, by, offered).tag = "NotFound"
  BY DEF NotFound, NoAnswer
<1>2. \A n, m : Found(n, m).tag = "Resolved"
  BY DEF Found, NoAnswer
<1>3. \/ a = NotFound(ix, t, so.by, so.offered)
      \/ a = NotFound(ix, t, "ordinal", Candidates(ix, t))
      \/ a = Found(s[t.nth + 1], s)
      \/ a = Found(s[1], s)
      \/ /\ s # <<>> /\ t.nth = Absent
         /\ a = [NoAnswer EXCEPT !.tag = "Ambiguous", !.matches = s, !.remedy = RemedyFor(ix, t, s)]
  BY ResolveIs
<1>a. a.tag = "Ambiguous"
  OBVIOUS
<1> HIDE DEF a, s, so
<1>4. /\ s # <<>> /\ t.nth = Absent
      /\ a = [NoAnswer EXCEPT !.tag = "Ambiguous", !.matches = s, !.remedy = RemedyFor(ix, t, s)]
  BY <1>1, <1>2, <1>3, <1>a
<1>5. a.matches = s /\ a.remedy = RemedyFor(ix, t, s)
  BY <1>4 DEF NoAnswer
<1> QED
  BY <1>4, <1>5 DEF a, s

\* A position changes nothing of what is left.
LEMMA PositionLeft ==
  ASSUME NEW ix, NEW t \in TargetType, NEW i
  PROVE  /\ Left(ix, [t EXCEPT !.nth = i]) = Left(ix, t)
         /\ [t EXCEPT !.nth = i].nth = i
<1> DEFINE u == [t EXCEPT !.nth = i]
<1>1. /\ u.within = t.within /\ u.role = t.role /\ u.name = t.name /\ u.exact = t.exact
      /\ u.label = t.label /\ u.textNear = t.textNear /\ u.nth = i
  BY DEF TargetType
<1> HIDE DEF u
<1>2. WithinLeft(ix, u) = WithinLeft(ix, t)
  BY <1>1 DEF WithinLeft
<1>3. RoleLeft(ix, u) = RoleLeft(ix, t)
  BY <1>1, <1>2 DEF RoleLeft
<1>4. NameLeft(ix, u) = NameLeft(ix, t)
  BY <1>1, <1>3 DEF NameLeft
<1>5. LabelLeft(ix, u) = LabelLeft(ix, t)
  BY <1>1, <1>4 DEF LabelLeft
<1>6. Left(ix, u) = Left(ix, t)
  BY <1>1, <1>5 DEF Left
<1> QED
  BY <1>1, <1>6 DEF u

\* A step out of an answer is one the answer advises.
LEMMA FollowIs ==
  ASSUME Answered, Next, answer.tag # "Unasked"
  PROVE  /\ target' \in answer.remedy /\ target' \in TargetType /\ index' = index
         /\ answer' = ResolveTargetIn(index, target', TRUE)
<1>1. Follow
  BY DEF Next, Begin
<1>2. PICK t \in answer.remedy : Ask(t)
  BY <1>1 DEF Follow
<1> QED
  BY <1>2, AnsweredIs DEF Ask

\* A position an ambiguity report gives is the candidate the report numbered: the
\* same screen, asked again with the position, answers with that node.
THEOREM PositionsHold == Spec => PositionIsTheCandidate
<1>1. Answered /\ [Next]_vars =>
        [(answer.tag = "Ambiguous" /\ target'.nth # Absent) =>
           /\ answer'.tag = "Resolved"
           /\ answer'.node = answer.matches[target'.nth + 1]]_vars
  <2> SUFFICES ASSUME Answered, Next, answer.tag = "Ambiguous", target'.nth # Absent
               PROVE  answer'.tag = "Resolved" /\ answer'.node = answer.matches[target'.nth + 1]
    OBVIOUS
  <2> DEFINE s == Matches(index, target)
  <2>1. Indexed(index) /\ target \in TargetType
    BY ScreensIndexed DEF Answered
  <2>2. answer = ResolveTargetIn(index, target, TRUE)
    BY AnsweredIs
  <2>3. target.nth = Absent /\ answer.matches = s /\ s # <<>> /\ answer.remedy = RemedyFor(index, target, s)
    BY <2>1, <2>2, AmbiguousIs
  <2>4. /\ target' \in RemedyFor(index, target, s) /\ target' \in TargetType
        /\ answer' = ResolveTargetIn(index, target', TRUE)
    BY <2>3, FollowIs
  <2>5. s \in Seq(Nodes(index))
    BY <2>1, MatchesIs
  <2>6. PICK i \in DOMAIN s : target' = [target EXCEPT !.nth = i - 1]
    <3>1. \A heading : Scoped(target, heading).nth = Absent
      BY <2>1, <2>3 DEF Scoped, TargetType
    <3> HIDE DEF s
    <3> QED
      BY <2>4, <3>1 DEF RemedyFor
  <2>7. Matches(index, target') = s /\ target'.nth = i - 1
    BY <2>1, <2>6, PositionLeft DEF Matches, Candidates
  <2>8. i - 1 \in Nat /\ i - 1 < Len(s) /\ (i - 1) + 1 = i
    <3> HIDE DEF s
    <3> QED
      BY <2>5, <2>6
  <2>9. answer' = Found(s[i], s)
    <3>1. target'.nth # Absent /\ target'.nth < Len(s) /\ target'.nth + 1 = i
      BY <2>7, <2>8
    <3> HIDE DEF s
    <3> QED
      BY <2>1, <2>3, <2>4, <2>7, <3>1, ResolveIs
  <2>10. answer'.tag = "Resolved" /\ answer'.node = s[i]
    <3> HIDE DEF s
    <3> QED
      BY <2>9 DEF Found, NoAnswer
  <2> QED
    BY <2>3, <2>7, <2>8, <2>10
<1> QED
  BY <1>1, AnsweredInit, AnsweredNext, PTL DEF Spec, PositionIsTheCandidate

\* The control pressed for a selection is the item it chose: an item with a name of
\* its own is among what its Target finds, and anything else found is an item the
\* list left out because it encloses another.
THEOREM PressesLand == Spec => PressLandsOnTheItem
<1>1. Answered /\ [Next]_vars =>
        [answer.tag = "Chosen" =>
           /\ Identity(index.node[answer.node]) # <<>> => answer.node \in ToSet(answer'.matches)
           /\ \A n \in ToSet(answer'.matches) \ {answer.node} :
                \E m \in Nodes(index) : IsAncestorOf(index, n, m) /\ index.node[m].role = target'.role]_vars
  <2> SUFFICES ASSUME Answered, Next, answer.tag = "Chosen"
               PROVE  /\ Identity(index.node[answer.node]) # <<>> => answer.node \in ToSet(answer'.matches)
                      /\ \A n \in ToSet(answer'.matches) \ {answer.node} :
                           \E m \in Nodes(index) :
                             IsAncestorOf(index, n, m) /\ index.node[m].role = target'.role
    OBVIOUS
  <2>1. Indexed(index)
    BY ScreensIndexed
  <2>2. PICK request \in RequestType : answer = ChooseItem(index, request)
    BY AnsweredIs, AskedAssumption
  <2> DEFINE chosen == answer.node
             label == LabelTextOf(index, chosen)
             t == TargetForItem(request.list, label)
             there == WithinLeft(index, t)
             items == {n \in there : index.node[n].role = request.list.itemRole}
             named == {n \in items : Identity(index.node[n]) = label}
  <2>3. /\ chosen \in Nodes(index) /\ answer.remedy = {t}
        /\ Wanted(index, request) = {chosen}
    BY <2>1, <2>2, ChooseIs
  <2>4. label \in Texts
    BY <2>1, <2>3, LabelTextIs
  <2>5. /\ t \in TargetType /\ t.role = request.list.itemRole /\ t.name = label /\ t.exact = TRUE
        /\ t.within = request.list.within /\ t.label = Absent /\ t.textNear = Absent /\ t.nth = Absent
        /\ t.role # Absent /\ t.name # Absent
    <3>1. request.list \in [itemRole : STRING, within : Optional(ScopeType)]
      BY DEF RequestType
    <3> HIDE DEF label
    <3> QED
      BY <2>4, <3>1, NoTargetIs, AbsentAssumption
  <2>6. target' = t /\ answer' = ResolveTargetIn(index, t, TRUE)
    BY <2>3, FollowIs
  <2>7. there \subseteq Nodes(index)
    BY <2>5, LeftIs
  <2>8. ListItemsIn(index, request.list) = Innermost(index, items)
    BY <2>5 DEF ListItemsIn, WithinLeft
  <2> HIDE DEF t, there
  <2>9. RoleLeft(index, t) = items
    BY <2>5 DEF RoleLeft, there
  <2>10. Left(index, t) = named
    <3>1. NameLeft(index, t) = named
      <4> DEFINE found == NarrowByText(items, label, Names(index), TRUE, TRUE).found
      <4>1. NameLeft(index, t) = found
        BY <2>5, <2>9 DEF NameLeft
      <4>2. found = {n \in items : Text(Names(index)[n]) = label}
        BY DEF NarrowByText
      <4>3. \A n \in items : Text(Names(index)[n]) = Identity(index.node[n])
        BY <2>1, <2>7, IndexedIs, TextIs DEF Names
      <4> QED
        BY <4>1, <4>2, <4>3
    <3> QED
      BY <2>5, <3>1 DEF Left, LabelLeft
  <2>11. ToSet(Matches(index, t)) = Innermost(index, named)
    BY <2>1, <2>5, <2>10, MatchesIs DEF Candidates
  <2>12. \/ named = {} /\ answer'.matches = <<>>
         \/ named # {} /\ answer'.matches = Matches(index, t)
    <3> DEFINE s == Matches(index, t)
               so == Narrowing(index, t, TRUE)
    <3>1. s = <<>> <=> named = {}
      BY <2>1, <2>5, <2>10, MatchesIs
    <3>2. \/ s = <<>> /\ answer' = NotFound(index, t, so.by, so.offered)
          \/ s # <<>> /\ answer' = Found(s[1], s)
          \/ /\ s # <<>>
             /\ answer' = [NoAnswer EXCEPT !.tag = "Ambiguous", !.matches = s,
                                            !.remedy = RemedyFor(index, t, s)]
      BY <2>1, <2>5, <2>6, ResolveIs
    <3> HIDE DEF s, so, named
    <3>3. s = <<>> => answer'.matches = <<>>
      BY <3>2 DEF NotFound, NoAnswer
    <3>4. s # <<>> => answer'.matches = s
      BY <3>2 DEF Found, NoAnswer
    <3> QED
      BY <3>1, <3>3, <3>4 DEF s
  <2>13. Identity(index.node[chosen]) # <<>> => chosen \in ToSet(answer'.matches)
    <3> SUFFICES ASSUME Identity(index.node[chosen]) # <<>> PROVE chosen \in ToSet(answer'.matches)
      OBVIOUS
    <3>1. chosen \in Innermost(index, items)
      BY <2>3, <2>8 DEF Wanted
    <3>2. label = Identity(index.node[chosen])
      BY DEF LabelTextOf
    <3>3. chosen \in items /\ named \subseteq items
      BY <3>1 DEF Innermost
    <3>4. chosen \in named
      BY <3>2, <3>3
    <3> HIDE DEF items, named, chosen
    <3>5. chosen \in Innermost(index, named)
      BY <3>1, <3>3, <3>4 DEF Innermost
    <3> QED
      BY <2>11, <2>12, <3>4, <3>5
  <2>14. ASSUME NEW n \in ToSet(answer'.matches), n # chosen
         PROVE  \E m \in Nodes(index) : IsAncestorOf(index, n, m) /\ index.node[m].role = target'.role
    <3>1. n \in named /\ n \in items /\ Identity(index.node[n]) = label /\ n \in Nodes(index)
      <4>1. ToSet(<<>>) = {}
        BY DEF ToSet
      <4>2. n \in Innermost(index, named)
        BY <2>11, <2>12, <2>14, <4>1
      <4> QED
        BY <2>7, <4>2 DEF Innermost
    <3>2. IsTokenSubsetOf(request.wanted, label)
      BY <2>3 DEF Wanted
    <3>3. label # <<>>
      BY <3>2 DEF IsTokenSubsetOf, TokensOf, ToSet
    <3>4. LabelTextOf(index, n) = label
      BY <3>1, <3>3 DEF LabelTextOf
    <3>5. n \notin ListItemsIn(index, request.list)
      BY <2>3, <2>14, <3>2, <3>4 DEF Wanted
    <3>6. PICK m \in items : IsAncestorOf(index, n, m)
      BY <2>8, <3>1, <3>5 DEF Innermost
    <3> QED
      BY <2>5, <2>6, <2>7, <3>6
  <2> QED
    BY <2>13, <2>14
<1> QED
  BY <1>1, AnsweredInit, AnsweredNext, PTL DEF Spec, PressLandsOnTheItem
-----------------------------------------------------------------------------
\* Advice gets further

LEMMA RankIs ==
  /\ Rank("within") = 1 /\ Rank("role") = 2 /\ Rank("name") = 3 /\ Rank("label") = 4
  /\ Rank("textNear") = 5 /\ Rank("ordinal") = 6 /\ Rank(Absent) = 7
<1> DEFINE order == <<"within", "role", "name", "label", "textNear", "ordinal", Absent>>
<1>1. /\ order[1] = "within" /\ order[2] = "role" /\ order[3] = "name" /\ order[4] = "label"
      /\ order[5] = "textNear" /\ order[6] = "ordinal" /\ order[7] = Absent
  OBVIOUS
<1>2. /\ Absent # "within" /\ Absent # "role" /\ Absent # "name" /\ Absent # "label"
      /\ Absent # "textNear" /\ Absent # "ordinal"
  BY AbsentAssumption DEF Strategies
<1>3. \A strategy : Rank(strategy) = CHOOSE i \in 1..7 : order[i] = strategy
  BY DEF Rank
<1>4. 1..7 = {1, 2, 3, 4, 5, 6, 7}
  OBVIOUS
<1> HIDE DEF order
<1>5. \A k \in 1..7 : \A i \in 1..7 : order[i] = order[k] => i = k
  BY <1>1, <1>2, <1>4
<1>6. \A k \in 1..7 : Rank(order[k]) = k
  BY <1>3, <1>5
<1> QED
  BY <1>1, <1>6

\* What a report advises when nothing was near the text, or nothing at the position.
TextRemedy(t) == {[t EXCEPT !.textNear = Absent]}
OrdinalRemedy(t) == {[t EXCEPT !.nth = Absent]}

\* What a report that something was not found says of the Target: where it ended is a
\* criterion that left nothing, and none before it did.
LEMMA NotFoundIs ==
  ASSUME NEW ix, Indexed(ix), NEW t \in TargetType,
         NEW a, a = ResolveTargetIn(ix, t, TRUE), a.tag = "NotFound"
  PROVE  \/ /\ a.narrowedBy = Absent /\ a.remedy = {}
         \/ /\ a.narrowedBy = "within" /\ FailsWithin(ix, t) /\ a.remedy = WithinRemedy(ix, t)
         \/ /\ a.narrowedBy = "role" /\ FailsRole(ix, t) /\ ~FailsWithin(ix, t)
            /\ a.remedy = RoleRemedy(ix, t, WithinLeft(ix, t))
         \/ /\ a.narrowedBy = "name" /\ FailsName(ix, t) /\ ~FailsRole(ix, t) /\ ~FailsWithin(ix, t)
            /\ a.remedy = NameRemedy(ix, t)
         \/ /\ a.narrowedBy = "label" /\ FailsLabel(ix, t)
            /\ ~FailsName(ix, t) /\ ~FailsRole(ix, t) /\ ~FailsWithin(ix, t)
            /\ a.remedy = LabelRemedy(ix, t)
         \/ /\ a.narrowedBy = "textNear" /\ FailsText(ix, t) /\ ~FailsLabel(ix, t)
            /\ ~FailsName(ix, t) /\ ~FailsRole(ix, t) /\ ~FailsWithin(ix, t)
            /\ a.remedy = TextRemedy(t)
         \/ /\ a.narrowedBy = "ordinal" /\ Left(ix, t) # {} /\ t.nth # Absent
            /\ a.remedy = OrdinalRemedy(t)
<1> DEFINE s == Matches(ix, t)
           so == Narrowing(ix, t, TRUE)
<1>1. \A by, offered : /\ NotFound(ix, t, by, offered).narrowedBy = by
                      /\ NotFound(ix, t, by, offered).remedy = RemedyForUnresolved(ix, t, by, offered)
  BY DEF NotFound, NoAnswer
<1>2. \A n, m : Found(n, m).tag = "Resolved"
  BY DEF Found, NoAnswer
<1>3. [NoAnswer EXCEPT !.tag = "Ambiguous", !.matches = s, !.remedy = RemedyFor(ix, t, s)].tag = "Ambiguous"
  BY DEF NoAnswer
<1>4. a.tag = "NotFound"
  OBVIOUS
<1>5. \/ s = <<>> /\ a = NotFound(ix, t, so.by, so.offered)
      \/ a = Found(s[t.nth + 1], s)
      \/ s # <<>> /\ t.nth # Absent /\ a = NotFound(ix, t, "ordinal", Candidates(ix, t))
      \/ a = [NoAnswer EXCEPT !.tag = "Ambiguous", !.matches = s, !.remedy = RemedyFor(ix, t, s)]
      \/ a = Found(s[1], s)
  BY ResolveIs
<1>6. s = <<>> <=> Left(ix, t) = {}
  BY MatchesIs
<1>7. so.left = Left(ix, t) /\
      (so.left = {} =>
         \/ so.by = Absent
         \/ so.by = "within" /\ FailsWithin(ix, t)
         \/ so.by = "role" /\ FailsRole(ix, t) /\ ~FailsWithin(ix, t) /\ so.offered = WithinLeft(ix, t)
         \/ so.by = "name" /\ FailsName(ix, t) /\ ~FailsRole(ix, t) /\ ~FailsWithin(ix, t)
         \/ so.by = "label" /\ FailsLabel(ix, t)
              /\ ~FailsName(ix, t) /\ ~FailsRole(ix, t) /\ ~FailsWithin(ix, t)
         \/ so.by = "textNear" /\ FailsText(ix, t) /\ ~FailsLabel(ix, t)
              /\ ~FailsName(ix, t) /\ ~FailsRole(ix, t) /\ ~FailsWithin(ix, t))
  BY NarrowingIs
<1>8. /\ Absent # "within" /\ Absent # "role" /\ Absent # "name" /\ Absent # "label"
      /\ Absent # "textNear" /\ Absent # "ordinal"
  BY AbsentAssumption DEF Strategies
<1>9. \A offered : /\ RemedyForUnresolved(ix, t, Absent, offered) = {}
                   /\ RemedyForUnresolved(ix, t, "within", offered) = WithinRemedy(ix, t)
                   /\ RemedyForUnresolved(ix, t, "role", offered) = RoleRemedy(ix, t, offered)
                   /\ RemedyForUnresolved(ix, t, "name", offered) = NameRemedy(ix, t)
                   /\ RemedyForUnresolved(ix, t, "label", offered) = LabelRemedy(ix, t)
                   /\ RemedyForUnresolved(ix, t, "textNear", offered) = TextRemedy(t)
                   /\ RemedyForUnresolved(ix, t, "ordinal", offered) = OrdinalRemedy(t)
  BY <1>8 DEF RemedyForUnresolved, TextRemedy, OrdinalRemedy
<1> HIDE DEF s, so
<1>10. CASE s = <<>> /\ a = NotFound(ix, t, so.by, so.offered)
  <2>1. a.narrowedBy = so.by /\ a.remedy = RemedyForUnresolved(ix, t, so.by, so.offered)
    BY <1>1, <1>10
  <2> QED
    BY <1>6, <1>7, <1>9, <1>10, <2>1
<1>11. CASE s # <<>> /\ t.nth # Absent /\ a = NotFound(ix, t, "ordinal", Candidates(ix, t))
  <2>1. a.narrowedBy = "ordinal" /\ a.remedy = OrdinalRemedy(t)
    BY <1>1, <1>9, <1>11
  <2> QED
    BY <1>6, <1>11, <2>1
<1>12. a # Found(s[t.nth + 1], s) /\ a # Found(s[1], s)
       /\ a # [NoAnswer EXCEPT !.tag = "Ambiguous", !.matches = s, !.remedy = RemedyFor(ix, t, s)]
  BY <1>2, <1>3, <1>4
<1> QED
  BY <1>5, <1>10, <1>11, <1>12

\* How far a Target that is not found gets.
LEMMA EndsPast ==
  ASSUME NEW ix, Indexed(ix), NEW u \in TargetType,
         NEW answered, answered = ResolveTargetIn(ix, u, TRUE), answered.tag = "NotFound",
         NEW rank, rank = Rank(answered.narrowedBy)
  PROVE  /\ rank \in 1..7
         /\ ~FailsWithin(ix, u) => rank > 1
         /\ ~FailsWithin(ix, u) /\ ~FailsRole(ix, u) => rank > 2
         /\ ~FailsWithin(ix, u) /\ ~FailsRole(ix, u) /\ ~FailsName(ix, u) => rank > 3
         /\ ~FailsWithin(ix, u) /\ ~FailsRole(ix, u) /\ ~FailsName(ix, u) /\ ~FailsLabel(ix, u) => rank > 4
         /\ (/\ ~FailsWithin(ix, u) /\ ~FailsRole(ix, u) /\ ~FailsName(ix, u)
             /\ ~FailsLabel(ix, u) /\ ~FailsText(ix, u)) => rank > 5
         /\ u.nth = Absent => rank # 6
<1> DEFINE by == ResolveTargetIn(ix, u, TRUE).narrowedBy
<1>0. ResolveTargetIn(ix, u, TRUE).tag = "NotFound" /\ rank = Rank(by)
  OBVIOUS
<1>1. \/ by = Absent
      \/ by = "within" /\ FailsWithin(ix, u)
      \/ by = "role" /\ FailsRole(ix, u)
      \/ by = "name" /\ FailsName(ix, u)
      \/ by = "label" /\ FailsLabel(ix, u)
      \/ by = "textNear" /\ FailsText(ix, u)
      \/ by = "ordinal" /\ u.nth # Absent
  BY NotFoundIs, <1>0
<1> HIDE DEF by
<1>2. \/ Rank(by) = 7
      \/ Rank(by) = 1 /\ FailsWithin(ix, u)
      \/ Rank(by) = 2 /\ FailsRole(ix, u)
      \/ Rank(by) = 3 /\ FailsName(ix, u)
      \/ Rank(by) = 4 /\ FailsLabel(ix, u)
      \/ Rank(by) = 5 /\ FailsText(ix, u)
      \/ Rank(by) = 6 /\ u.nth # Absent
  BY <1>1, RankIs
<1> DEFINE place == Rank(by)
<1>3. place \in {1, 2, 3, 4, 5, 6, 7}
  BY <1>2
<1>4. /\ place = 1 => FailsWithin(ix, u)
      /\ place = 2 => FailsRole(ix, u)
      /\ place = 3 => FailsName(ix, u)
      /\ place = 4 => FailsLabel(ix, u)
      /\ place = 5 => FailsText(ix, u)
      /\ place = 6 => u.nth # Absent
  BY <1>2
<1> HIDE DEF place
<1>5. /\ place \in 1..7
      /\ place # 1 => place > 1
      /\ place # 1 /\ place # 2 => place > 2
      /\ place # 1 /\ place # 2 /\ place # 3 => place > 3
      /\ place # 1 /\ place # 2 /\ place # 3 /\ place # 4 => place > 4
      /\ place # 1 /\ place # 2 /\ place # 3 /\ place # 4 /\ place # 5 => place > 5
  BY <1>3
<1>6. rank = place
  BY <1>0 DEF place
<1> QED
  BY <1>4, <1>5, <1>6, Zenon

\* In every region, a node of the role asked for is left.
LEMMA RoleReaches ==
  ASSUME NEW ix, NEW u \in TargetType, u.within = Absent
  PROVE  /\ ~FailsWithin(ix, u)
         /\ \A n \in Nodes(ix) : u.role \in {Absent, ix.node[n].role} =>
              n \in RoleLeft(ix, u) /\ ~FailsRole(ix, u)
BY DEF FailsWithin, FailsRole, WithinLeft, RoleLeft

\* A node a text finds among all nodes is reason to find one among fewer, if it
\* is among them.
LEMMA FoundAmongFewer ==
  ASSUME NEW S, NEW R, NEW wanted, NEW read, NEW exactOnly \in BOOLEAN, NEW byTokens \in BOOLEAN,
         NEW n \in R, n \in NarrowByText(S, wanted, read, exactOnly, byTokens).found
  PROVE  NarrowByText(R, wanted, read, exactOnly, byTokens).found # {}
<1>1. Rung(Text(read[n]), wanted, exactOnly, byTokens) # 0
  <2>1. n \in S /\ Rung(Text(read[n]), wanted, exactOnly, byTokens) > 0
    BY NarrowByTextIs
  <2> QED
    BY <2>1
<1> QED
  BY <1>1, NarrowByTextIs
\* The region a report advises has something in it: the name of a section that was
\* found by its words, or a heading that is the whole of what a node goes by.
LEMMA WithinAdvice ==
  ASSUME NEW ix, Indexed(ix), NEW t \in TargetType, t.within # Absent,
         NEW u \in WithinRemedy(ix, t),
         u.within = Absent \/ ~SaidInTwo(ix, u.within.name)
  PROVE  ~FailsWithin(ix, u)
<1>1. \A heading : Scoped(t, heading).within = [role |-> Absent, name |-> heading]
  BY DEF Scoped, TargetType
<1>2. Unscoped(t).within = Absent
  BY DEF Unscoped, TargetType
<1>3. ASSUME NEW heading \in Texts, HeadedBy(ix, heading) # {}, u = Scoped(t, heading)
      PROVE  ~FailsWithin(ix, u)
  <2> DEFINE scope == [role |-> Absent, name |-> heading]
  <2>1. scope.role = Absent /\ scope.name = heading /\ heading # Absent
    BY AbsentAssumption
  <2>2. ScopeOf(ix, scope, TRUE) = HeadedBy(ix, heading)
    <3> HIDE DEF scope
    <3> QED
      BY <2>1 DEF ScopeOf
  <2>3. Inside(ix, Nodes(ix), ScopeOf(ix, scope, TRUE)) # {}
    BY <1>3, <2>2, HeadedByIs
  <2>4. u.within = scope
    BY <1>1, <1>3
  <2> HIDE DEF scope
  <2> QED
    BY <2>3, <2>4 DEF FailsWithin, WithinLeft
<1>4. CASE u = Unscoped(t)
  BY <1>2, <1>4 DEF FailsWithin
<1>5. ASSUME NEW region \in RegionsOffered(ix), u = Scoped(t, region) PROVE ~FailsWithin(ix, u)
  <2>1. region \in Texts /\ region # Absent
    BY RegionIs, AbsentAssumption
  <2>2. PICK m \in Nodes(ix) : region \in {Identity(ix.node[m]), OwnText(ix.node[m])}
    BY RegionIs
  <2>3. ~SaidInTwo(ix, region)
    <3>1. [role |-> Absent, name |-> region] \in ScopeType
      BY <2>1 DEF ScopeType, Optional
    <3>2. u.within = [role |-> Absent, name |-> region]
      BY <1>1, <1>5
    <3>3. u.within # Absent /\ u.within.name = region
      BY <3>1, <3>2, AbsentAssumption
    <3> QED
      BY <3>3
  <2>4. Identity(ix.node[m]) = region
    <3>1. ix.node[m] \in NodeType
      BY IndexedIs
    <3>2. CASE region = OwnText(ix.node[m])
      <4>1. ix.node[m].name = Absent \/ ix.node[m].value = Absent
        BY <2>3, <3>2 DEF SaidInTwo
      <4> QED
        BY <3>1, <3>2, <4>1, TextIs
    <3> QED
      BY <2>2, <3>2
  <2>5. HeadedBy(ix, region) # {}
    BY <2>4, HeadedByIs
  <2> QED
    BY <1>3, <1>5, <2>1, <2>5
<1>6. CASE /\ t.within.name # Absent /\ HeadedBy(ix, t.within.name) # {}
           /\ u = Scoped(t, t.within.name)
  <2>1. t.within \in ScopeType
    BY DEF TargetType, Optional
  <2>2. t.within.name \in Texts
    BY <1>6, <2>1 DEF ScopeType, Optional
  <2> QED
    BY <1>3, <1>6, <2>2
<1> QED
  BY <1>4, <1>5, <1>6 DEF WithinRemedy, RegionAdvice

\* Of what a report advises when a node was found elsewhere: taken in every region,
\* its role leaves that node.
LEMMA ReachForIs ==
  ASSUME NEW ix, Indexed(ix), NEW t \in TargetType, NEW n \in Nodes(ix),
         NEW u \in ReachFor(ix, t, n), u.within = Absent
  PROVE  /\ u.role = ix.node[n].role /\ u.name = t.name /\ u.exact = t.exact
         /\ u.label = t.label /\ u.textNear = t.textNear /\ u.nth = t.nth
<1> DEFINE there == [t EXCEPT !.role = ix.node[n].role]
<1>1. /\ there \in TargetType
      /\ there.role = ix.node[n].role /\ there.name = t.name /\ there.exact = t.exact
      /\ there.label = t.label /\ there.textNear = t.textNear /\ there.nth = t.nth
  <2>1. ix.node[n].role \in Optional(STRING)
    BY IndexedIs DEF NodeType, Optional
  <2> QED
    BY <2>1 DEF TargetType
<1>2. u = Unscoped(there) \/ u = Scoped(there, RegionOf(ix, n))
  BY DEF ReachFor
<1> HIDE DEF there
<1> QED
  BY <1>1, <1>2 DEF Scoped, Unscoped, TargetType

\* Each piece of advice, taken in every region, passes the criterion that failed.
LEMMA RoleAdvice ==
  ASSUME NEW ix, Indexed(ix), NEW t \in TargetType,
         NEW u \in TargetType, u \in RoleRemedy(ix, t, WithinLeft(ix, t)), u.within = Absent
  PROVE  ~FailsWithin(ix, u) /\ ~FailsRole(ix, u)
<1>1. CASE (\E n \in Nodes(ix) : ix.node[n].role = t.role) /\ u = Unscoped(t)
  <2>1. u.role = t.role
    BY <1>1 DEF Unscoped, TargetType
  <2> QED
    BY <1>1, <2>1, RoleReaches
<1>2. CASE \E n \in WithinLeft(ix, t) : u = [t EXCEPT !.role = ix.node[n].role]
  <2>1. PICK n \in WithinLeft(ix, t) : u = [t EXCEPT !.role = ix.node[n].role]
    BY <1>2
  <2>2. u.role = ix.node[n].role /\ n \in Nodes(ix)
    BY <2>1, LeftIs DEF TargetType
  <2> QED
    BY <2>2, RoleReaches
<1> QED
  BY <1>1, <1>2 DEF RoleRemedy

LEMMA NameAdvice ==
  ASSUME NEW ix, Indexed(ix), NEW t \in TargetType,
         FailsName(ix, t), ~FailsRole(ix, t), ~FailsWithin(ix, t),
         NEW u \in TargetType, u \in NameRemedy(ix, t), u.within = Absent
  PROVE  \/ ~FailsWithin(ix, u) /\ ~FailsRole(ix, u) /\ ~FailsName(ix, u)
         \/ t.exact /\ ~u.exact
<1> DEFINE found == NarrowByText(Nodes(ix), t.name, Names(ix), t.exact, TRUE).found
           caption == [t EXCEPT !.name = Absent, !.label = t.name]
           n == Min(found)
<1>1. t.exact \in BOOLEAN /\ t.name # Absent
  BY DEF TargetType, FailsName
<1>2. found \subseteq Nodes(ix)
  BY <1>1, NarrowByTextIs
<1>3. found # {} => n \in found /\ n \in Nodes(ix)
  <2> HIDE DEF found
  <2>1. found \subseteq Nat
    BY <1>2, IndexedIs
  <2> QED
    BY <1>2, <2>1, MinOf
<1>4. caption.name = Absent /\ caption.role = t.role /\ caption.within = t.within
  BY DEF TargetType
<1>5. \/ found # {} /\ u \in ReachFor(ix, t, n)
      \/ found # {} /\ u = Unscoped([caption EXCEPT !.role = ix.node[n].role])
      \/ t.exact /\ u = [t EXCEPT !.exact = FALSE]
      \/ u = caption
  BY DEF NameRemedy
<1>6. CASE found # {} /\ u \in ReachFor(ix, t, n)
  <2> HIDE DEF n
  <2>1. u.role = ix.node[n].role /\ u.name = t.name /\ u.exact = t.exact
    <3> HIDE DEF found
    <3>1. n \in Nodes(ix) /\ u \in ReachFor(ix, t, n)
      BY <1>3, <1>6
    <3> QED
      BY <1>6, <3>1, ReachForIs
  <2>2. ~FailsWithin(ix, u) /\ ~FailsRole(ix, u) /\ n \in RoleLeft(ix, u)
    BY <1>3, <1>6, <2>1, RoleReaches
  <2>3. NarrowByText(RoleLeft(ix, u), t.name, Names(ix), t.exact, TRUE).found # {}
    <3>1. ASSUME NEW e \in BOOLEAN, n \in NarrowByText(Nodes(ix), t.name, Names(ix), t.exact, e).found
          PROVE  NarrowByText(RoleLeft(ix, u), t.name, Names(ix), t.exact, e).found # {}
      BY <1>1, <2>2, <3>1, FoundAmongFewer
    <3> QED
      BY <1>3, <1>6, <3>1
  <2>4. ~FailsName(ix, u)
    BY <1>1, <2>1, <2>3 DEF FailsName, NameLeft
  <2> QED
    BY <2>2, <2>4
<1>7. CASE found # {} /\ u = Unscoped([caption EXCEPT !.role = ix.node[n].role])
  <2>1. u.role = ix.node[n].role /\ u.name = Absent
    BY <1>7 DEF Unscoped, TargetType
  <2> HIDE DEF n
  <2>2. ~FailsWithin(ix, u) /\ ~FailsRole(ix, u)
    BY <1>3, <1>7, <2>1, RoleReaches
  <2> QED
    BY <2>1, <2>2 DEF FailsName
<1>8. CASE t.exact /\ u = [t EXCEPT !.exact = FALSE]
  <2>1. u.exact = FALSE
    BY <1>8 DEF TargetType
  <2> QED
    BY <1>8, <2>1
<1>9. CASE u = caption
  <2>1. u.name = Absent /\ u.role = t.role /\ u.within = t.within
    BY <1>4, <1>9
  <2>2. WithinLeft(ix, u) = WithinLeft(ix, t)
    BY <2>1 DEF WithinLeft
  <2>3. RoleLeft(ix, u) = RoleLeft(ix, t)
    BY <2>1, <2>2 DEF RoleLeft
  <2> QED
    BY <2>1, <2>2, <2>3 DEF FailsWithin, FailsRole, FailsName
<1> QED
  BY <1>5, <1>6, <1>7, <1>8, <1>9

LEMMA LabelAdvice ==
  ASSUME NEW ix, Indexed(ix), NEW t \in TargetType, FailsLabel(ix, t),
         NEW u \in TargetType, u \in LabelRemedy(ix, t), u.within = Absent
  PROVE  ~FailsWithin(ix, u) /\ ~FailsRole(ix, u) /\ ~FailsName(ix, u) /\ ~FailsLabel(ix, u)
<1> DEFINE found == NarrowByText(Nodes(ix), t.label, Labels(ix), FALSE, FALSE).found
           unnamed == [t EXCEPT !.name = Absent]
           n == Min(found)
<1>1. t.label # Absent
  BY DEF FailsLabel
<1>2. found \subseteq Nodes(ix)
  BY NarrowByTextIs
<1>3. found # {} /\ u \in ReachFor(ix, unnamed, n)
  BY DEF LabelRemedy
<1>4. n \in found /\ n \in Nodes(ix)
  <2> HIDE DEF found
  <2>1. found \subseteq Nat
    BY <1>2, IndexedIs
  <2> QED
    BY <1>2, <1>3, <2>1, MinOf
<1>5. unnamed \in TargetType /\ unnamed.name = Absent /\ unnamed.label = t.label
  <2>1. Absent \in Optional(Texts)
    BY DEF Optional
  <2> QED
    BY <2>1 DEF TargetType
<1> HIDE DEF n, unnamed
<1>6. u.role = ix.node[n].role /\ u.name = Absent /\ u.label = t.label
  BY <1>3, <1>4, <1>5, ReachForIs
<1>7. ~FailsWithin(ix, u) /\ ~FailsRole(ix, u) /\ n \in RoleLeft(ix, u)
  BY <1>4, <1>6, RoleReaches
<1>8. NameLeft(ix, u) = RoleLeft(ix, u) /\ ~FailsName(ix, u)
  BY <1>6 DEF NameLeft, FailsName
<1>9. NarrowByText(RoleLeft(ix, u), t.label, Labels(ix), FALSE, FALSE).found # {}
  <2>1. ASSUME NEW e \in BOOLEAN, n \in NarrowByText(Nodes(ix), t.label, Labels(ix), e, e).found
        PROVE  NarrowByText(RoleLeft(ix, u), t.label, Labels(ix), e, e).found # {}
    BY <1>7, <2>1, FoundAmongFewer
  <2> QED
    BY <1>4, <2>1
<1>10. ~FailsLabel(ix, u)
  BY <1>6, <1>8, <1>9 DEF FailsLabel, LabelLeft
<1> QED
  BY <1>7, <1>8, <1>10
LEMMA NearnessAdvice ==
  ASSUME NEW ix, NEW t \in TargetType, NEW u, u = [t EXCEPT !.textNear = Absent],
         ~FailsLabel(ix, t), ~FailsName(ix, t), ~FailsRole(ix, t), ~FailsWithin(ix, t)
  PROVE  ~FailsText(ix, u) /\ ~FailsLabel(ix, u) /\ ~FailsName(ix, u) /\ ~FailsRole(ix, u) /\ ~FailsWithin(ix, u)
<1>1. /\ u.within = t.within /\ u.role = t.role /\ u.name = t.name /\ u.exact = t.exact
      /\ u.label = t.label /\ u.textNear = Absent
  BY DEF TargetType
<1>2. WithinLeft(ix, u) = WithinLeft(ix, t)
  BY <1>1 DEF WithinLeft
<1>3. RoleLeft(ix, u) = RoleLeft(ix, t)
  BY <1>1, <1>2 DEF RoleLeft
<1>4. NameLeft(ix, u) = NameLeft(ix, t)
  BY <1>1, <1>3 DEF NameLeft
<1>5. LabelLeft(ix, u) = LabelLeft(ix, t)
  BY <1>1, <1>4 DEF LabelLeft
<1> QED
  BY <1>1, <1>2, <1>3, <1>4, <1>5 DEF FailsText, FailsLabel, FailsName, FailsRole, FailsWithin

\* What an answer advises fails later than the answer did, or asks for less of the name.
LEMMA AdviceAnswers ==
  ASSUME NEW ix, Indexed(ix), NEW t \in TargetType, NEW u \in TargetType,
         NEW before, before = ResolveTargetIn(ix, t, TRUE), before.tag = "NotFound",
         NEW after, after = ResolveTargetIn(ix, u, TRUE), after.tag = "NotFound",
         u \in before.remedy,
         \/ u.within = Absent
         \/ before.narrowedBy = "within" /\ ~SaidInTwo(ix, u.within.name)
  PROVE  \/ Rank(after.narrowedBy) > Rank(before.narrowedBy)
         \/ t.exact /\ ~u.exact
<1> DEFINE by == before.narrowedBy
           rank == Rank(after.narrowedBy)
<1>1. Indexed(ix) /\ t \in TargetType /\ u \in TargetType /\ u \in before.remedy
  OBVIOUS
<1>2. /\ rank \in 1..7
      /\ ~FailsWithin(ix, u) => rank > 1
      /\ ~FailsWithin(ix, u) /\ ~FailsRole(ix, u) => rank > 2
      /\ ~FailsWithin(ix, u) /\ ~FailsRole(ix, u) /\ ~FailsName(ix, u) => rank > 3
      /\ ~FailsWithin(ix, u) /\ ~FailsRole(ix, u) /\ ~FailsName(ix, u) /\ ~FailsLabel(ix, u) => rank > 4
      /\ (/\ ~FailsWithin(ix, u) /\ ~FailsRole(ix, u) /\ ~FailsName(ix, u)
          /\ ~FailsLabel(ix, u) /\ ~FailsText(ix, u)) => rank > 5
      /\ u.nth = Absent => rank # 6
  BY EndsPast
<1>3. \/ by = Absent /\ before.remedy = {}
      \/ by = "within" /\ FailsWithin(ix, t) /\ before.remedy = WithinRemedy(ix, t)
      \/ by = "role" /\ before.remedy = RoleRemedy(ix, t, WithinLeft(ix, t))
      \/ /\ by = "name" /\ FailsName(ix, t) /\ ~FailsRole(ix, t) /\ ~FailsWithin(ix, t)
         /\ before.remedy = NameRemedy(ix, t)
      \/ by = "label" /\ FailsLabel(ix, t) /\ before.remedy = LabelRemedy(ix, t)
      \/ /\ by = "textNear" /\ ~FailsLabel(ix, t)
         /\ ~FailsName(ix, t) /\ ~FailsRole(ix, t) /\ ~FailsWithin(ix, t)
         /\ before.remedy = TextRemedy(t)
      \/ by = "ordinal" /\ Left(ix, t) # {} /\ before.remedy = OrdinalRemedy(t)
  <2>1. ResolveTargetIn(ix, t, TRUE).tag = "NotFound"
    OBVIOUS
  <2>2. \/ /\ ResolveTargetIn(ix, t, TRUE).narrowedBy = Absent /\ ResolveTargetIn(ix, t, TRUE).remedy = {}
        \/ /\ ResolveTargetIn(ix, t, TRUE).narrowedBy = "within" /\ FailsWithin(ix, t) /\ ResolveTargetIn(ix, t, TRUE).remedy = WithinRemedy(ix, t)
        \/ /\ ResolveTargetIn(ix, t, TRUE).narrowedBy = "role" /\ FailsRole(ix, t) /\ ~FailsWithin(ix, t)
           /\ ResolveTargetIn(ix, t, TRUE).remedy = RoleRemedy(ix, t, WithinLeft(ix, t))
        \/ /\ ResolveTargetIn(ix, t, TRUE).narrowedBy = "name" /\ FailsName(ix, t) /\ ~FailsRole(ix, t) /\ ~FailsWithin(ix, t)
           /\ ResolveTargetIn(ix, t, TRUE).remedy = NameRemedy(ix, t)
        \/ /\ ResolveTargetIn(ix, t, TRUE).narrowedBy = "label" /\ FailsLabel(ix, t)
           /\ ~FailsName(ix, t) /\ ~FailsRole(ix, t) /\ ~FailsWithin(ix, t)
           /\ ResolveTargetIn(ix, t, TRUE).remedy = LabelRemedy(ix, t)
        \/ /\ ResolveTargetIn(ix, t, TRUE).narrowedBy = "textNear" /\ FailsText(ix, t) /\ ~FailsLabel(ix, t)
           /\ ~FailsName(ix, t) /\ ~FailsRole(ix, t) /\ ~FailsWithin(ix, t)
           /\ ResolveTargetIn(ix, t, TRUE).remedy = TextRemedy(t)
        \/ /\ ResolveTargetIn(ix, t, TRUE).narrowedBy = "ordinal" /\ Left(ix, t) # {} /\ t.nth # Absent
           /\ ResolveTargetIn(ix, t, TRUE).remedy = OrdinalRemedy(t)
    BY <2>1, NotFoundIs, Zenon
  <2>3. \/ /\ before.narrowedBy = Absent /\ before.remedy = {}
        \/ /\ before.narrowedBy = "within" /\ FailsWithin(ix, t) /\ before.remedy = WithinRemedy(ix, t)
        \/ /\ before.narrowedBy = "role" /\ FailsRole(ix, t) /\ ~FailsWithin(ix, t)
           /\ before.remedy = RoleRemedy(ix, t, WithinLeft(ix, t))
        \/ /\ before.narrowedBy = "name" /\ FailsName(ix, t) /\ ~FailsRole(ix, t) /\ ~FailsWithin(ix, t)
           /\ before.remedy = NameRemedy(ix, t)
        \/ /\ before.narrowedBy = "label" /\ FailsLabel(ix, t)
           /\ ~FailsName(ix, t) /\ ~FailsRole(ix, t) /\ ~FailsWithin(ix, t)
           /\ before.remedy = LabelRemedy(ix, t)
        \/ /\ before.narrowedBy = "textNear" /\ FailsText(ix, t) /\ ~FailsLabel(ix, t)
           /\ ~FailsName(ix, t) /\ ~FailsRole(ix, t) /\ ~FailsWithin(ix, t)
           /\ before.remedy = TextRemedy(t)
        \/ /\ before.narrowedBy = "ordinal" /\ Left(ix, t) # {} /\ t.nth # Absent
           /\ before.remedy = OrdinalRemedy(t)
    BY <2>2, Zenon
  <2> QED
    BY <2>3, Zenon
<1>4. /\ by = "within" \/ u.within = Absent
      /\ u.within = Absent \/ ~SaidInTwo(ix, u.within.name)
  OBVIOUS
<1> SUFFICES rank > Rank(by) \/ (t.exact /\ ~u.exact)
  OBVIOUS
<1> HIDE DEF by, rank
<1>5. CASE by = Absent /\ before.remedy = {}
  BY <1>1, <1>5
<1>6. CASE by = "within" /\ FailsWithin(ix, t) /\ before.remedy = WithinRemedy(ix, t)
  <2>1. ~FailsWithin(ix, u)
    BY <1>1, <1>4, <1>6, WithinAdvice DEF FailsWithin
  <2> QED
    BY <1>2, <1>6, <2>1, RankIs
<1>7. CASE by = "role" /\ before.remedy = RoleRemedy(ix, t, WithinLeft(ix, t))
  <2>1. ~FailsWithin(ix, u) /\ ~FailsRole(ix, u)
    BY <1>1, <1>4, <1>7, RoleAdvice
  <2> QED
    BY <1>2, <1>7, <2>1, RankIs
<1>8. CASE /\ by = "name" /\ FailsName(ix, t) /\ ~FailsRole(ix, t) /\ ~FailsWithin(ix, t)
           /\ before.remedy = NameRemedy(ix, t)
  <2>1. \/ ~FailsWithin(ix, u) /\ ~FailsRole(ix, u) /\ ~FailsName(ix, u)
        \/ t.exact /\ ~u.exact
    BY <1>1, <1>4, <1>8, NameAdvice
  <2> QED
    BY <1>2, <1>8, <2>1, RankIs
<1>9. CASE by = "label" /\ FailsLabel(ix, t) /\ before.remedy = LabelRemedy(ix, t)
  <2>1. ~FailsWithin(ix, u) /\ ~FailsRole(ix, u) /\ ~FailsName(ix, u) /\ ~FailsLabel(ix, u)
    BY <1>1, <1>4, <1>9, LabelAdvice
  <2> QED
    BY <1>2, <1>9, <2>1, RankIs
<1>10. CASE /\ by = "textNear" /\ ~FailsLabel(ix, t)
           /\ ~FailsName(ix, t) /\ ~FailsRole(ix, t) /\ ~FailsWithin(ix, t)
           /\ before.remedy = TextRemedy(t)
  <2>0. u = [t EXCEPT !.textNear = Absent]
    BY <1>1, <1>10 DEF TextRemedy
  <2>1. /\ ~FailsText(ix, u) /\ ~FailsLabel(ix, u) /\ ~FailsName(ix, u)
        /\ ~FailsRole(ix, u) /\ ~FailsWithin(ix, u)
    BY <1>1, <1>10, <2>0, NearnessAdvice
  <2> QED
    BY <1>2, <1>10, <2>1, RankIs
<1>11. CASE by = "ordinal" /\ Left(ix, t) # {} /\ before.remedy = OrdinalRemedy(t)
  <2>0. u = [t EXCEPT !.nth = Absent]
    BY <1>1, <1>11 DEF OrdinalRemedy
  <2>1. Left(ix, u) # {} /\ u.nth = Absent
    <3>1. /\ Left(ix, [t EXCEPT !.nth = Absent]) = Left(ix, t)
          /\ [t EXCEPT !.nth = Absent].nth = Absent
      BY <1>1, PositionLeft
    <3> QED
      BY <1>11, <2>0, <3>1
  <2>2. /\ ~FailsText(ix, u) /\ ~FailsLabel(ix, u) /\ ~FailsName(ix, u)
        /\ ~FailsRole(ix, u) /\ ~FailsWithin(ix, u)
    BY <1>1, <2>1, LeftIs DEF FailsText, FailsLabel, FailsName, FailsRole, FailsWithin
  <2>3. rank > 5 /\ rank # 6 /\ rank \in 1..7
    BY <1>2, <2>1, <2>2
  <2> QED
    BY <1>11, <2>3, RankIs
<1> QED
  BY <1>3, <1>5, <1>6, <1>7, <1>8, <1>9, <1>10, <1>11

\* Advice can be taken: on a screen that does not change, what a report says to try
\* fails at a later criterion if it fails, or asks for less of the name.
THEOREM AdviceIsFollowed == Spec => AdviceGetsFurther
<1>1. Answered /\ [Next]_vars =>
        [(/\ answer.tag = "NotFound" /\ answer'.tag = "NotFound"
          /\ \/ target'.within = Absent
             \/ answer.narrowedBy = "within" /\ ~SaidInTwo(index, target'.within.name)) =>
           \/ Rank(answer'.narrowedBy) > Rank(answer.narrowedBy)
           \/ target.exact /\ ~target'.exact]_vars
  <2> SUFFICES ASSUME Answered, Next, answer.tag = "NotFound", answer'.tag = "NotFound",
                      \/ target'.within = Absent
                      \/ answer.narrowedBy = "within" /\ ~SaidInTwo(index, target'.within.name)
               PROVE  \/ Rank(answer'.narrowedBy) > Rank(answer.narrowedBy)
                      \/ target.exact /\ ~target'.exact
    OBVIOUS
  <2>1. Indexed(index) /\ target \in TargetType /\ answer = ResolveTargetIn(index, target, TRUE)
    BY ScreensIndexed, AnsweredIs DEF Answered
  <2>2. /\ target' \in answer.remedy /\ target' \in TargetType
        /\ answer' = ResolveTargetIn(index, target', TRUE)
    BY FollowIs
  <2> QED
    BY <2>1, <2>2, AdviceAnswers
<1> QED
  BY <1>1, AnsweredInit, AnsweredNext, PTL DEF Spec, AdviceGetsFurther
=============================================================================
