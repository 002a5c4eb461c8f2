----------------------------- MODULE ChoresProofs -----------------------------
(***************************************************************************)
(* Proofs about Chores, for every set of problems, vocabularies, defaults  *)
(* and number of events.                                                   *)
(***************************************************************************)
EXTENDS Chores, FiniteSetTheorems, WellFoundedInduction, TLAPS

-----------------------------------------------------------------------------
(***************************************************************************)
(* Places, and what lies at them.                                          *)
(***************************************************************************)

\* The least-number principle, which is the induction that is used here.
LEMMA Least ==
  ASSUME NEW T \in SUBSET Nat, T # {}
  PROVE  \E x \in T : \A y \in T : x <= y
  <1> DEFINE R == {ss \in Nat \X Nat : ss[1] < ss[2]}
  <1>1. IsWellFoundedOn(R, Nat)
    BY NatLessThanWellFounded DEF OpToRel
  <1>2. PICK x \in T : \A y \in T : ~(<<y, x>> \in R)
    <2> HIDE DEF R
    <2> QED
      BY <1>1, WFMin
  <1>3. ASSUME NEW y \in T, y < x PROVE FALSE
    <2>1. <<y, x>> \in Nat \X Nat /\ <<y, x>>[1] < <<y, x>>[2]
      BY <1>3
    <2> QED
      BY <1>2, <2>1
  <1> QED
    BY <1>3

Rank(P, i) == Cardinality({j \in P : j <= i})

LEMMA RankRange ==
  ASSUME NEW P \in SUBSET Nat, IsFiniteSet(P), NEW i \in P
  PROVE  Rank(P, i) \in 1 .. Cardinality(P)
  <1> DEFINE L == {j \in P : j <= i}
  <1>1. IsFiniteSet(L) /\ Cardinality(L) <= Cardinality(P)
    BY FS_Subset
  <1>2. L # {}
    OBVIOUS
  <1> HIDE DEF L
  <1>3. Cardinality(L) \in Nat /\ Cardinality(P) \in Nat /\ Cardinality(L) # 0
    BY <1>1, <1>2, FS_CardinalityType, FS_EmptySet
  <1> QED
    BY <1>1, <1>3 DEF Rank, L

LEMMA RankGrows ==
  ASSUME NEW P \in SUBSET Nat, IsFiniteSet(P), NEW i \in P, NEW j \in P, i < j
  PROVE  Rank(P, i) < Rank(P, j)
  <1> DEFINE L == {k \in P : k <= i}
             M == {k \in P : k <= j}
  <1>1. L \in SUBSET M /\ j \in M /\ j \notin L
    <2>1. i \in Nat /\ j \in Nat /\ \A k \in P : k \in Nat
      OBVIOUS
    <2>2. \A k \in P : k <= i => k <= j
      BY <2>1
    <2>3. ~(j <= i) /\ j <= j
      BY <2>1
    <2> QED
      BY <2>2, <2>3, Zenon
  <1>2. IsFiniteSet(M)
    BY FS_Subset
  <1> HIDE DEF L, M
  <1>3. IsFiniteSet(L) /\ Cardinality(L) <= Cardinality(M) /\ Cardinality(L) # Cardinality(M)
    BY <1>1, <1>2, FS_Subset
  <1>4. Cardinality(L) \in Nat /\ Cardinality(M) \in Nat
    BY <1>2, <1>3, FS_CardinalityType
  <1> QED
    BY <1>3, <1>4 DEF Rank, L, M

\* InOrder goes through all the places, each once.
LEMMA InOrderIs ==
  ASSUME NEW P \in SUBSET Nat, IsFiniteSet(P)
  PROVE  /\ Cardinality(P) \in Nat
         /\ InOrder(P) \in [1 .. Cardinality(P) -> P]
         /\ \A k \in 1 .. Cardinality(P) : Rank(P, InOrder(P)[k]) = k
         /\ \A i \in P : \E k \in 1 .. Cardinality(P) : InOrder(P)[k] = i
  <1>0. Cardinality(P) \in Nat
    BY FS_CardinalityType
  <1> DEFINE n == Cardinality(P)
             f == [i \in P |-> Rank(P, i)]
  <1>1. f \in [P -> 1 .. n]
    BY RankRange
  <1>2. \A i, j \in P : f[i] = f[j] => i = j
    <2> SUFFICES ASSUME NEW i \in P, NEW j \in P, i # j PROVE Rank(P, i) # Rank(P, j)
      BY Zenon
    <2>1. CASE i < j
      BY <2>1, RankGrows, RankRange
    <2>2. CASE j < i
      BY <2>2, RankGrows, RankRange
    <2> QED
      BY <2>1, <2>2
  <1>3. f \in Injection(P, 1 .. n)
    <2> HIDE DEF f
    <2> QED
      BY <1>1, <1>2 DEF Injection, IsInjective
  <1>4. IsFiniteSet(1 .. n) /\ Cardinality(1 .. n) = n
    BY <1>0, FS_Interval
  <1>5. f \in Surjection(P, 1 .. n)
    <2> HIDE DEF f
    <2> QED
      BY <1>3, <1>4, FS_Injection
  <1>6. \A k \in 1 .. n : \E i \in P : Rank(P, i) = k
    BY <1>5 DEF Surjection
  <1>7. \A k \in 1 .. n : InOrder(P)[k] \in P /\ Rank(P, InOrder(P)[k]) = k
    BY <1>6 DEF InOrder, Rank
  <1>8. InOrder(P) \in [1 .. n -> P]
    BY <1>7 DEF InOrder
  <1>9. ASSUME NEW i \in P PROVE \E k \in 1 .. n : InOrder(P)[k] = i
    <2>1. Rank(P, i) \in 1 .. n
      BY RankRange
    <2>2. InOrder(P)[Rank(P, i)] \in P /\ f[InOrder(P)[Rank(P, i)]] = f[i]
      BY <1>7, <2>1
    <2> HIDE DEF f
    <2> QED
      BY <1>2, <2>1, <2>2
  <1> QED
    BY <1>0, <1>7, <1>8, <1>9

\* Neighbouring places keep their order.
LEMMA Neighbours ==
  ASSUME NEW a \in Nat, NEW n \in Nat
  PROVE  /\ Cardinality(a + 1 .. a + n) = n /\ IsFiniteSet(a + 1 .. a + n)
         /\ InOrder(a + 1 .. a + n) = [k \in 1 .. n |-> a + k]
  <1> DEFINE P == a + 1 .. a + n
  <1>1. IsFiniteSet(P) /\ Cardinality(P) = n
    BY FS_Interval
  <1>2. ASSUME NEW i \in P PROVE Rank(P, i) = i - a
    <2>1. {j \in P : j <= i} = a + 1 .. i
      OBVIOUS
    <2>2. Cardinality(a + 1 .. i) = i - a
      BY FS_Interval
    <2> QED
      BY <2>1, <2>2 DEF Rank
  <1>3. P \in SUBSET Nat
    OBVIOUS
  <1>4. InOrder(P) \in [1 .. n -> P] /\ \A k \in 1 .. n : Rank(P, InOrder(P)[k]) = k
    BY <1>1, <1>3, InOrderIs
  <1>5. ASSUME NEW k \in 1 .. n PROVE InOrder(P)[k] = a + k
    <2>1. InOrder(P)[k] \in P /\ Rank(P, InOrder(P)[k]) = k
      BY <1>4
    <2>2. InOrder(P)[k] - a = k /\ InOrder(P)[k] \in Int
      BY <1>2, <2>1
    <2> HIDE DEF P
    <2> QED
      BY <2>2
  <1> QED
    BY <1>1, <1>4, <1>5

\* At keeps what is at the places and nothing else.
LEMMA AtIs ==
  ASSUME NEW q, NEW P \in SUBSET Nat, IsFiniteSet(P)
  PROVE  /\ DOMAIN At(q, P) = 1 .. Cardinality(P) /\ Cardinality(P) \in Nat
         /\ Len(At(q, P)) = Cardinality(P)
         /\ \A k \in 1 .. Cardinality(P) : InOrder(P)[k] \in P /\ At(q, P)[k] = q[InOrder(P)[k]]
         /\ \A i \in P : \E k \in 1 .. Cardinality(P) : InOrder(P)[k] = i
  <1>1. At(q, P) = [k \in 1 .. Cardinality(P) |-> q[InOrder(P)[k]]]
    BY InOrderIs DEF At
  <1>2. Cardinality(P) \in Nat
    BY InOrderIs
  <1>3. Len(At(q, P)) = Cardinality(P)
    BY <1>1, <1>2
  <1> QED
    BY <1>1, <1>3, InOrderIs

\* r is what q has at n neighbouring places, from a on.
Copied(r, q, a, n) ==
  /\ a \in Nat /\ n \in Nat /\ (\E S : r \in Seq(S)) /\ Len(r) = n
  /\ \A k \in 1 .. n : q[a + k] = r[k]

LEMMA AtNeighbours ==
  ASSUME NEW q, NEW a, NEW n, NEW r, Copied(r, q, a, n)
  PROVE  At(q, a + 1 .. a + n) = r
  <1> DEFINE P == a + 1 .. a + n
  <1>0. a \in Nat /\ n \in Nat
    BY DEF Copied
  <1>1. InOrder(P) = [k \in 1 .. n |-> a + k]
    BY <1>0, Neighbours
  <1> HIDE DEF P
  <1>2. DOMAIN InOrder(P) = 1 .. n /\ \A k \in 1 .. n : InOrder(P)[k] = a + k
    BY <1>1
  <1>3. At(q, P) = [k \in 1 .. n |-> q[a + k]]
    BY <1>2, Zenon DEF At
  <1>4. [k \in 1 .. n |-> q[a + k]] = [k \in 1 .. n |-> r[k]]
    BY Zenon DEF Copied
  <1>5. r = [k \in 1 .. n |-> r[k]]
    BY DEF Copied
  <1> QED
    BY <1>3, <1>4, <1>5, Zenon DEF P

-----------------------------------------------------------------------------
(***************************************************************************)
(* Documents: parse finds again what render wrote.                         *)
(***************************************************************************)

IsFirst(lines, i, kinds, k) ==
  /\ k \in i .. Len(lines) + 1
  /\ k = Len(lines) + 1 \/ lines[k].kind \in kinds
  /\ \A j \in i .. k - 1 : lines[j].kind \notin kinds

LEMMA FirstExists ==
  ASSUME NEW lines, Len(lines) \in Nat, NEW kinds, NEW i \in 1 .. Len(lines) + 1
  PROVE  IsFirst(lines, i, kinds, FirstOf(lines, i, kinds))
  <1> DEFINE T == {k \in i .. Len(lines) + 1 : k = Len(lines) + 1 \/ lines[k].kind \in kinds}
  <1>1. T \in SUBSET Nat /\ Len(lines) + 1 \in T
    OBVIOUS
  <1>2. PICK k \in T : \A j \in T : k <= j
    <2> HIDE DEF T
    <2> QED
      BY <1>1, Least
  <1>3. ASSUME NEW j \in i .. k - 1 PROVE lines[j].kind \notin kinds
    <2>1. j \in i .. Len(lines) + 1 /\ ~(k <= j)
      BY <1>2
    <2> QED
      BY <1>2, <2>1
  <1>4. \E x \in i .. Len(lines) + 1 : IsFirst(lines, i, kinds, x)
    BY <1>2, <1>3, Zenon DEF IsFirst
  <1> HIDE DEF T
  <1>5. FirstOf(lines, i, kinds) =
          CHOOSE x \in i .. Len(lines) + 1 :
            /\ x = Len(lines) + 1 \/ lines[x].kind \in kinds
            /\ \A j \in i .. x - 1 : lines[j].kind \notin kinds
    BY Zenon DEF FirstOf
  <1> QED
    BY <1>4, <1>5, Zenon DEF IsFirst

LEMMA FirstIsThis ==
  ASSUME NEW lines, Len(lines) \in Nat, NEW kinds, NEW i \in 1 .. Len(lines) + 1,
         NEW k, IsFirst(lines, i, kinds, k)
  PROVE  FirstOf(lines, i, kinds) = k
  <1> DEFINE m == FirstOf(lines, i, kinds)
  <1>1. IsFirst(lines, i, kinds, m)
    BY FirstExists
  <1> HIDE DEF m
  <1>2. m \in i .. Len(lines) + 1 /\ k \in i .. Len(lines) + 1
    BY <1>1 DEF IsFirst
  <1>3. ASSUME m < k PROVE FALSE
    <2>1. m \in i .. k - 1 /\ m # Len(lines) + 1
      BY <1>2, <1>3
    <2> QED
      BY <1>1, <2>1, Zenon DEF IsFirst
  <1>4. ASSUME k < m PROVE FALSE
    <2>1. k \in i .. m - 1 /\ k # Len(lines) + 1
      BY <1>2, <1>4
    <2> QED
      BY <1>1, <2>1, Zenon DEF IsFirst
  <1>5. m = k
    BY <1>2, <1>3, <1>4
  <1> QED
    BY <1>5 DEF m

\* The lines there are.
RowLine == [kind : {"row"}, slug : Slug \cup {Odd, NoSlug}, easy : BOOLEAN,
            limit : {"same", "other", "none"}]
NumberedLine == [kind : {"tag"}, tag : Slug]
MarkLine == [kind : Kinds \ {"row", "tag"}]
Line == RowLine \cup NumberedLine \cup MarkLine

\* What parse returns: rows are rows and tags are tags.
Proper(c) ==
  /\ c.rows \in Seq(Line) /\ \A i \in 1 .. Len(c.rows) : IsRow(c.rows[i])
  /\ c.tags \in Seq(Line) /\ \A i \in 1 .. Len(c.tags) : c.tags[i].kind = "tag"

LEMMA MarkIsLine ==
  ASSUME NEW kind \in Kinds \ {"row", "tag"}
  PROVE  Mark(kind) \in Line /\ Mark(kind).kind = kind
  BY DEF Mark, Line, MarkLine

LEMMA ConcatIs ==
  ASSUME NEW S, NEW s \in Seq(S), NEW t \in Seq(S)
  PROVE  /\ s \o t \in Seq(S) /\ Len(s) \in Nat /\ Len(t) \in Nat
         /\ Len(s \o t) = Len(s) + Len(t)
         /\ \A k \in 1 .. Len(s) : (s \o t)[k] = s[k]
         /\ \A k \in 1 .. Len(t) : (s \o t)[Len(s) + k] = t[k]
  OBVIOUS

\* The document that render writes of n rows and m tag lines, line by line.
Laid(lines, c, n, m) ==
  /\ lines \in Seq(Line) /\ n \in Nat /\ m \in Nat
  /\ Len(lines) = IF m = 0 THEN n + 10 ELSE n + m + 9
  /\ lines[1].kind = "title" /\ lines[2].kind = "blank" /\ lines[3].kind = "general"
  /\ lines[4].kind = "blank" /\ lines[5].kind = "header" /\ lines[6].kind = "separator"
  /\ \A k \in 1 .. n : lines[6 + k] = c.rows[k]
  /\ lines[n + 7].kind = "blank" /\ lines[n + 8].kind = "suggested"
  /\ lines[n + 9].kind = "blank"
  /\ m = 0 => lines[n + 10].kind = "none"
  /\ m # 0 => \A k \in 1 .. m : lines[n + 9 + k] = c.tags[k]

LEMMA RenderIs ==
  ASSUME NEW c, Proper(c), NEW lines, lines = render(c),
         NEW n, n = Len(c.rows), NEW m, m = Len(c.tags)
  PROVE  Laid(lines, c, n, m)
  <1> DEFINE A == <<Mark("title"), Mark("blank"), Mark("general"), Mark("blank"),
                    Mark("header"), Mark("separator")>>
             B == <<Mark("blank"), Mark("suggested"), Mark("blank")>>
             D == IF c.tags = <<>> THEN <<Mark("none")>> ELSE c.tags
  <1>0. c.rows \in Seq(Line) /\ c.tags \in Seq(Line) /\ n \in Nat /\ m \in Nat
    BY DEF Proper
  <1>k. {"title", "blank", "general", "header", "separator", "suggested", "none"}
          \subseteq Kinds \ {"row", "tag"}
    BY DEF Kinds
  <1>1. /\ A \in Seq(Line) /\ Len(A) = 6
        /\ A[1].kind = "title" /\ A[2].kind = "blank" /\ A[3].kind = "general"
        /\ A[4].kind = "blank" /\ A[5].kind = "header" /\ A[6].kind = "separator"
    BY <1>k, MarkIsLine
  <1>2. /\ B \in Seq(Line) /\ Len(B) = 3
        /\ B[1].kind = "blank" /\ B[2].kind = "suggested" /\ B[3].kind = "blank"
    BY <1>k, MarkIsLine
  <1>3. /\ D \in Seq(Line)
        /\ m = 0 => Len(D) = 1 /\ D[1].kind = "none"
        /\ m # 0 => D = c.tags /\ Len(D) = m
    <2>1. CASE c.tags = <<>>
      <3>1. D = <<Mark("none")>>
        BY <2>1
      <3>2. m = 0
        BY <2>1
      <3>3. Mark("none") \in Line /\ Mark("none").kind = "none"
        BY <1>k, MarkIsLine
      <3>4. /\ <<Mark("none")>> \in Seq(Line) /\ Len(<<Mark("none")>>) = 1
            /\ <<Mark("none")>>[1] = Mark("none")
        BY <3>3
      <3> QED
        BY <3>1, <3>2, <3>3, <3>4, Zenon
    <2>2. CASE c.tags # <<>>
      <3>1. D = c.tags /\ m # 0
        BY <1>0, <2>2
      <3> QED
        BY <1>0, <3>1
    <2> QED
      BY <2>1, <2>2
  <1> DEFINE E == A \o c.rows
             F == E \o B
             G == F \o D
  <1>4. render(c) = G
    BY DEF render
  <1> HIDE DEF A, B, D
  <1>5. /\ E \in Seq(Line) /\ Len(E) = n + 6
        /\ \A k \in 1 .. 6 : E[k] = A[k]
        /\ \A k \in 1 .. n : E[6 + k] = c.rows[k]
    <2>1. /\ A \o c.rows \in Seq(Line) /\ Len(A \o c.rows) = Len(A) + Len(c.rows)
          /\ \A k \in 1 .. Len(A) : (A \o c.rows)[k] = A[k]
          /\ \A k \in 1 .. Len(c.rows) : (A \o c.rows)[Len(A) + k] = c.rows[k]
      <3>1. A \in Seq(Line)
        BY <1>1
      <3>2. c.rows \in Seq(Line)
        BY <1>0
      <3> QED
        BY <3>1, <3>2, ConcatIs
    <2>2. /\ E \in Seq(Line) /\ Len(E) = 6 + n
          /\ \A k \in 1 .. 6 : E[k] = A[k]
          /\ \A k \in 1 .. n : E[6 + k] = c.rows[k]
      BY <1>1, <2>1, Zenon
    <2> HIDE DEF E
    <2> QED
      BY <1>0, <2>2
  <1> HIDE DEF E
  <1>6. /\ F \in Seq(Line) /\ Len(F) = n + 9
        /\ \A k \in 1 .. n + 6 : F[k] = E[k]
        /\ F[n + 7] = B[1] /\ F[n + 8] = B[2] /\ F[n + 9] = B[3]
    <2>1. /\ F \in Seq(Line) /\ Len(F) = Len(E) + Len(B)
          /\ \A k \in 1 .. Len(E) : F[k] = E[k]
          /\ \A k \in 1 .. Len(B) : F[Len(E) + k] = B[k]
      <3>1. B \in Seq(Line) /\ E \in Seq(Line)
        BY <1>2, <1>5
      <3> QED
        BY <3>1, ConcatIs
    <2>2. n \in Nat /\ Len(E) = n + 6 /\ Len(B) = 3
      BY <1>0, <1>2, <1>5
    <2> HIDE DEF F
    <2>3. F[n + 6 + 1] = B[1] /\ F[n + 6 + 2] = B[2] /\ F[n + 6 + 3] = B[3]
      BY <2>1, <2>2
    <2>4. n + 6 + 1 = n + 7 /\ n + 6 + 2 = n + 8 /\ n + 6 + 3 = n + 9
      BY <2>2
    <2> QED
      BY <2>1, <2>2, <2>3, <2>4
  <1> HIDE DEF F
  <1>7. /\ G \in Seq(Line) /\ Len(G) = n + 9 + Len(D)
        /\ \A k \in 1 .. n + 9 : G[k] = F[k]
        /\ \A k \in 1 .. Len(D) : G[n + 9 + k] = D[k]
    <2>1. /\ G \in Seq(Line) /\ Len(G) = Len(F) + Len(D)
          /\ \A k \in 1 .. Len(F) : G[k] = F[k]
          /\ \A k \in 1 .. Len(D) : G[Len(F) + k] = D[k]
      <3>1. D \in Seq(Line) /\ F \in Seq(Line)
        BY <1>3, <1>6
      <3> QED
        BY <3>1, ConcatIs
    <2> HIDE DEF G
    <2>2. Len(F) = n + 9
      BY <1>6
    <2> QED
      BY <2>1, <2>2, Zenon
  <1> HIDE DEF G
  <1>8. Len(G) = IF m = 0 THEN n + 10 ELSE n + m + 9
    <2>1. n \in Nat /\ m \in Nat /\ Len(G) = n + 9 + Len(D)
      BY <1>0, <1>7
    <2>2. (m = 0 => Len(D) = 1) /\ (m # 0 => Len(D) = m)
      BY <1>3, Zenon
    <2>3. CASE m = 0
      <3>1. Len(G) = n + 9 + 1
        BY <2>1, <2>2, <2>3, Zenon
      <3> QED
        BY <2>1, <2>3, <3>1
    <2>4. CASE m # 0
      <3>1. Len(G) = n + 9 + m
        BY <2>1, <2>2, <2>4, Zenon
      <3>2. \A a, b \in Nat : a + 9 + b = a + b + 9
        OBVIOUS
      <3>3. n + 9 + m = n + m + 9
        BY <2>1, <3>2, Zenon
      <3> QED
        BY <2>4, <3>1, <3>3, Zenon
    <2> QED
      BY <2>3, <2>4
  <1>9. /\ \A k \in 1 .. 6 : G[k] = A[k]
        /\ \A k \in 1 .. n : G[6 + k] = c.rows[k]
        /\ G[n + 7] = B[1] /\ G[n + 8] = B[2] /\ G[n + 9] = B[3]
    <2>1. n \in Nat
      BY <1>0
    <2>2. ASSUME NEW k \in 1 .. 6 PROVE G[k] = A[k]
      <3>1. k \in 1 .. n + 9 /\ k \in 1 .. n + 6
        BY <2>1
      <3> QED
        BY <1>5, <1>6, <1>7, <3>1, Zenon
    <2>3. ASSUME NEW k \in 1 .. n PROVE G[6 + k] = c.rows[k]
      <3>1. 6 + k \in 1 .. n + 9 /\ 6 + k \in 1 .. n + 6
        BY <2>1
      <3> QED
        BY <1>5, <1>6, <1>7, <3>1, Zenon
    <2>4. n + 7 \in 1 .. n + 9 /\ n + 8 \in 1 .. n + 9 /\ n + 9 \in 1 .. n + 9
      BY <2>1
    <2>5. G[n + 7] = B[1] /\ G[n + 8] = B[2] /\ G[n + 9] = B[3]
      BY <1>6, <1>7, <2>4, Zenon
    <2> QED
      BY <2>2, <2>3, <2>5
  <1>10. /\ m = 0 => G[n + 10].kind = "none"
         /\ m # 0 => \A k \in 1 .. m : G[n + 9 + k] = c.tags[k]
    <2>1. CASE m = 0
      <3>0. Len(D) = 1 /\ D[1].kind = "none" /\ 1 \in 1 .. 1
        BY <1>3, <2>1
      <3>1. G[n + 9 + 1] = D[1]
        BY <1>7, <3>0, Zenon
      <3>2. n + 9 + 1 = n + 10
        BY <1>0
      <3> QED
        BY <2>1, <3>0, <3>1, <3>2
    <2>2. CASE m # 0
      BY <1>3, <1>7, <2>2
    <2> QED
      BY <2>1, <2>2
  <1>11. /\ G[1].kind = "title" /\ G[2].kind = "blank" /\ G[3].kind = "general"
         /\ G[4].kind = "blank" /\ G[5].kind = "header" /\ G[6].kind = "separator"
         /\ G[n + 7].kind = "blank" /\ G[n + 8].kind = "suggested" /\ G[n + 9].kind = "blank"
    <2>1. 1 \in 1 .. 6 /\ 2 \in 1 .. 6 /\ 3 \in 1 .. 6 /\ 4 \in 1 .. 6 /\ 5 \in 1 .. 6 /\ 6 \in 1 .. 6
      OBVIOUS
    <2> QED
      BY <1>1, <1>2, <1>9, <2>1, Zenon
  <1>12. lines = G
    BY <1>4
  <1>13. G \in Seq(Line)
    BY <1>7
  <1>14. \A k \in 1 .. n : G[6 + k] = c.rows[k]
    BY <1>9
  <1>15. Laid(G, c, n, m)
    BY <1>0, <1>8, <1>10, <1>11, <1>13, <1>14, ZenonT(40) DEF Laid
  <1> QED
    BY <1>12, <1>15, Zenon

\* Places of a sequence.
LEMMA PlacesAre ==
  ASSUME NEW n \in Nat, NEW P \in SUBSET (1 .. n)
  PROVE  P \in SUBSET Nat /\ IsFiniteSet(P)
  <1>1. IsFiniteSet(1 .. n)
    BY FS_Interval
  <1>2. IsFiniteSet(P)
    BY <1>1, FS_Subset
  <1> QED
    BY <1>2

\* What is picked from a sequence is a sequence of what lies at the places.
LEMMA AtSeq ==
  ASSUME NEW S, NEW q \in Seq(S), NEW P \in SUBSET (1 .. Len(q))
  PROVE  /\ At(q, P) \in Seq(S)
         /\ Len(At(q, P)) = Cardinality(P) /\ Cardinality(P) \in Nat
         /\ \A k \in 1 .. Len(At(q, P)) : InOrder(P)[k] \in P /\ At(q, P)[k] = q[InOrder(P)[k]]
         /\ \A i \in P : \E k \in 1 .. Len(At(q, P)) : InOrder(P)[k] = i
         /\ \A j, k \in 1 .. Len(At(q, P)) : InOrder(P)[j] = InOrder(P)[k] => j = k
  <1>0. Len(q) \in Nat
    OBVIOUS
  <1>1. P \in SUBSET Nat /\ IsFiniteSet(P)
    BY <1>0, PlacesAre
  <1>2. /\ DOMAIN At(q, P) = 1 .. Cardinality(P) /\ Cardinality(P) \in Nat
        /\ Len(At(q, P)) = Cardinality(P)
        /\ \A k \in 1 .. Cardinality(P) : InOrder(P)[k] \in P /\ At(q, P)[k] = q[InOrder(P)[k]]
        /\ \A i \in P : \E k \in 1 .. Cardinality(P) : InOrder(P)[k] = i
    BY <1>1, AtIs
  <1>3. At(q, P) = [k \in 1 .. Cardinality(P) |-> q[InOrder(P)[k]]]
    BY <1>1, InOrderIs DEF At
  <1>4. \A i \in P : q[i] \in S
    OBVIOUS
  <1>5. At(q, P) \in [1 .. Cardinality(P) -> S]
    BY <1>2, <1>3, <1>4
  <1>6. At(q, P) \in Seq(S)
    BY <1>2, <1>5
  <1>7. \A k \in 1 .. Cardinality(P) : Rank(P, InOrder(P)[k]) = k
    BY <1>1, InOrderIs
  <1> QED
    BY <1>2, <1>6, <1>7, Zenon

LEMMA AtNone == ASSUME NEW q PROVE At(q, {}) = <<>>
  <1>1. {} \in SUBSET Nat /\ IsFiniteSet({}) /\ Cardinality({}) = 0
    BY FS_EmptySet
  <1>2. At(q, {}) = [k \in 1 .. 0 |-> q[InOrder({})[k]]]
    BY <1>1, InOrderIs DEF At
  <1> QED
    BY <1>2

RowPlaces(lines) == {i \in 1 .. Len(lines) : IsRow(lines[i])}
TagPlaces(lines) == {i \in 1 .. Len(lines) : lines[i].kind = "tag"}

\* parse picks rows and tag lines out of the document, in its order.
LEMMA RowsArePicked ==
  ASSUME NEW lines \in Seq(Line)
  PROVE  \E P \in SUBSET RowPlaces(lines) : TableRows(lines) = At(lines, P)
  <1> DEFINE heading == FirstOf(lines, 1, {"general"})
             first   == FirstOf(lines, heading, Table)
             end     == FirstOf(lines, first, Kinds \ Table)
             P == {i \in first + 2 .. end - 1 : IsRow(lines[i])}
  <1>0. Len(lines) \in Nat /\ 1 \in 1 .. Len(lines) + 1
    OBVIOUS
  <1>1. heading \in 1 .. Len(lines) + 1
    BY <1>0, FirstExists DEF IsFirst
  <1> HIDE DEF heading
  <1>2. first \in heading .. Len(lines) + 1
    BY <1>0, <1>1, FirstExists DEF IsFirst
  <1>3. first \in 1 .. Len(lines) + 1
    BY <1>0, <1>1, <1>2
  <1> HIDE DEF first
  <1>4. end \in first .. Len(lines) + 1
    BY <1>0, <1>3, FirstExists DEF IsFirst
  <1> HIDE DEF end
  <1>5. P \in SUBSET RowPlaces(lines)
    BY <1>0, <1>3, <1>4 DEF RowPlaces
  <1>6. TableRows(lines) = IF heading > Len(lines) \/ end < first + 3 \/ lines[first].kind # "header"
                           THEN <<>> ELSE At(lines, P)
    BY DEF TableRows, heading, first, end
  <1> HIDE DEF P
  <1>7. {} \in SUBSET RowPlaces(lines) /\ At(lines, {}) = <<>>
    BY AtNone
  <1> QED
    BY <1>5, <1>6, <1>7, Zenon

LEMMA TagsArePicked ==
  ASSUME NEW lines \in Seq(Line)
  PROVE  \E P \in SUBSET TagPlaces(lines) : TagLines(lines) = At(lines, P)
  <1> DEFINE heading == FirstOf(lines, 1, {"suggested"})
             end     == FirstOf(lines, heading + 1,
                                {"general", "suggested", "heading", "rule", "none"})
             P == {i \in heading .. end - 1 : lines[i].kind = "tag"}
  <1>0. Len(lines) \in Nat /\ 1 \in 1 .. Len(lines) + 1
    OBVIOUS
  <1>1. heading \in 1 .. Len(lines) + 1
    BY <1>0, FirstExists DEF IsFirst
  <1>2. TagLines(lines) = IF heading > Len(lines) \/ (end <= Len(lines) /\ lines[end].kind = "none")
                          THEN <<>> ELSE At(lines, P)
    BY DEF TagLines
  <1>3. {} \in SUBSET TagPlaces(lines) /\ At(lines, {}) = <<>>
    BY AtNone
  <1> HIDE DEF heading
  <1>4. CASE heading > Len(lines)
    BY <1>2, <1>3, <1>4, Zenon
  <1>5. CASE ~(heading > Len(lines))
    <2>1. heading + 1 \in 1 .. Len(lines) + 1
      BY <1>0, <1>1, <1>5
    <2>2. end \in heading + 1 .. Len(lines) + 1
      BY <1>0, <2>1, FirstExists DEF IsFirst
    <2> HIDE DEF end
    <2>3. P \in SUBSET TagPlaces(lines)
      BY <1>0, <1>1, <2>2 DEF TagPlaces
    <2> HIDE DEF P
    <2> QED
      BY <1>2, <1>3, <2>3, Zenon
  <1> QED
    BY <1>4, <1>5

LEMMA ParseIsProper ==
  ASSUME NEW lines \in Seq(Line)
  PROVE  Proper(parse(lines))
  <1> DEFINE c == parse(lines)
  <1>1. c.rows = TableRows(lines) /\ c.tags = TagLines(lines)
    BY DEF parse
  <1> HIDE DEF c
  <1>2. c.rows \in Seq(Line) /\ \A i \in 1 .. Len(c.rows) : IsRow(c.rows[i])
    <2>1. PICK P \in SUBSET RowPlaces(lines) : c.rows = At(lines, P)
      BY <1>1, RowsArePicked
    <2>2. P \in SUBSET (1 .. Len(lines)) /\ \A i \in P : IsRow(lines[i])
      BY DEF RowPlaces
    <2>3. /\ At(lines, P) \in Seq(Line)
          /\ \A k \in 1 .. Len(At(lines, P)) :
               InOrder(P)[k] \in P /\ At(lines, P)[k] = lines[InOrder(P)[k]]
      BY <2>2, AtSeq
    <2>4. ASSUME NEW k \in 1 .. Len(At(lines, P)) PROVE IsRow(At(lines, P)[k])
      BY <2>2, <2>3
    <2> QED
      BY <2>1, <2>3, <2>4
  <1>3. c.tags \in Seq(Line) /\ \A i \in 1 .. Len(c.tags) : c.tags[i].kind = "tag"
    <2>1. PICK P \in SUBSET TagPlaces(lines) : c.tags = At(lines, P)
      BY <1>1, TagsArePicked
    <2>2. P \in SUBSET (1 .. Len(lines)) /\ \A i \in P : lines[i].kind = "tag"
      BY DEF TagPlaces
    <2>3. /\ At(lines, P) \in Seq(Line)
          /\ \A k \in 1 .. Len(At(lines, P)) :
               InOrder(P)[k] \in P /\ At(lines, P)[k] = lines[InOrder(P)[k]]
      BY <2>2, AtSeq
    <2>4. ASSUME NEW k \in 1 .. Len(At(lines, P)) PROVE At(lines, P)[k].kind = "tag"
      <3>1. InOrder(P)[k] \in P /\ At(lines, P)[k] = lines[InOrder(P)[k]]
        BY <2>3
      <3> QED
        BY <2>2, <3>1
    <2> QED
      BY <2>1, <2>3, <2>4
  <1>4. Proper(c)
    BY <1>2, <1>3 DEF Proper
  <1> QED
    BY <1>4 DEF c

\* From a document that render wrote, parse reads the rows it was given.
LEMMA RowsComeBack ==
  ASSUME NEW c, Proper(c)
  PROVE  TableRows(render(c)) = c.rows
  <1> DEFINE lines == render(c)
             n == Len(c.rows)
             m == Len(c.tags)
             NotTable == Kinds \ Table
  <1>0. lines = render(c) /\ n = Len(c.rows) /\ m = Len(c.tags)
    OBVIOUS
  <1>2. c.rows \in Seq(Line) /\ \A k \in 1 .. n : IsRow(c.rows[k])
    BY DEF Proper
  <1> HIDE DEF lines, n, m
  <1>l. Laid(lines, c, n, m)
    BY <1>0, RenderIs
  <1>1. /\ lines \in Seq(Line) /\ n \in Nat /\ m \in Nat
        /\ Len(lines) = IF m = 0 THEN n + 10 ELSE n + m + 9
        /\ lines[1].kind = "title" /\ lines[2].kind = "blank" /\ lines[3].kind = "general"
        /\ lines[4].kind = "blank" /\ lines[5].kind = "header" /\ lines[6].kind = "separator"
        /\ \A k \in 1 .. n : lines[6 + k] = c.rows[k]
        /\ lines[n + 7].kind = "blank"
    BY <1>l, Zenon DEF Laid
  <1> DEFINE len == Len(lines)
  <1>3. len \in Nat /\ len >= n + 9
    <2>1. n \in Nat /\ m \in Nat /\ len = IF m = 0 THEN n + 10 ELSE n + m + 9
      BY <1>1, Zenon
    <2> HIDE DEF len
    <2> QED
      BY <2>1
  <1>n. n \in Nat
    BY <1>1
  <1>4. IsFirst(lines, 1, {"general"}, 3)
    <2>1. 3 \in 1 .. len + 1 /\ \A j \in 1 .. 3 - 1 : j = 1 \/ j = 2
      BY <1>3, <1>n
    <2>2. \A j \in 1 .. 3 - 1 : lines[j].kind \notin {"general"}
      BY <1>1, <2>1
    <2> QED
      BY <1>1, <2>1, <2>2, Zenon DEF IsFirst
  <1>5. IsFirst(lines, 3, Table, 5)
    <2>1. 5 \in 3 .. len + 1 /\ \A j \in 3 .. 5 - 1 : j = 3 \/ j = 4
      BY <1>3, <1>n
    <2>2. lines[5].kind \in Table /\ \A j \in 3 .. 5 - 1 : lines[j].kind \notin Table
      BY <1>1, <2>1 DEF Table
    <2> QED
      BY <2>1, <2>2, Zenon DEF IsFirst
  <1>6. IsFirst(lines, 5, NotTable, n + 7)
    <2>1. /\ n + 7 \in 5 .. len + 1
          /\ \A j \in 5 .. (n + 7) - 1 : j = 5 \/ j = 6 \/ \E k \in 1 .. n : j = 6 + k
      <3>1. n + 7 \in 5 .. len + 1
        BY <1>3, <1>n
      <3>2. ASSUME NEW j \in 5 .. (n + 7) - 1, j # 5, j # 6 PROVE \E k \in 1 .. n : j = 6 + k
        <4>1. j - 6 \in 1 .. n /\ j = 6 + (j - 6)
          BY <1>n, <3>2
        <4> QED
          BY <4>1
      <3> QED
        BY <3>1, <3>2
    <2>2. lines[n + 7].kind \in NotTable
      <3>1. "blank" \in Kinds \ Table
        BY DEF Kinds, Table
      <3> QED
        BY <1>1, <3>1, Zenon
    <2>3. ASSUME NEW j \in 5 .. (n + 7) - 1 PROVE lines[j].kind \notin NotTable
      <3>1. CASE j = 5 \/ j = 6
        BY <1>1, <3>1 DEF Table
      <3>2. CASE \E k \in 1 .. n : j = 6 + k
        <4>1. PICK k \in 1 .. n : j = 6 + k
          BY <3>2
        <4>2. lines[j] = c.rows[k]
          BY <1>1, <4>1
        <4>3. lines[j].kind = "row"
          BY <1>2, <4>2 DEF IsRow
        <4> QED
          BY <4>3 DEF Table
      <3> QED
        BY <2>1, <3>1, <3>2
    <2> HIDE DEF NotTable
    <2>4. PICK e : e = n + 7
      OBVIOUS
    <2>5. e \in 5 .. len + 1
      BY <2>1, <2>4
    <2>6. lines[e].kind \in NotTable /\ \A j \in 5 .. e - 1 : lines[j].kind \notin NotTable
      BY <2>2, <2>3, <2>4, Zenon
    <2>7. IsFirst(lines, 5, NotTable, e)
      BY <2>5, <2>6, Zenon DEF IsFirst
    <2> QED
      BY <2>4, <2>7
  <1>7. /\ FirstOf(lines, 1, {"general"}) = 3 /\ FirstOf(lines, 3, Table) = 5
        /\ FirstOf(lines, 5, NotTable) = n + 7
    <2>1. len \in Nat /\ 1 \in 1 .. len + 1 /\ 3 \in 1 .. len + 1 /\ 5 \in 1 .. len + 1
      BY <1>3, <1>n
    <2> QED
      BY <1>4, <1>5, <1>6, <2>1, FirstIsThis
  <1> DEFINE P == {i \in 5 + 2 .. (n + 7) - 1 : IsRow(lines[i])}
  <1>8. TableRows(lines) = IF 3 > len \/ n + 7 < 5 + 3 \/ lines[5].kind # "header"
                           THEN <<>> ELSE At(lines, P)
    <2> DEFINE heading == FirstOf(lines, 1, {"general"})
               first   == FirstOf(lines, heading, Table)
               end     == FirstOf(lines, first, NotTable)
    <2>1. TableRows(lines) = IF heading > len \/ end < first + 3 \/ lines[first].kind # "header"
                             THEN <<>> ELSE At(lines, {i \in first + 2 .. end - 1 : IsRow(lines[i])})
      BY Zenon DEF TableRows
    <2>2. heading = 3
      BY <1>7
    <2>3. first = 5
      <3> HIDE DEF heading
      <3> QED
        BY <1>7, <2>2
    <2>4. end = n + 7
      <3> HIDE DEF first
      <3> QED
        BY <1>7, <2>3
    <2> HIDE DEF heading, first, end
    <2>5. {i \in first + 2 .. end - 1 : IsRow(lines[i])} = P
      BY <2>3, <2>4, Zenon
    <2> HIDE DEF P
    <2> QED
      BY <2>1, <2>2, <2>3, <2>4, <2>5
  <1>9. lines[5].kind = "header" /\ ~(3 > len) /\ (n + 7 < 5 + 3 <=> n = 0)
    BY <1>1, <1>3, <1>n
  <1>10. CASE n = 0
    <2>1. TableRows(lines) = <<>>
      BY <1>8, <1>9, <1>10, Zenon
    <2>2. c.rows = <<>>
      BY <1>2, <1>10 DEF n
    <2> QED
      BY <2>1, <2>2 DEF lines
  <1>11. CASE n # 0
    <2>1. TableRows(lines) = At(lines, P)
      BY <1>8, <1>9, <1>11, Zenon
    <2>2. \A i \in 5 + 2 .. (n + 7) - 1 : IsRow(lines[i])
      <3> SUFFICES ASSUME NEW i \in 5 + 2 .. (n + 7) - 1 PROVE IsRow(lines[i])
        OBVIOUS
      <3>1. i - 6 \in 1 .. n /\ 6 + (i - 6) = i
        BY <1>n
      <3>2. lines[6 + (i - 6)] = c.rows[i - 6]
        BY <1>1, <3>1, Zenon
      <3> QED
        BY <1>2, <3>1, <3>2, Zenon
    <2>3. P = 5 + 2 .. (n + 7) - 1
      BY <2>2, Zenon
    <2>4. 5 + 2 .. (n + 7) - 1 = 6 + 1 .. 6 + n
      BY <1>n
    <2>5. c.rows \in Seq(Line) /\ Len(c.rows) = n /\ \A k \in 1 .. n : lines[6 + k] = c.rows[k]
      BY <1>0, <1>1, <1>2, Zenon
    <2>6. Copied(c.rows, lines, 6, n)
      BY <1>n, <2>5 DEF Copied
    <2>7. At(lines, 6 + 1 .. 6 + n) = c.rows
      BY <2>6, AtNeighbours, Zenon
    <2> QED
      BY <2>1, <2>3, <2>4, <2>7, Zenon DEF lines
  <1> QED
    BY <1>10, <1>11

\* And the tag lines, of which the line "[none]" stands for none.
LEMMA TagsComeBack ==
  ASSUME NEW c, Proper(c)
  PROVE  TagLines(render(c)) = c.tags
  <1> DEFINE lines == render(c)
             n == Len(c.rows)
             m == Len(c.tags)
             K == {"general", "suggested", "heading", "rule", "none"}
  <1>0. lines = render(c) /\ n = Len(c.rows) /\ m = Len(c.tags)
    OBVIOUS
  <1>2. /\ \A k \in 1 .. n : IsRow(c.rows[k])
        /\ c.tags \in Seq(Line) /\ \A k \in 1 .. m : c.tags[k].kind = "tag"
    BY DEF Proper
  <1> HIDE DEF lines, n, m
  <1>l. Laid(lines, c, n, m)
    BY <1>0, RenderIs
  <1>1. /\ lines[1].kind = "title" /\ lines[2].kind = "blank" /\ lines[3].kind = "general"
        /\ lines[4].kind = "blank" /\ lines[5].kind = "header" /\ lines[6].kind = "separator"
        /\ \A k \in 1 .. n : lines[6 + k] = c.rows[k]
        /\ lines[n + 7].kind = "blank" /\ lines[n + 8].kind = "suggested"
        /\ lines[n + 9].kind = "blank"
        /\ m = 0 => lines[n + 10].kind = "none"
        /\ m # 0 => \A k \in 1 .. m : lines[n + 9 + k] = c.tags[k]
    BY <1>l, Zenon DEF Laid
  <1> DEFINE len == Len(lines)
  <1>3. n \in Nat /\ m \in Nat /\ len \in Nat /\ len = (IF m = 0 THEN n + 10 ELSE n + m + 9)
    BY <1>l DEF Laid
  <1> HIDE DEF len
  <1>4. PICK h \in Nat : /\ h = n + 8 /\ h + 1 = n + 9 /\ h <= len
                        /\ h \in 1 .. len + 1 /\ h + 1 \in 1 .. len + 1
    <2>1. n + 8 \in Nat /\ (n + 8) + 1 = n + 9 /\ n + 8 \in 1 .. len + 1
          /\ (n + 8) + 1 \in 1 .. len + 1 /\ n + 8 <= len
      BY <1>3
    <2> QED
      BY <2>1
  <1>5. IsFirst(lines, 1, {"suggested"}, h)
    <2>1. ASSUME NEW j \in 1 .. h - 1 PROVE lines[j].kind \notin {"suggested"}
      <3>1. j \in {1, 2, 3, 4, 5, 6} \/ (\E k \in 1 .. n : j = 6 + k) \/ j = n + 7
        <4>1. j \in Int /\ 1 <= j /\ j <= n + 7
          BY <1>3, <1>4
        <4>2. ASSUME j > 6, j # n + 7 PROVE \E k \in 1 .. n : j = 6 + k
          <5>1. j - 6 \in 1 .. n /\ j = 6 + (j - 6)
            BY <1>3, <4>1, <4>2
          <5> QED
            BY <5>1
        <4> QED
          BY <4>1, <4>2
      <3>2. CASE j \in {1, 2, 3, 4, 5, 6}
        BY <1>1, <3>2
      <3>3. CASE \E k \in 1 .. n : j = 6 + k
        <4>1. PICK k \in 1 .. n : j = 6 + k
          BY <3>3
        <4>2. lines[j] = c.rows[k] /\ IsRow(c.rows[k])
          BY <1>1, <1>2, <4>1
        <4>3. lines[j].kind = "row"
          BY <4>2 DEF IsRow
        <4> QED
          BY <4>3
      <3>4. CASE j = n + 7
        BY <1>1, <3>4
      <3> QED
        BY <3>1, <3>2, <3>3, <3>4
    <2>2. lines[h].kind \in {"suggested"}
      BY <1>1, <1>4
    <2> QED
      BY <1>4, <2>1, <2>2, Zenon DEF IsFirst, len
  <1>6. FirstOf(lines, 1, {"suggested"}) = h
    <2>1. Len(lines) \in Nat /\ 1 \in 1 .. Len(lines) + 1
      BY <1>3 DEF len
    <2> QED
      BY <1>5, <2>1, FirstIsThis
  <1> DEFINE P(e) == {i \in h .. e - 1 : lines[i].kind = "tag"}
  <1>7. ASSUME NEW e, IsFirst(lines, h + 1, K, e)
        PROVE  TagLines(lines) = IF e <= len /\ lines[e].kind = "none" THEN <<>> ELSE At(lines, P(e))
    <2> DEFINE heading == FirstOf(lines, 1, {"suggested"})
               end     == FirstOf(lines, heading + 1, K)
    <2>1. TagLines(lines) = IF heading > Len(lines) \/ (end <= Len(lines) /\ lines[end].kind = "none")
                            THEN <<>>
                            ELSE At(lines, {i \in heading .. end - 1 : lines[i].kind = "tag"})
      BY Zenon DEF TagLines
    <2>2. heading = h
      BY <1>6
    <2>3. end = e
      <3>1. Len(lines) \in Nat /\ h + 1 \in 1 .. Len(lines) + 1
        BY <1>3, <1>4 DEF len
      <3>2. FirstOf(lines, h + 1, K) = e
        BY <1>7, <3>1, FirstIsThis
      <3> HIDE DEF heading
      <3> QED
        BY <2>2, <3>2
    <2>4. Len(lines) = len /\ ~(h > len)
      BY <1>3, <1>4 DEF len
    <2> HIDE DEF heading, end, K
    <2>5. {i \in heading .. end - 1 : lines[i].kind = "tag"} = P(e)
      BY <2>2, <2>3, Zenon
    <2>6. ~(heading > Len(lines)) /\ end = e
      BY <2>2, <2>3, <2>4, Zenon
    <2> HIDE DEF P
    <2>7. TagLines(lines) = IF end <= Len(lines) /\ lines[end].kind = "none" THEN <<>> ELSE At(lines, P(e))
      BY <2>1, <2>5, <2>6, Zenon
    <2> QED
      BY <2>3, <2>4, <2>7, Zenon
  <1>8. CASE m = 0
    <2>1. PICK e : e = n + 10
      OBVIOUS
    <2>2. e \in h + 1 .. len + 1 /\ \A j \in h + 1 .. e - 1 : j = n + 9
      BY <1>3, <1>4, <1>8, <2>1
    <2>3. lines[e].kind = "none" /\ \A j \in h + 1 .. e - 1 : lines[j].kind = "blank"
      BY <1>1, <1>8, <2>1, <2>2
    <2>4. lines[e].kind \in K /\ \A j \in h + 1 .. e - 1 : lines[j].kind \notin K
      BY <2>3
    <2>5. IsFirst(lines, h + 1, K, e)
      <3> HIDE DEF K
      <3> QED
        BY <2>2, <2>4, Zenon DEF IsFirst, len
    <2>6. e <= len
      BY <1>3, <1>8, <2>1
    <2>7. TagLines(lines) = <<>>
      BY <1>7, <2>3, <2>5, <2>6, Zenon
    <2>8. c.tags = <<>>
      <3>1. c.tags \in Seq(Line) /\ Len(c.tags) = 0
        BY <1>0, <1>2, <1>8, Zenon
      <3> QED
        BY <3>1
    <2> QED
      BY <2>7, <2>8 DEF lines
  <1>9. CASE m # 0
    <2>1. PICK e, a : e = n + m + 10 /\ a = n + 9
      OBVIOUS
    <2>2. /\ e \in Nat /\ a \in Nat /\ e \in h + 1 .. len + 1 /\ e = len + 1 /\ ~(e <= len)
          /\ h = a - 1 /\ e - 1 = a + m
      BY <1>3, <1>4, <1>9, <2>1
    <2>3. \A k \in 1 .. m : lines[a + k] = c.tags[k] /\ lines[a + k].kind = "tag"
      BY <1>1, <1>2, <1>9, <2>1
    <2>4. lines[a].kind = "blank" /\ lines[h].kind = "suggested"
      BY <1>1, <1>4, <2>1
    <2>5. \A i \in h .. e - 1 : i = h \/ i = a \/ \E k \in 1 .. m : i = a + k
      <3> SUFFICES ASSUME NEW i \in h .. e - 1, i # h, i # a PROVE \E k \in 1 .. m : i = a + k
        BY Zenon
      <3>1. i - a \in 1 .. m /\ i = a + (i - a)
        BY <1>3, <1>4, <2>2
      <3> QED
        BY <3>1
    <2>6. ASSUME NEW j \in h + 1 .. e - 1 PROVE lines[j].kind \notin K
      <3>1. j \in h .. e - 1 /\ j # h
        BY <1>4, <2>2
      <3>2. lines[j].kind = "blank" \/ lines[j].kind = "tag"
        BY <2>3, <2>4, <2>5, <3>1
      <3> QED
        BY <3>2
    <2>7. IsFirst(lines, h + 1, K, e)
      <3> HIDE DEF K
      <3> QED
        BY <2>2, <2>6, Zenon DEF IsFirst, len
    <2>8. TagLines(lines) = At(lines, P(e))
      BY <1>7, <2>2, <2>7, Zenon
    <2>9. P(e) = a + 1 .. a + m
      <3>1. ASSUME NEW i \in P(e) PROVE i \in a + 1 .. a + m
        <4>1. i \in h .. e - 1 /\ i # h /\ i # a
          BY <2>4
        <4>2. PICK k \in 1 .. m : i = a + k
          BY <2>5, <4>1
        <4> QED
          BY <1>3, <2>2, <4>2
      <3>2. ASSUME NEW i \in a + 1 .. a + m PROVE i \in P(e)
        <4>1. i - a \in 1 .. m /\ a + (i - a) = i
          BY <1>3, <2>2
        <4>2. lines[i].kind = "tag"
          BY <2>3, <4>1
        <4>3. i \in h .. e - 1
          BY <1>3, <1>4, <2>2
        <4> QED
          BY <4>2, <4>3
      <3> HIDE DEF P
      <3> QED
        BY <3>1, <3>2
    <2>10. c.tags \in Seq(Line) /\ Len(c.tags) = m
      BY <1>0, <1>2, Zenon
    <2>11. Copied(c.tags, lines, a, m)
      BY <1>3, <2>2, <2>3, <2>10 DEF Copied
    <2>12. At(lines, a + 1 .. a + m) = c.tags
      BY <2>11, AtNeighbours, Zenon
    <2> QED
      BY <2>8, <2>9, <2>12, Zenon DEF lines
  <1> QED
    BY <1>8, <1>9

\* render emits a document that is read back unchanged, as its docstring says: every row and
\* every tag line that parse keeps, for any number of both.
LEMMA ParseRender ==
  ASSUME NEW c, Proper(c)
  PROVE  parse(render(c)).rows = c.rows /\ parse(render(c)).tags = c.tags
  BY RowsComeBack, TagsComeBack DEF parse

-----------------------------------------------------------------------------
(***************************************************************************)
(* What the tool reads from the file of a group.                           *)
(***************************************************************************)

\* d has the rows of c at the places P, and their tag lines or none.
Keeps(d, c, P) ==
  /\ Proper(d)
  /\ \A k \in 1 .. Len(d.rows) :
       /\ InOrder(P)[k] \in P /\ d.rows[k] = c.rows[InOrder(P)[k]]
       /\ tags_will_apply(c) => d.tags[k] = c.tags[InOrder(P)[k]]
  /\ \A i \in P : \E k \in 1 .. Len(d.rows) : InOrder(P)[k] = i
  /\ ~tags_will_apply(c) => d.tags = <<>>
  /\ tags_will_apply(c) => Len(d.tags) = Len(d.rows)

\* subset keeps a row with its tag line.
LEMMA SubsetIs ==
  ASSUME NEW c, Proper(c), NEW M
  PROVE  Keeps(subset(c, M), c, Kept(c, M))
  <1> DEFINE d == subset(c, M)
             P == Kept(c, M)
  <1>1. /\ c.rows \in Seq(Line) /\ \A i \in 1 .. Len(c.rows) : IsRow(c.rows[i])
        /\ c.tags \in Seq(Line) /\ \A i \in 1 .. Len(c.tags) : c.tags[i].kind = "tag"
    BY DEF Proper
  <1>2. P \in SUBSET (1 .. Len(c.rows))
    BY <1>1 DEF Kept
  <1>3. d.rows = At(c.rows, P) /\ d.tags = IF tags_will_apply(c) THEN At(c.tags, P) ELSE <<>>
    BY DEF subset
  <1> HIDE DEF P, d
  <1>4. /\ d.rows \in Seq(Line) /\ Len(d.rows) = Cardinality(P)
        /\ \A k \in 1 .. Len(d.rows) : InOrder(P)[k] \in P /\ d.rows[k] = c.rows[InOrder(P)[k]]
        /\ \A i \in P : \E k \in 1 .. Len(d.rows) : InOrder(P)[k] = i
    BY <1>1, <1>2, <1>3, AtSeq
  <1>5. \A k \in 1 .. Len(d.rows) : IsRow(d.rows[k])
    BY <1>1, <1>2, <1>4
  <1>6. CASE tags_will_apply(c)
    <2>1. Len(c.tags) = Len(c.rows) /\ d.tags = At(c.tags, P)
      BY <1>3, <1>6 DEF tags_will_apply
    <2>2. P \in SUBSET (1 .. Len(c.tags))
      BY <1>2, <2>1
    <2>3. /\ d.tags \in Seq(Line) /\ Len(d.tags) = Cardinality(P)
          /\ \A k \in 1 .. Len(d.tags) : InOrder(P)[k] \in P /\ d.tags[k] = c.tags[InOrder(P)[k]]
      BY <1>1, <2>1, <2>2, AtSeq
    <2>4. ASSUME NEW k \in 1 .. Len(d.tags) PROVE d.tags[k].kind = "tag"
      <3>1. InOrder(P)[k] \in 1 .. Len(c.tags) /\ d.tags[k] = c.tags[InOrder(P)[k]]
        BY <2>2, <2>3
      <3> QED
        BY <1>1, <3>1, Zenon
    <2>5. Proper(d)
      BY <1>4, <1>5, <2>3, <2>4, Zenon DEF Proper
    <2>6. Len(d.tags) = Len(d.rows)
      BY <1>4, <2>3, Zenon
    <2>7. \A k \in 1 .. Len(d.rows) : d.tags[k] = c.tags[InOrder(P)[k]]
      BY <2>3, <2>6, Zenon
    <2> QED
      BY <1>4, <1>6, <2>5, <2>6, <2>7, Zenon DEF d, P, Keeps
  <1>7. CASE ~tags_will_apply(c)
    <2>1. d.tags = <<>>
      BY <1>3, <1>7
    <2>2. d.tags \in Seq(Line) /\ \A k \in 1 .. Len(d.tags) : d.tags[k].kind = "tag"
      BY <2>1
    <2>3. Proper(d)
      BY <1>4, <1>5, <2>2, Zenon DEF Proper
    <2> QED
      BY <1>4, <1>7, <2>1, <2>3, Zenon DEF d, P, Keeps
  <1> QED
    BY <1>6, <1>7

\* The problems of the file are those of the group that the document has rows for; the
\* tags apply if the document's did, and a problem is paired with the line of its own row.
FileHas(f, c, M) ==
  /\ f.rows \in Seq(Line) /\ RowsOf(f) = RowsOf(c) \cap M
  /\ f.rows = <<>> <=> RowsOf(f) = {}
  /\ tags_will_apply(f) <=> tags_will_apply(c) /\ RowsOf(f) # {}
  /\ \A s : \A t \in Paired(f, s) :
       tags_will_apply(c) /\ \E i \in DOMAIN c.rows : c.rows[i].slug = s /\ t = c.tags[i].tag
  /\ tags_will_apply(f) => \A s \in RowsOf(f) : Paired(f, s) # {}

LEMMA FileIs ==
  ASSUME NEW c, Proper(c), NEW M
  PROVE  FileHas(parse(render(subset(c, M))), c, M)
  <1> DEFINE d == subset(c, M)
             f == parse(render(d))
             P == Kept(c, M)
  <1>0. Keeps(d, c, P)
    BY SubsetIs
  <1>f. f = parse(render(d))
    OBVIOUS
  <1> HIDE DEF d, f, P
  <1>1. /\ Proper(d)
        /\ \A k \in 1 .. Len(d.rows) :
             /\ InOrder(P)[k] \in P /\ d.rows[k] = c.rows[InOrder(P)[k]]
             /\ tags_will_apply(c) => d.tags[k] = c.tags[InOrder(P)[k]]
        /\ \A i \in P : \E k \in 1 .. Len(d.rows) : InOrder(P)[k] = i
        /\ ~tags_will_apply(c) => d.tags = <<>>
        /\ tags_will_apply(c) => Len(d.tags) = Len(d.rows)
    BY <1>0, Zenon DEF Keeps
  <1>2. f.rows = d.rows /\ f.tags = d.tags
    BY <1>1, <1>f, ParseRender
  <1>3. c.rows \in Seq(Line) /\ d.rows \in Seq(Line) /\ d.tags \in Seq(Line)
    BY <1>1 DEF Proper
  <1>4. P = {i \in 1 .. Len(c.rows) : c.rows[i].slug \in M} /\ DOMAIN c.rows = 1 .. Len(c.rows)
    BY <1>3 DEF Kept, P
  <1>5. DOMAIN d.rows = 1 .. Len(d.rows) /\ Len(d.rows) \in Nat
    BY <1>3
  <1>6. RowsOf(f) = RowsOf(c) \cap M
    <2>1. ASSUME NEW s \in RowsOf(f) PROVE s \in RowsOf(c) /\ s \in M
      <3>1. PICK k \in 1 .. Len(d.rows) : d.rows[k].slug = s
        BY <1>2, <1>5 DEF RowsOf
      <3>2. InOrder(P)[k] \in P /\ c.rows[InOrder(P)[k]].slug = s
        BY <1>1, <3>1
      <3> QED
        BY <1>4, <3>2 DEF RowsOf
    <2>2. ASSUME NEW s \in RowsOf(c), s \in M PROVE s \in RowsOf(f)
      <3>1. PICK i \in 1 .. Len(c.rows) : c.rows[i].slug = s
        BY <1>4 DEF RowsOf
      <3>2. i \in P
        BY <1>4, <2>2, <3>1
      <3>3. PICK k \in 1 .. Len(d.rows) : InOrder(P)[k] = i
        BY <1>1, <3>2
      <3>4. d.rows[k].slug = s
        BY <1>1, <3>1, <3>3
      <3> QED
        BY <1>2, <1>5, <3>4 DEF RowsOf
    <2> QED
      BY <2>1, <2>2
  <1>7. d.rows = <<>> <=> RowsOf(f) = {}
    <2>1. CASE d.rows = <<>>
      BY <1>2, <2>1 DEF RowsOf
    <2>2. CASE d.rows # <<>>
      <3>1. 1 \in DOMAIN d.rows
        BY <1>3, <2>2
      <3>2. d.rows[1].slug \in RowsOf(f)
        BY <1>2, <3>1, Zenon DEF RowsOf
      <3> QED
        BY <2>2, <3>2
    <2> QED
      BY <2>1, <2>2
  <1>8. tags_will_apply(f) <=> tags_will_apply(c) /\ RowsOf(f) # {}
    <2>1. CASE tags_will_apply(c)
      <3>1. Len(d.tags) = Len(d.rows)
        BY <1>1, <2>1, Zenon
      <3>2. d.tags = <<>> <=> d.rows = <<>>
        BY <1>3, <3>1
      <3> QED
        BY <1>2, <1>7, <2>1, <3>1, <3>2, Zenon DEF tags_will_apply
    <2>2. CASE ~tags_will_apply(c)
      <3>1. d.tags = <<>>
        BY <1>1, <2>2, Zenon
      <3> QED
        BY <1>2, <2>2, <3>1, Zenon DEF tags_will_apply
    <2> QED
      BY <2>1, <2>2
  <1>9. ASSUME NEW s, NEW t \in Paired(f, s)
        PROVE  tags_will_apply(c) /\ \E i \in DOMAIN c.rows : c.rows[i].slug = s /\ t = c.tags[i].tag
    <2>1. tags_will_apply(f)
      BY <1>9 DEF Paired
    <2>2. tags_will_apply(c)
      BY <1>8, <2>1, Zenon
    <2>3. PICK k \in 1 .. Len(d.rows) : d.rows[k].slug = s /\ t = d.tags[k].tag
      BY <1>2, <1>5, <2>1 DEF Paired
    <2>4. InOrder(P)[k] \in P /\ d.rows[k] = c.rows[InOrder(P)[k]] /\ d.tags[k] = c.tags[InOrder(P)[k]]
      BY <1>1, <2>2, Zenon
    <2>5. InOrder(P)[k] \in DOMAIN c.rows
      BY <1>4, <2>4
    <2> QED
      BY <2>2, <2>3, <2>4, <2>5, Zenon
  <1>10. ASSUME tags_will_apply(f), NEW s \in RowsOf(f) PROVE Paired(f, s) # {}
    <2>1. PICK k \in DOMAIN f.rows : f.rows[k].slug = s
      BY DEF RowsOf
    <2>2. f.tags[k].tag \in Paired(f, s)
      BY <1>10, <2>1 DEF Paired
    <2> QED
      BY <2>2
  <1>11. f.rows \in Seq(Line) /\ (f.rows = <<>> <=> RowsOf(f) = {})
    BY <1>2, <1>3, <1>7, Zenon
  <1>12. FileHas(f, c, M)
    BY <1>6, <1>8, <1>9, <1>10, <1>11, Zenon DEF FileHas
  <1> QED
    BY <1>12 DEF f, d

-----------------------------------------------------------------------------
(***************************************************************************)
(* What the check establishes of the document, and an edit leaves.         *)
(***************************************************************************)

\* No two of these places have a row of the same problem.
Distinct(q, places) == \A i, j \in places : q[i].slug = q[j].slug => i = j

LEMMA PlacesOfRows ==
  ASSUME NEW lines, Len(lines) \in Nat
  PROVE  RowPlaces(lines) \in SUBSET (1 .. Len(lines)) /\ IsFiniteSet(RowPlaces(lines))
         /\ Cardinality(RowPlaces(lines)) \in Nat
  <1>1. RowPlaces(lines) \in SUBSET (1 .. Len(lines))
    BY DEF RowPlaces
  <1>2. IsFiniteSet(RowPlaces(lines))
    BY <1>1, PlacesAre
  <1> QED
    BY <1>1, <1>2, FS_CardinalityType

\* What an unrefused document is like.
Sound(c) ==
  /\ c.rows # <<>> /\ RowsOf(c) = Slug /\ Cardinality(Slug) = Len(c.rows)
  /\ c.tags # <<>> => Len(c.tags) = Len(c.rows)
  /\ tags_will_apply(c) => \A i \in DOMAIN c.tags :
       c.rows[i].slug \in manifest.tagged => c.tags[i].tag = c.rows[i].slug

LEMMA UnrefusedIsSound ==
  ASSUME NEW c, Proper(c), Refusals(c) = {}
  PROVE  Sound(c)
  <1> DEFINE ids == [i \in DOMAIN c.rows |-> c.rows[i].slug]
             Refused(k) ==
               CASE k = "C-2" -> c.tags # <<>> /\ Len(c.tags) # Len(c.rows)
                 [] k = "C-3" -> \E i \in DOMAIN ids : ~c.rows[i].easy
                 [] k = "C-4" -> RowsOf(c) # Slug \/ Cardinality(RowsOf(c)) # Len(ids)
                 [] k = "C-5" -> tags_will_apply(c) /\ MisTagged(c)
                 [] k = "C-6" -> manifest.mixed
                 [] k = "C-7" -> \E i \in DOMAIN ids :
                                   ids[i] \in manifest.limited /\ c.rows[i].limit # "same"
  <1>1. Refusals(c) = IF ~c.found \/ c.rows = <<>> THEN {"C-1"}
                      ELSE {k \in {"C-2", "C-3", "C-4", "C-5", "C-6", "C-7"} : Refused(k)}
    BY Zenon DEF Refusals
  <1>2. ~(~c.found \/ c.rows = <<>>)
    <2> HIDE DEF Refused
    <2> QED
      BY <1>1, Zenon
  <1>3. \A k \in {"C-2", "C-4", "C-5"} : ~Refused(k)
    <2> HIDE DEF Refused
    <2>1. {k \in {"C-2", "C-3", "C-4", "C-5", "C-6", "C-7"} : Refused(k)} = {}
      BY <1>1, <1>2, Zenon
    <2> QED
      BY <2>1, Zenon
  <1>4. Refused("C-2") <=> c.tags # <<>> /\ Len(c.tags) # Len(c.rows)
    OBVIOUS
  <1>5. Refused("C-4") <=> RowsOf(c) # Slug \/ Cardinality(RowsOf(c)) # Len(ids)
    OBVIOUS
  <1>6. Refused("C-5") <=> tags_will_apply(c) /\ MisTagged(c)
    OBVIOUS
  <1>7. Len(ids) = Len(c.rows)
    <2>1. c.rows \in Seq(Line)
      BY DEF Proper
    <2> QED
      BY <2>1
  <1> HIDE DEF Refused, ids
  <1>8. ~Refused("C-2") /\ ~Refused("C-4") /\ ~Refused("C-5")
    BY <1>3
  <1> QED
    BY <1>2, <1>4, <1>5, <1>6, <1>7, <1>8, Zenon DEF Sound, MisTagged

\* A document with no more row lines than problems that has all of them has each once.
LEMMA SoundIsDistinct ==
  ASSUME NEW lines \in Seq(Line), Cardinality(RowPlaces(lines)) <= Cardinality(Slug),
         Sound(parse(lines))
  PROVE  Distinct(lines, RowPlaces(lines))
  <1> DEFINE q == TableRows(lines)
             R == RowPlaces(lines)
  <1>1. RowsOf(parse(lines)) = {q[i].slug : i \in DOMAIN q} /\ Len(parse(lines).rows) = Len(q)
    BY DEF RowsOf, parse
  <1>2. {q[i].slug : i \in DOMAIN q} = Slug /\ Cardinality(Slug) = Len(q)
    BY <1>1, Zenon DEF Sound
  <1>3. PICK P \in SUBSET R : q = At(lines, P)
    BY RowsArePicked
  <1> HIDE DEF q, R
  <1>4. R \in SUBSET (1 .. Len(lines)) /\ IsFiniteSet(R) /\ Cardinality(R) \in Nat
    BY PlacesOfRows DEF R
  <1>5. P \in SUBSET (1 .. Len(lines))
    BY <1>4
  <1>6. /\ q \in Seq(Line) /\ Len(q) = Cardinality(P) /\ Cardinality(P) \in Nat
        /\ \A k \in 1 .. Len(q) : InOrder(P)[k] \in P /\ q[k] = lines[InOrder(P)[k]]
    BY <1>3, <1>5, AtSeq
  <1>7. IsFiniteSet(P) /\ Cardinality(P) <= Cardinality(R) /\ (Cardinality(R) = Cardinality(P) => R = P)
    BY <1>4, FS_Subset
  <1>8. Cardinality(R) <= Cardinality(Slug)
    BY DEF R
  <1>9. P = R
    <2>1. Cardinality(P) = Cardinality(Slug)
      BY <1>2, <1>6, Zenon
    <2>2. Cardinality(R) = Cardinality(P)
      BY <1>4, <1>6, <1>7, <1>8, <2>1
    <2> QED
      BY <1>7, <2>2
  <1> DEFINE f == [i \in P |-> lines[i].slug]
  <1>10. DOMAIN q = 1 .. Len(q)
    BY <1>6
  <1>11. \A s \in Slug : \E i \in P : f[i] = s
    <2> SUFFICES ASSUME NEW s \in Slug PROVE \E i \in P : lines[i].slug = s
      OBVIOUS
    <2>1. PICK k \in 1 .. Len(q) : q[k].slug = s
      BY <1>2, <1>10
    <2> QED
      BY <1>6, <2>1
  <1>12. \A i \in P : f[i] \in Slug
    <2> SUFFICES ASSUME NEW i \in P PROVE lines[i].slug \in Slug
      OBVIOUS
    <2>1. PICK k \in 1 .. Cardinality(P) : InOrder(P)[k] = i
      <3>1. P \in SUBSET Nat
        BY <1>5
      <3> QED
        BY <1>7, <3>1, InOrderIs
    <2>2. q[k].slug = lines[i].slug /\ k \in DOMAIN q
      BY <1>6, <1>10, <2>1, Zenon
    <2> QED
      BY <1>2, <2>2, Zenon
  <1>13. f \in Surjection(P, Slug)
    <2>1. f \in [P -> Slug]
      BY <1>12
    <2> HIDE DEF f
    <2> QED
      BY <1>11, <2>1 DEF Surjection
  <1>14. Cardinality(P) = Cardinality(Slug)
    BY <1>2, <1>6, Zenon
  <1>15. f \in Injection(P, Slug)
    <2> HIDE DEF f
    <2> QED
      BY <1>7, <1>13, <1>14, FS_SurjSameCardinalityImpliesInj
  <1>16. \A i, j \in P : f[i] = f[j] => i = j
    <2> HIDE DEF f
    <2> QED
      BY <1>15 DEF Injection, IsInjective
  <1>17. \A i, j \in P : lines[i].slug = lines[j].slug => i = j
    BY <1>16
  <1> QED
    BY <1>9, <1>17, Zenon DEF Distinct, R

\* What is picked from such a document has each problem once.
LEMMA PickedIsDistinct ==
  ASSUME NEW lines \in Seq(Line), Distinct(lines, RowPlaces(lines))
  PROVE  Distinct(parse(lines).rows, DOMAIN parse(lines).rows)
  <1> DEFINE q == TableRows(lines)
  <1>1. parse(lines).rows = q
    BY DEF parse
  <1>2. PICK P \in SUBSET RowPlaces(lines) : q = At(lines, P)
    BY RowsArePicked
  <1> HIDE DEF q
  <1>3. P \in SUBSET (1 .. Len(lines))
    BY DEF RowPlaces
  <1>4. /\ q \in Seq(Line)
        /\ \A k \in 1 .. Len(q) : InOrder(P)[k] \in P /\ q[k] = lines[InOrder(P)[k]]
        /\ \A j, k \in 1 .. Len(q) : InOrder(P)[j] = InOrder(P)[k] => j = k
    <2>1. /\ At(lines, P) \in Seq(Line)
          /\ \A k \in 1 .. Len(At(lines, P)) :
               InOrder(P)[k] \in P /\ At(lines, P)[k] = lines[InOrder(P)[k]]
          /\ \A j, k \in 1 .. Len(At(lines, P)) : InOrder(P)[j] = InOrder(P)[k] => j = k
      <3>1. PICK p : p = At(lines, P)
        OBVIOUS
      <3>2. p \in Seq(Line)
        BY <1>3, <3>1, AtSeq
      <3>3. \A k \in 1 .. Len(p) : InOrder(P)[k] \in P /\ p[k] = lines[InOrder(P)[k]]
        BY <1>3, <3>1, AtSeq
      <3>4. \A j, k \in 1 .. Len(p) : InOrder(P)[j] = InOrder(P)[k] => j = k
        BY <1>3, <3>1, AtSeq
      <3> QED
        BY <3>1, <3>2, <3>3, <3>4, Zenon
    <2> QED
      BY <1>2, <2>1, Zenon
  <1>5. DOMAIN q = 1 .. Len(q)
    BY <1>4
  <1>6. ASSUME NEW i \in DOMAIN q, NEW j \in DOMAIN q, q[i].slug = q[j].slug PROVE i = j
    <2>1. InOrder(P)[i] \in RowPlaces(lines) /\ InOrder(P)[j] \in RowPlaces(lines)
      BY <1>4, <1>5
    <2>2. lines[InOrder(P)[i]].slug = lines[InOrder(P)[j]].slug
      BY <1>4, <1>5, <1>6, Zenon
    <2>3. InOrder(P)[i] = InOrder(P)[j]
      BY <2>1, <2>2, Zenon DEF Distinct
    <2> QED
      BY <1>4, <1>5, <2>3, Zenon
  <1>7. Distinct(q, DOMAIN q)
    BY <1>6, Zenon DEF Distinct
  <1> QED
    BY <1>1, <1>7, Zenon

\* A line less does not add a row.
LEMMA WithoutKeeps ==
  ASSUME NEW lines \in Seq(Line), NEW i \in DOMAIN lines, Distinct(lines, RowPlaces(lines))
  PROVE  /\ Without(lines, i) \in Seq(Line)
         /\ Distinct(Without(lines, i), RowPlaces(Without(lines, i)))
  <1> DEFINE a == SubSeq(lines, 1, i - 1)
             b == SubSeq(lines, i + 1, Len(lines))
             w == a \o b
             from(k) == IF k < i THEN k ELSE k + 1
  <1>0. Len(lines) \in Nat /\ i \in 1 .. Len(lines)
    OBVIOUS
  <1>1. a \in Seq(Line) /\ Len(a) = i - 1 /\ \A k \in 1 .. i - 1 : a[k] = lines[k]
    BY <1>0
  <1>2. b \in Seq(Line) /\ Len(b) = Len(lines) - i /\ \A k \in 1 .. Len(lines) - i : b[k] = lines[i + k]
    BY <1>0
  <1> HIDE DEF a, b
  <1>3. /\ w \in Seq(Line) /\ Len(w) = Len(a) + Len(b)
        /\ \A k \in 1 .. Len(a) : w[k] = a[k]
        /\ \A k \in 1 .. Len(b) : w[Len(a) + k] = b[k]
    <2>1. a \in Seq(Line) /\ b \in Seq(Line)
      BY <1>1, <1>2
    <2> QED
      BY <2>1, ConcatIs
  <1> HIDE DEF w
  <1>4. Len(w) = Len(lines) - 1
    <2>1. Len(a) = i - 1 /\ Len(b) = Len(lines) - i /\ Len(w) = Len(a) + Len(b)
      BY <1>1, <1>2, <1>3
    <2> QED
      BY <1>0, <2>1
  <1>5. ASSUME NEW k \in 1 .. Len(w)
        PROVE  from(k) \in 1 .. Len(lines) /\ w[k] = lines[from(k)]
    <2>1. CASE k < i
      <3>1. k \in 1 .. i - 1 /\ k \in 1 .. Len(a) /\ k \in 1 .. Len(lines)
        BY <1>0, <1>1, <1>4, <2>1
      <3> QED
        BY <1>1, <1>3, <2>1, <3>1
    <2>2. CASE ~(k < i)
      <3>1. /\ k - (i - 1) \in 1 .. Len(lines) - i /\ (i - 1) + (k - (i - 1)) = k
            /\ i + (k - (i - 1)) = k + 1 /\ k + 1 \in 1 .. Len(lines)
        BY <1>0, <1>4, <2>2
      <3>2. w[k] = b[k - (i - 1)]
        <4>1. PICK r : r = k - (i - 1)
          OBVIOUS
        <4>2. Len(a) = i - 1 /\ Len(b) = Len(lines) - i
          BY <1>1, <1>2
        <4>3. r \in 1 .. Len(b) /\ Len(a) + r = k
          BY <3>1, <4>1, <4>2
        <4> QED
          BY <1>3, <4>1, <4>3, Zenon
      <3>3. b[k - (i - 1)] = lines[k + 1]
        BY <1>2, <3>1, Zenon
      <3> QED
        BY <2>2, <3>1, <3>2, <3>3
    <2> QED
      BY <2>1, <2>2
  <1>6. \A j, k \in 1 .. Len(w) : from(j) = from(k) => j = k
    BY <1>0, <1>4
  <1> HIDE DEF from
  <1>7. \A k \in RowPlaces(w) : k \in 1 .. Len(w) /\ from(k) \in RowPlaces(lines)
    <2> SUFFICES ASSUME NEW k \in RowPlaces(w)
                 PROVE  k \in 1 .. Len(w) /\ from(k) \in RowPlaces(lines)
      OBVIOUS
    <2>1. k \in 1 .. Len(w) /\ IsRow(w[k])
      BY DEF RowPlaces
    <2> QED
      BY <1>5, <2>1 DEF RowPlaces
  <1>8. ASSUME NEW j \in RowPlaces(w), NEW k \in RowPlaces(w), w[j].slug = w[k].slug PROVE j = k
    <2>1. lines[from(j)].slug = lines[from(k)].slug
      BY <1>5, <1>7, <1>8, Zenon
    <2>2. from(j) = from(k)
      BY <1>7, <2>1, Zenon DEF Distinct
    <2> QED
      BY <1>6, <1>7, <2>2, Zenon
  <1>9. Distinct(w, RowPlaces(w))
    BY <1>8, Zenon DEF Distinct
  <1>10. Without(lines, i) = w
    BY DEF Without, w, a, b
  <1> QED
    BY <1>3, <1>9, <1>10, Zenon

-----------------------------------------------------------------------------
(***************************************************************************)
(* What an author writes has no more row lines than there are problems.    *)
(***************************************************************************)

Few(q, n) == q \in Seq(Line) /\ n \in Nat /\ Cardinality(RowPlaces(q)) <= n

NoRow(q) == q \in Seq(Line) /\ \A k \in 1 .. Len(q) : q[k].kind # "row"

LEMMA NoneAreFew ==
  ASSUME NEW q, NoRow(q)
  PROVE  Few(q, 0)
  <1>1. RowPlaces(q) = {}
    BY DEF RowPlaces, NoRow, IsRow
  <1>2. Cardinality(RowPlaces(q)) = 0
    BY <1>1, FS_EmptySet
  <1> QED
    BY <1>2 DEF Few, NoRow

LEMMA FewTogether ==
  ASSUME NEW s, NEW t, NEW a, NEW b, Few(s, a), Few(t, b)
  PROVE  Few(s \o t, a + b)
  <1> DEFINE w == s \o t
             len == Len(s)
             S == RowPlaces(s)
             T == RowPlaces(t)
             f == [i \in T |-> len + i]
             I == {f[i] : i \in T}
  <1>0. /\ s \in Seq(Line) /\ t \in Seq(Line) /\ a \in Nat /\ b \in Nat
        /\ Cardinality(S) <= a /\ Cardinality(T) <= b /\ len \in Nat /\ Len(t) \in Nat
    BY DEF Few
  <1>1. /\ S \in SUBSET (1 .. len) /\ IsFiniteSet(S) /\ Cardinality(S) \in Nat
        /\ T \in SUBSET (1 .. Len(t)) /\ IsFiniteSet(T) /\ Cardinality(T) \in Nat
    BY <1>0, PlacesOfRows
  <1>2. /\ w \in Seq(Line) /\ Len(w) = len + Len(t)
        /\ \A k \in 1 .. len : w[k] = s[k]
        /\ \A k \in 1 .. Len(t) : w[len + k] = t[k]
    BY <1>0, ConcatIs
  <1>3. f \in Surjection(T, I)
    <2>1. f \in [T -> I] /\ \A x \in I : \E i \in T : f[i] = x
      OBVIOUS
    <2> HIDE DEF f, I
    <2> QED
      BY <2>1 DEF Surjection
  <1>4. IsFiniteSet(I) /\ Cardinality(I) <= Cardinality(T)
    <2> HIDE DEF f, I, T
    <2> QED
      BY <1>1, <1>3, FS_Surjection
  <1>5. Cardinality(I) \in Nat
    BY <1>4, FS_CardinalityType
  <1>6. RowPlaces(w) \in SUBSET (S \cup I)
    <2> SUFFICES ASSUME NEW k \in RowPlaces(w) PROVE k \in S \/ k \in I
      OBVIOUS
    <2>1. k \in 1 .. Len(w) /\ IsRow(w[k])
      BY DEF RowPlaces
    <2>2. CASE k <= len
      <3>1. k \in 1 .. len
        BY <2>1, <2>2
      <3> QED
        BY <1>2, <2>1, <3>1 DEF RowPlaces
    <2>3. CASE ~(k <= len)
      <3> HIDE DEF w, len
      <3>1. k - len \in 1 .. Len(t) /\ len + (k - len) = k
        BY <1>0, <1>2, <2>1, <2>3
      <3>2. w[k] = t[k - len]
        <4>1. PICK r : r = k - len
          OBVIOUS
        <4> QED
          BY <1>2, <3>1, <4>1, Zenon
      <3>3. k - len \in T
        BY <2>1, <3>1, <3>2 DEF RowPlaces
      <3> HIDE DEF T
      <3> QED
        BY <3>1, <3>3
    <2> QED
      BY <2>2, <2>3
  <1> HIDE DEF w, len, S, T, I
  <1>7. /\ IsFiniteSet(S \cup I)
        /\ Cardinality(S \cup I) = Cardinality(S) + Cardinality(I) - Cardinality(S \cap I)
    BY <1>1, <1>4, FS_Union
  <1>8. Cardinality(RowPlaces(w)) <= Cardinality(S \cup I)
    BY <1>6, <1>7, FS_Subset
  <1>9. /\ Cardinality(S \cap I) \in Nat /\ Cardinality(S \cup I) \in Nat
        /\ Cardinality(RowPlaces(w)) \in Nat
    <2>1. IsFiniteSet(S \cap I)
      BY <1>1, FS_Intersection
    <2>2. IsFiniteSet(RowPlaces(w))
      BY <1>6, <1>7, FS_Subset
    <2> QED
      BY <1>7, <2>1, <2>2, FS_CardinalityType
  <1>10. Cardinality(RowPlaces(w)) <= a + b
    BY <1>0, <1>1, <1>4, <1>5, <1>7, <1>8, <1>9
  <1>11. Few(w, a + b)
    BY <1>0, <1>2, <1>10 DEF Few
  <1> QED
    BY <1>11 DEF w

LEMMA NoneTogether ==
  ASSUME NEW s, NEW t, NoRow(s), NoRow(t)
  PROVE  NoRow(s \o t)
  <1>1. s \in Seq(Line) /\ t \in Seq(Line)
    BY DEF NoRow
  <1> DEFINE w == s \o t
  <1>2. /\ w \in Seq(Line) /\ Len(w) = Len(s) + Len(t) /\ Len(s) \in Nat /\ Len(t) \in Nat
        /\ \A k \in 1 .. Len(s) : w[k] = s[k]
        /\ \A k \in 1 .. Len(t) : w[Len(s) + k] = t[k]
    BY <1>1, ConcatIs
  <1> HIDE DEF w
  <1>3. ASSUME NEW k \in 1 .. Len(w) PROVE w[k].kind # "row"
    <2>1. CASE k <= Len(s)
      <3>1. k \in 1 .. Len(s)
        BY <2>1
      <3> QED
        BY <1>2, <3>1 DEF NoRow
    <2>2. CASE ~(k <= Len(s))
      <3>1. PICK r : r = k - Len(s)
        OBVIOUS
      <3>2. r \in 1 .. Len(t) /\ Len(s) + r = k
        BY <1>2, <2>2, <3>1
      <3>3. w[k] = t[r]
        BY <1>2, <3>2, Zenon
      <3> QED
        BY <3>2, <3>3 DEF NoRow
    <2> QED
      BY <2>1, <2>2
  <1>4. NoRow(w)
    BY <1>2, <1>3 DEF NoRow
  <1> QED
    BY <1>4 DEF w

\* Lines without a row put after the first do not count.
LEMMA AfterIsFew ==
  ASSUME NEW q \in Seq(Line), NEW more, NoRow(more)
  PROVE  /\ Few(After1(q, more), Len(q))
         /\ NoRow(q) => NoRow(After1(q, more))
  <1>1. CASE q = <<>>
    <2>1. After1(q, more) = more /\ Len(q) = 0
      BY <1>1 DEF After1
    <2> QED
      BY <2>1, NoneAreFew, Zenon
  <1>2. CASE q # <<>>
    <2> DEFINE h == <<Head(q)>>
    <2>1. After1(q, more) = (h \o more) \o Tail(q)
      BY <1>2 DEF After1
    <2>2. /\ h \in Seq(Line) /\ Len(h) = 1 /\ h[1] = q[1]
          /\ Tail(q) \in Seq(Line) /\ Len(q) \in Nat /\ Len(Tail(q)) = Len(q) - 1
          /\ \A k \in 1 .. Len(q) - 1 : Tail(q)[k] = q[k + 1]
      BY <1>2
    <2>3. 1 \in 1 .. Len(q) /\ \A k \in 1 .. Len(q) - 1 : k + 1 \in 1 .. Len(q)
      BY <1>2
    <2> HIDE DEF h
    <2>4. ASSUME NEW x \in Seq(Line) PROVE Few(x, Len(x))
      <3>1. Len(x) \in Nat
        OBVIOUS
      <3>2. RowPlaces(x) \in SUBSET (1 .. Len(x))
        BY <3>1, PlacesOfRows
      <3>3. IsFiniteSet(1 .. Len(x)) /\ Cardinality(1 .. Len(x)) = Len(x)
        <4>1. \A n \in Nat : IsFiniteSet(1 .. n) /\ Cardinality(1 .. n) = n
          BY FS_Interval
        <4> QED
          BY <3>1, <4>1, Zenon
      <3>4. Cardinality(RowPlaces(x)) <= Len(x)
        BY <3>2, <3>3, FS_Subset
      <3> QED
        BY <3>1, <3>4 DEF Few
    <2>5. Few(After1(q, more), Len(q))
      <3>1. Few(h, 1) /\ Few(Tail(q), Len(q) - 1) /\ Few(more, 0)
        BY <2>2, <2>4, NoneAreFew
      <3>2. Few((h \o more) \o Tail(q), (1 + 0) + (Len(q) - 1))
        BY <3>1, FewTogether, Zenon
      <3>3. (1 + 0) + (Len(q) - 1) = Len(q)
        BY <2>2
      <3> QED
        BY <2>1, <3>2, <3>3, Zenon
    <2>6. ASSUME NoRow(q) PROVE NoRow(After1(q, more))
      <3>1. NoRow(h)
        BY <2>2, <2>3, <2>6 DEF NoRow
      <3>2. NoRow(Tail(q))
        BY <2>2, <2>3, <2>6 DEF NoRow
      <3> QED
        BY <2>1, <3>1, <3>2, NoneTogether, Zenon
    <2> QED
      BY <2>5, <2>6
  <1> QED
    BY <1>1, <1>2

LEMMA MarksAreNoRows ==
  ASSUME NEW k \in Kinds \ {"row", "tag"}, NEW j \in Kinds \ {"row", "tag"}
  PROVE  NoRow(<<Mark(k)>>) /\ NoRow(<<Mark(k), Mark(j)>>) /\ NoRow(<<>>)
  <1>1. Mark(k) \in Line /\ Mark(k).kind # "row" /\ Mark(j) \in Line /\ Mark(j).kind # "row"
    BY MarkIsLine
  <1> QED
    BY <1>1 DEF NoRow

LEMMA WrittenIsFew ==
  ASSUME NEW slugs \in SeqsUpTo(Slug \cup {Odd, NoSlug}, Cardinality(Slug)),
         NEW tags \in SeqsUpTo(Slug, Cardinality(Slug)), NEW slip \in Slips
  PROVE  Few(Written(slugs, tags, slip), Cardinality(Slug))
  <1> DEFINE N == Cardinality(Slug)
             row(i) == Row(slugs[i], i > 1 \/ slip # "odd group",
                 IF i > 1 THEN "same" ELSE IF slip = "other limit" THEN "other"
                 ELSE IF slip = "no limit" THEN "none" ELSE "same")
             table == [i \in DOMAIN slugs |-> row(i)]
             lines == [i \in DOMAIN tags |-> TagLine(tags[i])]
             top   == <<Mark(IF slip = "miscased" THEN "heading" ELSE "general"), Mark("header")>>
             sep   == IF slip = "unruled" THEN <<>> ELSE <<Mark("separator")>>
             gap   == IF slip = "gap" THEN <<Mark("blank")>> ELSE <<>>
             mid   == <<Mark("blank"), Mark(IF slip = "untitled" THEN "heading" ELSE "suggested")>>
             rule  == IF slip = "ended" THEN <<Mark("rule")>> ELSE <<>>
             none  == IF slip = "taken back" THEN <<Mark("none")>> ELSE <<>>
  <1>0. N \in Nat
    BY SlugAssumption, FS_CardinalityType
  <1>1. Written(slugs, tags, slip) =
          ((((top \o sep) \o After1(table, gap)) \o mid) \o After1(lines, rule)) \o none
    BY DEF Written
  <1>2. /\ {"general", "header", "separator", "blank", "suggested", "none", "rule", "heading"}
             \subseteq Kinds \ {"row", "tag"}
    BY DEF Kinds
  <1>3. NoRow(top) /\ NoRow(mid)
    <2>1. /\ (IF slip = "miscased" THEN "heading" ELSE "general") \in Kinds \ {"row", "tag"}
          /\ (IF slip = "untitled" THEN "heading" ELSE "suggested") \in Kinds \ {"row", "tag"}
          /\ "header" \in Kinds \ {"row", "tag"} /\ "blank" \in Kinds \ {"row", "tag"}
      BY <1>2
    <2> QED
      BY <2>1, MarksAreNoRows, Zenon
  <1>4. NoRow(sep) /\ NoRow(gap) /\ NoRow(rule) /\ NoRow(none)
    <2>1. \A k \in {"separator", "blank", "rule", "none"} : NoRow(<<Mark(k)>>) /\ NoRow(<<>>)
      BY <1>2, MarksAreNoRows
    <2>2. /\ NoRow(<<Mark("separator")>>) /\ NoRow(<<Mark("blank")>>) /\ NoRow(<<Mark("rule")>>)
          /\ NoRow(<<Mark("none")>>) /\ NoRow(<<>>)
      BY <2>1
    <2> QED
      BY <2>2, Zenon
  <1>5. table \in Seq(Line) /\ Len(table) <= N /\ Len(table) \in Nat
    <2>1. PICK k \in 0 .. N : slugs \in [1 .. k -> Slug \cup {Odd, NoSlug}]
      BY DEF SeqsUpTo
    <2>2. ASSUME NEW i \in 1 .. k PROVE row(i) \in Line
      <3>1. slugs[i] \in Slug \cup {Odd, NoSlug} /\ (i > 1 \/ slip # "odd group") \in BOOLEAN
        BY <2>1
      <3>2. (IF i > 1 THEN "same" ELSE IF slip = "other limit" THEN "other"
             ELSE IF slip = "no limit" THEN "none" ELSE "same") \in {"same", "other", "none"}
        OBVIOUS
      <3>3. \A x \in Slug \cup {Odd, NoSlug}, y \in BOOLEAN, z \in {"same", "other", "none"} :
              Row(x, y, z) \in Line
        BY DEF Row, Line, RowLine
      <3> QED
        BY <3>1, <3>2, <3>3, Zenon
    <2> HIDE DEF row
    <2>3. table \in [1 .. k -> Line]
      BY <2>1, <2>2
    <2> HIDE DEF table
    <2> QED
      BY <1>0, <2>3
  <1>6. NoRow(lines)
    <2>1. PICK k \in 0 .. N : tags \in [1 .. k -> Slug]
      BY DEF SeqsUpTo
    <2>2. \A x \in Slug : TagLine(x) \in Line /\ TagLine(x).kind # "row"
      BY DEF TagLine, Line, NumberedLine
    <2>3. lines \in [1 .. k -> Line] /\ \A i \in 1 .. k : lines[i].kind # "row"
      BY <2>1, <2>2
    <2> HIDE DEF lines
    <2> QED
      BY <1>0, <2>3 DEF NoRow
  <1> HIDE DEF table, lines, top, sep, gap, mid, rule, none
  <1> DEFINE l == Len(table)
             T == After1(table, gap)
             L == After1(lines, rule)
  <1>7. Few(T, l) /\ NoRow(L)
    <2>1. lines \in Seq(Line)
      BY <1>6 DEF NoRow
    <2> QED
      BY <1>4, <1>5, <1>6, <2>1, AfterIsFew
  <1>8. Few(top, 0) /\ Few(sep, 0) /\ Few(mid, 0) /\ Few(none, 0) /\ Few(L, 0)
    BY <1>3, <1>4, <1>7, NoneAreFew
  <1> HIDE DEF T, L, l
  <1>9. Few(((((top \o sep) \o T) \o mid) \o L) \o none, ((((0 + 0) + l) + 0) + 0) + 0)
    BY <1>7, <1>8, FewTogether, Zenon
  <1>10. l \in Nat /\ l <= N /\ ((((0 + 0) + l) + 0) + 0) + 0 = l
    BY <1>5 DEF l
  <1>11. Few(Written(slugs, tags, slip), l)
    BY <1>1, <1>9, <1>10, Zenon DEF T, L
  <1>12. Cardinality(RowPlaces(Written(slugs, tags, slip))) \in Nat
    <2>1. Len(Written(slugs, tags, slip)) \in Nat
      BY <1>11 DEF Few
    <2> QED
      BY <2>1, PlacesOfRows
  <1> DEFINE w == Written(slugs, tags, slip)
  <1> HIDE DEF w, N
  <1>13. Few(w, l)
    BY <1>11 DEF w
  <1>14. Cardinality(RowPlaces(w)) <= N
    BY <1>0, <1>10, <1>12, <1>13 DEF Few, w
  <1>15. Few(w, N)
    BY <1>0, <1>13, <1>14 DEF Few
  <1> QED
    BY <1>15 DEF w, N

-----------------------------------------------------------------------------
(***************************************************************************)
(* The invariant.                                                          *)
(***************************************************************************)

AtStage7 == phase \in {"chores", "chain", "failed", "audit"}

IsEntry(e) == e = [tags |-> e.tags, level |-> e.level, translated |-> e.translated,
                   divisions |-> e.divisions, listed |-> e.listed]

\* The functions have their domains, and the platform's entries their fields.
ShapeInv ==
  /\ choice = [k \in Key |-> choice[k]]
  /\ got = [s \in Slug |-> got[s]]
  /\ \A s \in Slug : IsEntry(got[s])

\* What did not exist had nothing.
FreshInv == \A s \in DOMAIN rows : rows[s] = "fresh" => earlier[s].tags = {}

\* The document: few enough rows before the check, each problem once after it.
DocInv ==
  /\ doc \in Seq(Line)
  /\ phase = "delivered" => Few(doc, Cardinality(Slug))
  /\ phase \notin {"delivered", "refused"} =>
       /\ Distinct(doc, RowPlaces(doc))
       /\ ~edited => Sound(parse(doc))

\* What a pass goes by: a document in order, the one that was checked unless it was edited.
SourceInv ==
  AtStage7 =>
    /\ Proper(source) /\ Distinct(source.rows, DOMAIN source.rows)
    /\ ~edited => source = parse(doc) /\ Sound(source)

\* The file of a group is what render made of the group's part.
FileInv ==
  phase = "chain" =>
    /\ group \in Group /\ Members(group) # {}
    /\ file = render(subset(source, Members(group)))

\* Before stage 7 nothing has been done.
BeforeInv ==
  ~AtStage7 =>
    /\ chored = {} /\ unsure = {} /\ late = {} /\ DOMAIN rows = {}
    /\ \A g \in Group : doneFile[g] = {}
    /\ got = earlier

\* A pass goes by the choices made before stage 7.
ArgsInv == AtStage7 => \A key \in Key \ late : args[key] = Promised(key)

Stage == {"translate", "metadata", "division", "list-add", "list-reorder"}
WantedStages == {k \in Stage : Wanted(k)}
ToCome == {plan[i] : i \in DOMAIN plan}

\* An invocation that has anything to do leaves out only what was done before.
PlanInv ==
  phase = "chain" =>
    /\ plan \in Seq(Stage)
    /\ ToCome \cup ran \subseteq WantedStages
    /\ ToCome \cup ran # {} => WantedStages \subseteq ToCome \cup ran \cup doneFile[group]

TagsDue(s) == {s} \cup earlier[s].tags

\* What a stage gives a problem.
Has(k, s) ==
  /\ k = "translate" /\ "targets" \notin late => got[s].translated = TranslationsDue(s)
  /\ k = "metadata" => /\ got[s].level
                       /\ source.tags # <<>> /\ s \in manifest.tagged => got[s].tags = TagsDue(s)
  /\ k = "division" /\ "divisions" \notin late => got[s].divisions = DivisionsDue(s)

\* No problem ever has anything else, or loses what it had but for its divisions.
NoMoreInv ==
  \A s \in Slug :
    /\ earlier[s].tags \subseteq got[s].tags
    /\ ~edited /\ s \in manifest.tagged => got[s].tags \subseteq TagsDue(s)
    /\ earlier[s].translated \subseteq got[s].translated
    /\ "targets" \notin late => got[s].translated \subseteq TranslationsDue(s)
    /\ "divisions" \notin late => got[s].divisions \in {earlier[s].divisions, DivisionsDue(s)}
    /\ "list_url" \notin late /\ Promised("list_url") = {} => got[s].listed = earlier[s].listed

\* A stage that completed, in this invocation or an earlier one, was applied to all that
\* is pending in the group; a chored problem has all.
AppliedInv ==
  AtStage7 /\ ~edited =>
    /\ \A g \in Group : \A k \in doneFile[g], s \in Members(g) : Has(k, s)
    /\ phase = "chain" => \A k \in ran, s \in Members(group) : Has(k, s)
    /\ \A s \in chored, k \in Stage : Has(k, s)

\* Whom the list step reported is in the list; a chored problem is, or the log says that
\* this was not verified.
ListedInv ==
  /\ phase = "chain" /\ "list-add" \in ran => \A s \in joined : got[s].listed
  /\ AtStage7 /\ late = {} /\ args["list_url"] # {} =>
       \A s \in chored : got[s].listed \/ s \in unsure

AuditInv == phase = "audit" => chored = DOMAIN rows

DeliveryInv ==
  /\ TypeOK /\ ShapeInv /\ FreshInv /\ DocInv /\ SourceInv /\ FileInv /\ BeforeInv /\ ArgsInv /\ PlanInv
  /\ NoMoreInv /\ AppliedInv /\ ListedInv /\ AuditInv

LEMMA StepCases ==
  ASSUME [Next]_vars
  PROVE  \/ Precheck \/ StageRuns \/ ChainFails \/ PlanEmpty \/ NotJoined \/ ChainEnds \/ EndChores
         \/ Resume \/ UNCHANGED vars
         \/ \E key \in Key : \E value \in {Unset, {Odd}} \cup SUBSET Vocabulary : Choose(key, value)
         \/ \E some \in (SUBSET Slug) \ {{}} : \E r \in [some -> Group] :
              \E entry \in {Blank, WorkedOn} : Upload(r, entry)
         \/ \E g \in Group : StartChain(g)
         \/ \E i \in DOMAIN doc : Edit(Without(doc, i))
  BY DEF Next, Rest

LEMMA OrderIs ==
  /\ Order \in Seq(Stage) /\ Len(Order) = 5 /\ DOMAIN Order = 1 .. 5
  /\ {Order[i] : i \in DOMAIN Order} = Stage
  <1>1. Order \in Seq(Stage) /\ Len(Order) = 5 /\ DOMAIN Order = 1 .. 5
    BY DEF Order, Stage
  <1>2. ASSUME NEW k \in Stage PROVE \E i \in 1 .. 5 : Order[i] = k
    <2>1. /\ Order[1] = "translate" /\ Order[2] = "metadata" /\ Order[3] = "division"
          /\ Order[4] = "list-add" /\ Order[5] = "list-reorder"
      BY DEF Order
    <2> HIDE DEF Order
    <2> QED
      BY <2>1 DEF Stage
  <1>3. ASSUME NEW i \in 1 .. 5 PROVE Order[i] \in Stage
    <2>1. PICK q : q = Order
      OBVIOUS
    <2>2. q \in Seq(Stage) /\ i \in 1 .. Len(q)
      BY <1>1, <2>1
    <2> QED
      BY <2>1, <2>2
  <1> QED
    BY <1>1, <1>2, <1>3, Zenon

\* What the tool has read of the file it works on.
LEMMA FileOfGroup ==
  ASSUME TypeOK, SourceInv, FileInv, phase = "chain"
  PROVE  /\ FileHas(parse(file), source, Members(group))
         /\ RowsOf(parse(file)) \subseteq Members(group)
         /\ Members(group) \subseteq DOMAIN rows /\ DOMAIN rows \subseteq Slug
         /\ ~edited => RowsOf(parse(file)) = Members(group) /\ Sound(source)
  <1>1. Proper(source) /\ file = render(subset(source, Members(group)))
    BY DEF SourceInv, FileInv, AtStage7
  <1>2. FileHas(parse(file), source, Members(group))
    BY <1>1, FileIs, Zenon
  <1>3. RowsOf(parse(file)) = RowsOf(source) \cap Members(group)
    BY <1>2, Zenon DEF FileHas
  <1>4. Members(group) \subseteq DOMAIN rows /\ DOMAIN rows \subseteq Slug
    BY DEF TypeOK, Members
  <1>5. ~edited => Sound(source) /\ RowsOf(source) = Slug
    BY Zenon DEF SourceInv, AtStage7, Sound
  <1> QED
    BY <1>2, <1>3, <1>4, <1>5

\* A tagged problem is paired with its own tags only.
LEMMA PairedIsOwn ==
  ASSUME Proper(source), Sound(source), NEW f, NEW M, FileHas(f, source, M),
         NEW s \in manifest.tagged
  PROVE  Paired(f, s) \subseteq {s}
  <1> SUFFICES ASSUME NEW t \in Paired(f, s) PROVE t = s
    OBVIOUS
  <1>1. PICK i \in DOMAIN source.rows : source.rows[i].slug = s /\ t = source.tags[i].tag
    BY DEF FileHas
  <1>2. tags_will_apply(source)
    BY DEF FileHas
  <1>3. DOMAIN source.rows = DOMAIN source.tags
    <2>1. source.rows \in Seq(Line) /\ source.tags \in Seq(Line)
      BY DEF Proper
    <2>2. Len(source.rows) = Len(source.tags)
      BY <1>2 DEF tags_will_apply
    <2> QED
      BY <2>1, <2>2
  <1> QED
    BY <1>1, <1>2, <1>3, Zenon DEF Sound

\* What a stage makes of an entry.
Made(e, k, s, c) ==
  /\ IsEntry(e)
  /\ k = "translate" => e.translated = got[s].translated \cup args["targets"]
  /\ k # "translate" => e.translated = got[s].translated
  /\ k = "metadata" => /\ e.level
                       /\ \/ e.tags = got[s].tags \cup Paired(c, s)
                          \/ group = "fresh" /\ Paired(c, s) # {} /\ e.tags = Paired(c, s)
  /\ k # "metadata" => e.level = got[s].level /\ e.tags = got[s].tags
  /\ k = "division" => e.divisions = args["divisions"]
  /\ k # "division" => e.divisions = got[s].divisions
  /\ k = "list-add" => (e.listed <=> got[s].listed \/ s \in joined')
  /\ k # "list-add" => e.listed = got[s].listed

LEMMA EffectIs ==
  ASSUME NEW s \in Slug, IsEntry(got[s]), NEW k \in Stage, NEW c
  PROVE  Made(Effect(k, s, c), k, s, c)
  <1> DEFINE e == got[s]
             t == IF group = "fresh" /\ Paired(c, s) # {} THEN Paired(c, s)
                  ELSE e.tags \cup Paired(c, s)
  <1>0. t = e.tags \cup Paired(c, s) \/ (group = "fresh" /\ Paired(c, s) # {} /\ t = Paired(c, s))
    OBVIOUS
  <1>1. PICK a, b, x, y, z : e = [tags |-> a, level |-> b, translated |-> x, divisions |-> y,
                                  listed |-> z]
    BY DEF IsEntry
  <1>2. CASE k = "translate"
    <2>1. Effect(k, s, c) = [e EXCEPT !.translated = @ \cup args["targets"]]
      BY <1>2 DEF Effect
    <2> QED
      BY <1>1, <1>2, <2>1 DEF IsEntry, Made
  <1>3. CASE k = "metadata"
    <2>1. Effect(k, s, c) = [e EXCEPT !.level = TRUE, !.tags = t]
      BY <1>3 DEF Effect
    <2> HIDE DEF t
    <2> QED
      BY <1>0, <1>1, <1>3, <2>1 DEF IsEntry, Made
  <1>4. CASE k = "division"
    <2>1. Effect(k, s, c) = [e EXCEPT !.divisions = args["divisions"]]
      BY <1>4 DEF Effect
    <2> QED
      BY <1>1, <1>4, <2>1 DEF IsEntry, Made
  <1>5. CASE k = "list-add"
    <2>1. Effect(k, s, c) = [e EXCEPT !.listed = @ \/ s \in joined']
      BY <1>5 DEF Effect
    <2> QED
      BY <1>1, <1>5, <2>1 DEF IsEntry, Made
  <1>6. CASE k = "list-reorder"
    BY <1>6 DEF Effect, Made
  <1> QED
    BY <1>2, <1>3, <1>4, <1>5, <1>6 DEF Stage

-----------------------------------------------------------------------------
(***************************************************************************)
(* Every step keeps it: one lemma for each part.                           *)
(***************************************************************************)

USE DEF vars, delivery, chosen, chain, pass, lane

LEMMA TypeStep ==
  ASSUME DeliveryInv, [Next]_vars
  PROVE  TypeOK'
  <1> USE DEF DeliveryInv
  <1>t. TypeOK
    OBVIOUS
  <1>1. CASE StageRuns
    <2>1. joined' \subseteq Slug
      <3>1. CASE Head(plan) = "list-add"
        <4>1. joined' \subseteq RowsOf(parse(file)) /\ phase = "chain"
          BY <1>1, <3>1 DEF StageRuns
        <4> QED
          BY <4>1, FileOfGroup
      <3>2. CASE Head(plan) # "list-add"
        BY <1>1, <1>t, <3>2 DEF StageRuns, TypeOK
      <3> QED
        BY <3>1, <3>2
    <2> QED
      BY <1>1, <1>t, <2>1 DEF StageRuns, TypeOK, Order
  <1>2. CASE ChainFails
    <2>1. phase = "chain" /\ ran \subseteq {Order[i] : i \in DOMAIN Order} /\ group \in Group
      BY <1>2, OrderIs DEF ChainFails, PlanInv, WantedStages, FileInv
    <2>2. doneFile' \in [Group -> SUBSET {Order[i] : i \in DOMAIN Order}]
      BY <1>2, <1>t, <2>1 DEF ChainFails, TypeOK
    <2> QED
      BY <1>2, <1>t, <2>2 DEF ChainFails, Fail, TypeOK
  <1>3. CASE ChainEnds
    <2>1. Members(group) \subseteq DOMAIN rows /\ Unverified \subseteq DOMAIN rows
      BY DEF Members, Unverified
    <2> QED
      BY <1>3, <1>t, <2>1 DEF ChainEnds, TypeOK
  <1>4. ASSUME NEW key \in Key, NEW value \in {Unset, {Odd}} \cup SUBSET Vocabulary,
               Choose(key, value)
        PROVE  TypeOK'
    <2>1. late' \subseteq Key
      BY <1>4, <1>t DEF Choose, TypeOK
    <2>2. ASSUME NEW k \in Key \ {"list_url"}
          PROVE  choice'[k] \in {Unset} \cup SUBSET Vocabulary
      <3>1. k = key => value \in {Unset} \cup SUBSET Vocabulary
        BY <1>4, <2>2 DEF Choose, Accepts
      <3>2. choice'[k] = IF k = key THEN value ELSE choice[k]
        BY <1>4 DEF Choose, ShapeInv
      <3> QED
        BY <1>t, <3>1, <3>2 DEF TypeOK
    <2> QED
      BY <1>4, <1>t, <2>1, <2>2 DEF Choose, TypeOK
  <1>5. ASSUME NEW some \in (SUBSET Slug) \ {{}}, NEW r \in [some -> Group],
               NEW entry \in {Blank, WorkedOn}, Upload(r, entry)
        PROVE  TypeOK'
    <2>1. chored = {} /\ unsure = {}
      BY <1>5 DEF Upload, BeforeInv, AtStage7
    <2>2. DOMAIN r \subseteq Slug /\ \A s \in DOMAIN r : r[s] \in Group
      OBVIOUS
    <2> QED
      BY <1>5, <1>t, <2>1, <2>2 DEF Upload, BeginPass, TypeOK
  <1>6. CASE Precheck
    BY <1>6, <1>t DEF Precheck, TypeOK
  <1>7. CASE PlanEmpty \/ NotJoined
    BY <1>7, <1>t DEF PlanEmpty, NotJoined, Fail, TypeOK
  <1>8. CASE EndChores \/ Resume
    BY <1>8, <1>t DEF EndChores, Resume, BeginPass, TypeOK
  <1>9. CASE UNCHANGED vars
    BY <1>9, <1>t DEF TypeOK
  <1>10. ASSUME NEW g \in Group, StartChain(g) PROVE TypeOK'
    BY <1>10, <1>t DEF StartChain, TypeOK
  <1>11. ASSUME NEW i \in DOMAIN doc, Edit(Without(doc, i)) PROVE TypeOK'
    BY <1>11, <1>t DEF Edit, TypeOK
  <1> QED
    BY <1>1, <1>2, <1>3, <1>4, <1>5, <1>6, <1>7, <1>8, <1>9, <1>10, <1>11, StepCases, Zenon

UploadHappens ==
  \E some \in (SUBSET Slug) \ {{}} : \E r \in [some -> Group] :
    \E entry \in {Blank, WorkedOn} : Upload(r, entry)

LEMMA UploadIsBefore == UploadHappens => ~AtStage7
  BY DEF UploadHappens, Upload, AtStage7

\* From stage 7 on only a stage changes what the platform has, and nothing what it had;
\* only a request changes a choice.
LEMMA GotIsKept ==
  ASSUME [Next]_vars, ~StageRuns, AtStage7 \/ ~UploadHappens
  PROVE  got' = got
  <1> USE DEF Fail
  <1>1. CASE Precheck
    BY <1>1 DEF Precheck
  <1>2. CASE ChainFails \/ PlanEmpty \/ NotJoined \/ ChainEnds
    BY <1>2 DEF ChainFails, PlanEmpty, NotJoined, ChainEnds
  <1>3. CASE EndChores \/ Resume \/ UNCHANGED vars
    BY <1>3 DEF EndChores, Resume
  <1>4. ASSUME NEW key, NEW value, Choose(key, value) PROVE got' = got
    BY <1>4 DEF Choose
  <1>5. ~UploadHappens
    BY UploadIsBefore
  <1>6. ASSUME NEW g, StartChain(g) PROVE got' = got
    BY <1>6 DEF StartChain
  <1>7. ASSUME NEW i, Edit(Without(doc, i)) PROVE got' = got
    BY <1>7 DEF Edit
  <1> QED
    BY <1>1, <1>2, <1>3, <1>4, <1>5, <1>6, <1>7, StepCases, Zenon DEF UploadHappens

LEMMA EarlierIsKept ==
  ASSUME [Next]_vars, AtStage7 \/ ~UploadHappens
  PROVE  UNCHANGED <<rows, earlier>>
  <1> USE DEF Fail
  <1>1. CASE Precheck \/ StageRuns
    BY <1>1 DEF Precheck, StageRuns
  <1>2. CASE ChainFails \/ PlanEmpty \/ NotJoined \/ ChainEnds
    BY <1>2 DEF ChainFails, PlanEmpty, NotJoined, ChainEnds
  <1>3. CASE EndChores \/ Resume \/ UNCHANGED vars
    BY <1>3 DEF EndChores, Resume
  <1>4. ASSUME NEW key, NEW value, Choose(key, value) PROVE UNCHANGED <<rows, earlier>>
    BY <1>4 DEF Choose
  <1>5. ~UploadHappens
    BY UploadIsBefore
  <1>6. ASSUME NEW g, StartChain(g) PROVE UNCHANGED <<rows, earlier>>
    BY <1>6 DEF StartChain
  <1>7. ASSUME NEW i, Edit(Without(doc, i)) PROVE UNCHANGED <<rows, earlier>>
    BY <1>7 DEF Edit
  <1> QED
    BY <1>1, <1>2, <1>3, <1>4, <1>5, <1>6, <1>7, StepCases, Zenon DEF UploadHappens

LEMMA FreshStep ==
  ASSUME DeliveryInv, [Next]_vars
  PROVE  FreshInv'
  <1>1. ASSUME NEW some \in (SUBSET Slug) \ {{}}, NEW r \in [some -> Group],
               NEW entry \in {Blank, WorkedOn}, Upload(r, entry)
        PROVE  FreshInv'
    <2> SUFFICES ASSUME NEW s \in DOMAIN r, r[s] = "fresh" PROVE earlier'[s].tags = {}
      BY <1>1 DEF Upload, FreshInv
    <2>1. s \in Slug /\ earlier'[s] = Blank
      BY <1>1 DEF Upload
    <2> QED
      BY <2>1 DEF Blank
  <1>2. CASE ~UploadHappens
    <2>1. UNCHANGED <<rows, earlier>>
      BY <1>2, EarlierIsKept
    <2> QED
      BY <2>1 DEF DeliveryInv, FreshInv
  <1> QED
    BY <1>1, <1>2 DEF UploadHappens

LEMMA ChoiceIsKept ==
  ASSUME [Next]_vars,
         ~\E key \in Key : \E value \in {Unset, {Odd}} \cup SUBSET Vocabulary : Choose(key, value)
  PROVE  UNCHANGED <<choice, late>>
  <1> USE DEF Fail
  <1>1. CASE Precheck \/ StageRuns
    BY <1>1 DEF Precheck, StageRuns
  <1>2. CASE ChainFails \/ PlanEmpty \/ NotJoined \/ ChainEnds
    BY <1>2 DEF ChainFails, PlanEmpty, NotJoined, ChainEnds
  <1>3. CASE EndChores \/ Resume \/ UNCHANGED vars
    BY <1>3 DEF EndChores, Resume
  <1>5. ASSUME NEW r, NEW entry, Upload(r, entry) PROVE UNCHANGED <<choice, late>>
    BY <1>5 DEF Upload
  <1>6. ASSUME NEW g, StartChain(g) PROVE UNCHANGED <<choice, late>>
    BY <1>6 DEF StartChain
  <1>7. ASSUME NEW i, Edit(Without(doc, i)) PROVE UNCHANGED <<choice, late>>
    BY <1>7 DEF Edit
  <1> QED
    BY <1>1, <1>2, <1>3, <1>5, <1>6, <1>7, StepCases, Zenon

LEMMA ShapeStep ==
  ASSUME DeliveryInv, [Next]_vars
  PROVE  ShapeInv'
  <1>0. /\ choice = [k \in Key |-> choice[k]] /\ got = [s \in Slug |-> got[s]]
        /\ \A s \in Slug : IsEntry(got[s])
    BY DEF DeliveryInv, ShapeInv
  <1>1. choice' = [k \in Key |-> choice'[k]]
    <2>1. ASSUME NEW key \in Key, NEW value, Choose(key, value)
          PROVE  choice' = [k \in Key |-> choice'[k]]
      <3>1. choice' = [choice EXCEPT ![key] = value]
        BY <2>1 DEF Choose
      <3> QED
        BY <1>0, <3>1
    <2>2. choice' = choice => choice' = [k \in Key |-> choice'[k]]
      BY <1>0, Zenon
    <2> QED
      BY <2>1, <2>2, ChoiceIsKept, Zenon
  <1>2. got' = [s \in Slug |-> got'[s]] /\ \A s \in Slug : IsEntry(got'[s])
    <2>1. CASE StageRuns
      <3> DEFINE c == parse(file)
      <3>0. got' = [s \in Slug |-> IF s \in RowsOf(c) THEN Effect(Head(plan), s, c) ELSE got[s]]
        BY <2>1 DEF StageRuns
      <3>1. Head(plan) \in Stage
        <4>1. plan \in Seq(Stage) /\ plan # <<>>
          BY <2>1 DEF StageRuns, DeliveryInv, PlanInv
        <4> QED
          BY <4>1
      <3> HIDE DEF c
      <3>2. \A s \in Slug : IsEntry(Effect(Head(plan), s, c))
        BY <1>0, <3>1, EffectIs DEF Made
      <3> QED
        BY <1>0, <3>0, <3>2
    <2>2. CASE got' = got
      BY <1>0, <2>2, Zenon
    <2>3. CASE UploadHappens
      <3>1. PICK r, entry : entry \in {Blank, WorkedOn} /\ Upload(r, entry)
        BY <2>3, Zenon DEF UploadHappens
      <3>2. got' = [s \in Slug |-> IF s \in DOMAIN r /\ r[s] = "existing" THEN entry ELSE Blank]
        BY <3>1 DEF Upload
      <3>3. IsEntry(Blank) /\ IsEntry(entry)
        BY <3>1 DEF IsEntry, Blank, WorkedOn
      <3> QED
        BY <3>2, <3>3
    <2> QED
      BY <2>1, <2>2, <2>3, GotIsKept
  <1> QED
    BY <1>1, <1>2, Zenon DEF ShapeInv, IsEntry

\* Only the check and an edit matter to the document.
LEMMA DocStep ==
  ASSUME DeliveryInv, [Next]_vars
  PROVE  DocInv'
  <1>0. DocInv
    BY DEF DeliveryInv
  <1>1. CASE Precheck
    <2>1. phase = "delivered" /\ UNCHANGED <<doc, edited, manifest>>
      BY <1>1 DEF Precheck
    <2>2. doc \in Seq(Line) /\ Cardinality(RowPlaces(doc)) <= Cardinality(Slug)
      BY <1>0, <2>1 DEF DocInv, Few
    <2>3. CASE Refusals(parse(doc)) = {}
      <3>1. Sound(parse(doc))
        BY <2>2, <2>3, ParseIsProper, UnrefusedIsSound
      <3>2. Distinct(doc, RowPlaces(doc))
        BY <2>2, <3>1, SoundIsDistinct
      <3>3. Sound(parse(doc))'
        BY <2>1, <3>1 DEF Sound, parse, tags_will_apply, RowsOf
      <3>4. phase' = "accepted"
        BY <1>1, <2>3 DEF Precheck
      <3> QED
        BY <2>1, <2>2, <3>2, <3>3, <3>4 DEF DocInv
    <2>4. CASE Refusals(parse(doc)) # {}
      <3>1. phase' = "refused"
        BY <1>1, <2>4 DEF Precheck
      <3> QED
        BY <2>1, <2>2, <3>1 DEF DocInv
    <2> QED
      BY <2>3, <2>4
  <1>2. ASSUME NEW i \in DOMAIN doc, Edit(Without(doc, i)) PROVE DocInv'
    <2>1. /\ doc \in Seq(Line) /\ Distinct(doc, RowPlaces(doc))
          /\ doc' = Without(doc, i) /\ edited' = TRUE /\ phase' \in {"accepted", "failed"}
      BY <1>0, <1>2 DEF Edit, DocInv
    <2>2. doc' \in Seq(Line) /\ Distinct(doc', RowPlaces(doc'))
      BY <2>1, WithoutKeeps
    <2> QED
      BY <2>1, <2>2 DEF DocInv
  <1>3. ASSUME UNCHANGED <<doc, edited, manifest>>,
               phase' = "delivered" => phase = "delivered",
               phase \in {"delivered", "refused"} => phase' = phase
        PROVE  DocInv'
    <2>1. Sound(parse(doc)) => Sound(parse(doc))'
      BY <1>3 DEF Sound, parse, tags_will_apply, RowsOf
    <2>2. doc \in Seq(Line) /\ (phase = "delivered" => Few(doc, Cardinality(Slug)))
      BY <1>0 DEF DocInv
    <2>3. phase \notin {"delivered", "refused"} =>
            /\ Distinct(doc, RowPlaces(doc))
            /\ ~edited => Sound(parse(doc))
      BY <1>0 DEF DocInv
    <2>4. UNCHANGED doc /\ edited' = edited
      BY <1>3
    <2> QED
      BY <1>3, <2>1, <2>2, <2>3, <2>4 DEF DocInv
  <1> USE DEF Fail, BeginPass
  <1>4. CASE StageRuns \/ ChainFails \/ PlanEmpty
    BY <1>3, <1>4 DEF StageRuns, ChainFails, PlanEmpty
  <1>5. CASE NotJoined \/ ChainEnds \/ EndChores \/ Resume
    BY <1>3, <1>5 DEF NotJoined, ChainEnds, EndChores, Resume
  <1>6. CASE UNCHANGED vars
    BY <1>3, <1>6
  <1>7. ASSUME NEW key, NEW value, Choose(key, value) PROVE DocInv'
    BY <1>3, <1>7 DEF Choose
  <1>8. ASSUME NEW r, NEW entry, Upload(r, entry) PROVE DocInv'
    BY <1>3, <1>8 DEF Upload
  <1>9. ASSUME NEW g, StartChain(g) PROVE DocInv'
    BY <1>3, <1>9 DEF StartChain
  <1> QED
    BY <1>1, <1>2, <1>4, <1>5, <1>6, <1>7, <1>8, <1>9, StepCases, Zenon

\* A pass takes the document as it lies there, and keeps to it.
LEMMA SourceStep ==
  ASSUME DeliveryInv, [Next]_vars
  PROVE  SourceInv'
  <1>0. SourceInv /\ DocInv
    BY DEF DeliveryInv
  <1>1. ASSUME BeginPass, phase \in {"accepted", "failed"}, UNCHANGED <<doc, edited, manifest>>
        PROVE  SourceInv'
    <2>1. /\ doc \in Seq(Line) /\ Distinct(doc, RowPlaces(doc))
          /\ ~edited => Sound(parse(doc))
      BY <1>0, <1>1 DEF DocInv
    <2>2. source' = parse(doc)
      BY <1>1 DEF BeginPass
    <2>3. Proper(source') /\ Distinct(source'.rows, DOMAIN source'.rows)
      BY <2>1, <2>2, ParseIsProper, PickedIsDistinct
    <2>4. ~edited' => source' = parse(doc)' /\ Sound(source)'
      BY <1>1, <2>1, <2>2 DEF Sound, parse, tags_will_apply, RowsOf
    <2> QED
      BY <2>3, <2>4 DEF SourceInv
  <1>2. ASSUME UNCHANGED <<source, manifest>>, AtStage7' => AtStage7,
               edited' \/ UNCHANGED <<edited, doc>>
        PROVE  SourceInv'
    <2>1. AtStage7 => Proper(source') /\ Distinct(source'.rows, DOMAIN source'.rows)
      BY <1>0, <1>2 DEF SourceInv
    <2>2. AtStage7 /\ ~edited' => source' = parse(doc)' /\ Sound(source)'
      BY <1>0, <1>2 DEF SourceInv, Sound, parse, tags_will_apply, RowsOf
    <2> QED
      BY <1>2, <2>1, <2>2 DEF SourceInv
  <1> USE DEF Fail, AtStage7
  <1>3. CASE Precheck
    BY <1>2, <1>3 DEF Precheck
  <1>4. CASE StageRuns \/ ChainFails \/ PlanEmpty
    BY <1>2, <1>4 DEF StageRuns, ChainFails, PlanEmpty
  <1>5. CASE NotJoined \/ ChainEnds \/ EndChores
    BY <1>2, <1>5 DEF NotJoined, ChainEnds, EndChores
  <1>6. CASE Resume
    BY <1>1, <1>6 DEF Resume
  <1>7. CASE UNCHANGED vars
    BY <1>2, <1>7
  <1>8. ASSUME NEW key, NEW value, Choose(key, value) PROVE SourceInv'
    BY <1>2, <1>8 DEF Choose
  <1>9. ASSUME NEW r, NEW entry, Upload(r, entry) PROVE SourceInv'
    BY <1>1, <1>9 DEF Upload
  <1>10. ASSUME NEW g, StartChain(g) PROVE SourceInv'
    BY <1>2, <1>10 DEF StartChain
  <1>11. ASSUME NEW i, Edit(Without(doc, i)) PROVE SourceInv'
    BY <1>2, <1>11 DEF Edit
  <1> QED
    BY <1>3, <1>4, <1>5, <1>6, <1>7, <1>8, <1>9, <1>10, <1>11, StepCases, Zenon

\* What an invocation goes by until it is over.
LEMMA FileStep ==
  ASSUME DeliveryInv, [Next]_vars
  PROVE  FileInv'
  <1>0. FileInv
    BY DEF DeliveryInv
  <1>1. ASSUME NEW g \in Group, StartChain(g) PROVE FileInv'
    <2>1. /\ group' = g /\ Members(g) # {} /\ file' = render(subset(source, Members(g)))
          /\ UNCHANGED <<rows, chored, source>>
      BY <1>1 DEF StartChain
    <2>2. Members(group)' = Members(g)
      BY <2>1 DEF Members
    <2>3. file' = render(subset(source, Members(group)))'
      <3>1. PICK M : M = Members(g)
        OBVIOUS
      <3>2. file' = render(subset(source, M)) /\ M = Members(group)' /\ source = source'
        BY <2>1, <2>2, <3>1
      <3>3. render(subset(source, Members(group)))' = render(subset(source, M))
        <4>1. source' = source /\ Members(group)' = M
          BY <3>2
        <4>2. Kept(source, Members(group))' = Kept(source, M)
          BY <4>1 DEF Kept
        <4>3. subset(source, Members(group))' = subset(source, M)
          BY <4>1, <4>2 DEF subset, tags_will_apply, At, InOrder
        <4> QED
          BY <4>3 DEF render, Mark
      <3> QED
        BY <3>2, <3>3
    <2> QED
      BY <2>1, <2>2, <2>3 DEF FileInv
  <1>2. ASSUME phase' = "chain", phase = "chain", UNCHANGED <<rows, chored, source, group, file>>
        PROVE  FileInv'
    <2>1. Members(group)' = Members(group)
      BY <1>2 DEF Members
    <2>2. render(subset(source, Members(group)))' = render(subset(source, Members(group)))
      BY <1>2, <2>1 DEF render, subset, tags_will_apply, Kept, At, InOrder
    <2> QED
      BY <1>0, <1>2, <2>1, <2>2 DEF FileInv
  <1>3. phase' # "chain" => FileInv'
    BY DEF FileInv
  <1> USE DEF Fail, BeginPass
  <1>4. CASE StageRuns
    BY <1>2, <1>3, <1>4 DEF StageRuns
  <1>5. CASE Precheck \/ ChainFails \/ PlanEmpty \/ NotJoined
    BY <1>3, <1>5 DEF Precheck, ChainFails, PlanEmpty, NotJoined
  <1>6. CASE ChainEnds \/ EndChores \/ Resume
    BY <1>3, <1>6 DEF ChainEnds, EndChores, Resume
  <1>7. CASE UNCHANGED vars
    BY <1>2, <1>3, <1>7
  <1>8. ASSUME NEW key, NEW value, Choose(key, value) PROVE FileInv'
    BY <1>3, <1>8 DEF Choose
  <1>9. ASSUME NEW r, NEW entry, Upload(r, entry) PROVE FileInv'
    BY <1>3, <1>9 DEF Upload
  <1>10. ASSUME NEW i, Edit(Without(doc, i)) PROVE FileInv'
    BY <1>3, <1>10 DEF Edit
  <1> QED
    BY <1>1, <1>4, <1>5, <1>6, <1>7, <1>8, <1>9, <1>10, StepCases, Zenon

LEMMA BeforeStep ==
  ASSUME DeliveryInv, [Next]_vars
  PROVE  BeforeInv'
  <1>0. BeforeInv
    BY DEF DeliveryInv
  <1> USE DEF Fail, BeginPass, AtStage7
  <1>1. AtStage7' => BeforeInv'
    BY Zenon DEF BeforeInv
  <1>2. ASSUME ~AtStage7, UNCHANGED <<lane, got>>, late' = late PROVE BeforeInv'
    BY <1>0, <1>2 DEF BeforeInv
  <1>3. CASE Precheck \/ UNCHANGED vars
    BY <1>1, <1>2, <1>3 DEF Precheck
  <1>4. CASE StageRuns \/ ChainFails \/ PlanEmpty
    BY <1>1, <1>4 DEF StageRuns, ChainFails, PlanEmpty
  <1>5. CASE NotJoined \/ ChainEnds \/ EndChores \/ Resume
    BY <1>1, <1>5 DEF NotJoined, ChainEnds, EndChores, Resume
  <1>6. ASSUME NEW key, NEW value, Choose(key, value) PROVE BeforeInv'
    BY <1>1, <1>2, <1>6 DEF Choose
  <1>7. ASSUME NEW r, NEW entry, Upload(r, entry) PROVE BeforeInv'
    BY <1>1, <1>7 DEF Upload
  <1>8. ASSUME NEW g, StartChain(g) PROVE BeforeInv'
    BY <1>1, <1>8 DEF StartChain
  <1>9. ASSUME NEW i, Edit(Without(doc, i)) PROVE BeforeInv'
    BY <1>1, <1>2, <1>9 DEF Edit
  <1> QED
    BY <1>3, <1>4, <1>5, <1>6, <1>7, <1>8, <1>9, StepCases, Zenon

\* A choice made during stage 7 is late; the next pass reads the others as they were.
LEMMA ArgsStep ==
  ASSUME DeliveryInv, [Next]_vars
  PROVE  ArgsInv'
  <1>0. ArgsInv /\ choice = [k \in Key |-> choice[k]]
    BY DEF DeliveryInv, ShapeInv
  <1>1. ASSUME BeginPass, UNCHANGED <<choice, late>> PROVE ArgsInv'
    <2>1. ASSUME NEW key \in Key PROVE args'[key] = Promised(key)'
      BY <1>1 DEF BeginPass, effective, Promised, Configured
    <2> QED
      BY <2>1 DEF ArgsInv
  <1>2. ASSUME UNCHANGED <<args, choice, late>>, AtStage7' => AtStage7 PROVE ArgsInv'
    BY <1>0, <1>2 DEF ArgsInv, Promised, Configured
  <1>3. ~AtStage7' => ArgsInv'
    BY Zenon DEF ArgsInv
  <1>4. ASSUME NEW key \in Key, NEW value, Choose(key, value) PROVE ArgsInv'
    <2>1. CASE phase = "accepted"
      BY <1>3, <1>4, <2>1 DEF Choose, AtStage7
    <2>2. CASE phase = "failed"
      <3>1. late' = late \cup {key} /\ args' = args
        BY <1>4, <2>2 DEF Choose
      <3>2. ASSUME NEW k \in Key \ late' PROVE args'[k] = Promised(k)'
        <4>1. choice'[k] = choice[k]
          BY <1>0, <1>4, <3>1, <3>2 DEF Choose
        <4>2. args[k] = Promised(k)
          BY <1>0, <2>2, <3>1, <3>2 DEF ArgsInv, AtStage7
        <4> QED
          BY <3>1, <4>1, <4>2 DEF Promised, Configured
      <3> QED
        BY <3>2 DEF ArgsInv
    <2> QED
      BY <1>4, <2>1, <2>2 DEF Choose
  <1> USE DEF Fail, AtStage7
  <1>5. CASE Precheck
    BY <1>3, <1>5 DEF Precheck
  <1>6. CASE StageRuns \/ ChainFails \/ PlanEmpty
    BY <1>2, <1>6 DEF StageRuns, ChainFails, PlanEmpty
  <1>7. CASE NotJoined \/ ChainEnds \/ EndChores
    BY <1>2, <1>7 DEF NotJoined, ChainEnds, EndChores
  <1>8. CASE Resume
    BY <1>1, <1>8 DEF Resume
  <1>9. CASE UNCHANGED vars
    BY <1>2, <1>9
  <1>10. ASSUME NEW r, NEW entry, Upload(r, entry) PROVE ArgsInv'
    BY <1>1, <1>10 DEF Upload
  <1>11. ASSUME NEW g, StartChain(g) PROVE ArgsInv'
    BY <1>2, <1>11 DEF StartChain
  <1>12. ASSUME NEW i, Edit(Without(doc, i)) PROVE ArgsInv'
    BY <1>2, <1>12 DEF Edit
  <1> QED
    BY <1>4, <1>5, <1>6, <1>7, <1>8, <1>9, <1>10, <1>11, <1>12, StepCases, Zenon

\* The stages of a plan are those it was made of; one that ran is no longer to come.
LEMMA PlanStep ==
  ASSUME DeliveryInv, [Next]_vars
  PROVE  PlanInv'
  <1>0. PlanInv
    BY DEF DeliveryInv
  <1>1. ASSUME NEW g \in Group, StartChain(g) PROVE PlanInv'
    <2> DEFINE P == {i \in DOMAIN Order : Wanted(Order[i]) /\ Order[i] \notin doneFile[g]}
    <2>1. /\ plan' = <<>> \/ plan' = At(Order, P)
          /\ ran' = {} /\ group' = g /\ UNCHANGED <<doneFile, args>>
      BY <1>1 DEF StartChain
    <2>2. /\ At(Order, P) \in Seq(Stage)
          /\ {At(Order, P)[k] : k \in DOMAIN At(Order, P)} = WantedStages \ doneFile[g]
      <3>1. PICK q : q = Order
        OBVIOUS
      <3>2. /\ q \in Seq(Stage) /\ DOMAIN q = 1 .. Len(q)
            /\ {q[i] : i \in DOMAIN q} = Stage
        BY <3>1, OrderIs
      <3>3. P \in SUBSET (1 .. Len(q))
        BY <3>1, <3>2
      <3>4. \A i : i \in P <=> i \in 1 .. Len(q) /\ Wanted(q[i]) /\ q[i] \notin doneFile[g]
        BY <3>1, <3>2
      <3> HIDE DEF P
      <3>5. /\ At(q, P) \in Seq(Stage)
            /\ \A k \in 1 .. Len(At(q, P)) : InOrder(P)[k] \in P /\ At(q, P)[k] = q[InOrder(P)[k]]
            /\ \A i \in P : \E k \in 1 .. Len(At(q, P)) : InOrder(P)[k] = i
        BY <3>2, <3>3, AtSeq
      <3>6. DOMAIN At(q, P) = 1 .. Len(At(q, P))
        BY <3>5
      <3>7. ASSUME NEW k \in DOMAIN At(q, P)
            PROVE  At(q, P)[k] \in WantedStages \ doneFile[g]
        BY <3>2, <3>4, <3>5, <3>6 DEF WantedStages
      <3>8. ASSUME NEW s \in WantedStages \ doneFile[g]
            PROVE  \E k \in DOMAIN At(q, P) : At(q, P)[k] = s
        <4>1. PICK i \in 1 .. Len(q) : q[i] = s
          BY <3>2 DEF WantedStages
        <4>2. i \in P
          BY <3>4, <4>1 DEF WantedStages
        <4> QED
          BY <3>5, <3>6, <4>1, <4>2
      <3>9. {At(q, P)[k] : k \in DOMAIN At(q, P)} = WantedStages \ doneFile[g]
        BY <3>7, <3>8
      <3> QED
        BY <3>1, <3>5, <3>9
    <2>3. WantedStages' = WantedStages
      BY <2>1 DEF WantedStages, Wanted
    <2> HIDE DEF P
    <2>4. CASE plan' = <<>>
      <3>1. ToCome' = {} /\ plan' \in Seq(Stage)
        BY <2>4 DEF ToCome
      <3> QED
        BY <2>1, <3>1 DEF PlanInv
    <2>5. CASE plan' = At(Order, P)
      <3>1. ToCome' = WantedStages \ doneFile[g] /\ plan' \in Seq(Stage)
        BY <2>2, <2>5 DEF ToCome
      <3>2. ToCome' \cup ran' \subseteq WantedStages'
        BY <2>1, <2>3, <3>1
      <3>3. WantedStages' \subseteq ToCome' \cup ran' \cup doneFile'[group']
        BY <2>1, <2>3, <3>1
      <3> QED
        BY <3>1, <3>2, <3>3 DEF PlanInv
    <2> QED
      BY <2>1, <2>4, <2>5
  <1>2. CASE StageRuns
    <2>1. /\ phase = "chain" /\ plan # <<>> /\ phase' = "chain"
          /\ ran' = ran \cup {Head(plan)} /\ plan' = Tail(plan)
          /\ UNCHANGED <<doneFile, args, group>>
      BY <1>2 DEF StageRuns
    <2>2. /\ plan \in Seq(Stage) /\ ToCome \cup ran \subseteq WantedStages
          /\ ToCome \cup ran # {} => WantedStages \subseteq ToCome \cup ran \cup doneFile[group]
      BY <1>0, <2>1 DEF PlanInv
    <2>3. WantedStages' = WantedStages
      BY <2>1 DEF WantedStages, Wanted
    <2>4. ToCome = ToCome' \cup {Head(plan)} /\ plan' \in Seq(Stage)
      <3>1. PICK p : p = plan
        OBVIOUS
      <3>2. p \in Seq(Stage) /\ p # <<>>
        BY <2>1, <2>2, <3>1
      <3>3. {p[i] : i \in DOMAIN p} = {Tail(p)[i] : i \in DOMAIN Tail(p)} \cup {Head(p)}
        <4>1. /\ Len(p) \in Nat /\ Len(p) >= 1 /\ DOMAIN p = 1 .. Len(p) /\ Head(p) = p[1]
              /\ DOMAIN Tail(p) = 1 .. Len(p) - 1
              /\ \A i \in 1 .. Len(p) - 1 : Tail(p)[i] = p[i + 1]
          BY <3>2
        <4>2. ASSUME NEW i \in DOMAIN p
              PROVE  p[i] = Head(p) \/ \E j \in DOMAIN Tail(p) : Tail(p)[j] = p[i]
          <5>1. PICK n : n = Len(p)
            OBVIOUS
          <5>2. n \in Nat /\ i \in 1 .. n
            BY <4>1, <5>1
          <5>3. i = 1 \/ \E j \in 1 .. n - 1 : i = j + 1
            BY <5>2
          <5> QED
            BY <4>1, <5>1, <5>3
        <4>3. ASSUME NEW i \in DOMAIN Tail(p) PROVE \E j \in DOMAIN p : p[j] = Tail(p)[i]
          <5>1. PICK n : n = Len(p)
            OBVIOUS
          <5>2. n \in Nat /\ i \in 1 .. n - 1 /\ Tail(p)[i] = p[i + 1]
            BY <4>1, <4>3, <5>1
          <5>3. i + 1 \in 1 .. n
            BY <5>2
          <5> QED
            BY <4>1, <5>1, <5>2, <5>3
        <4>4. 1 \in DOMAIN p /\ Head(p) = p[1]
          BY <4>1
        <4>5. ASSUME NEW x \in {p[i] : i \in DOMAIN p}
              PROVE  x = Head(p) \/ \E j \in DOMAIN Tail(p) : x = Tail(p)[j]
          BY <4>2
        <4>6. ASSUME NEW x, x = Head(p) \/ \E j \in DOMAIN Tail(p) : x = Tail(p)[j]
              PROVE  \E i \in DOMAIN p : x = p[i]
          BY <4>3, <4>4, <4>6
        <4> QED
          BY <4>5, <4>6, Zenon
      <3>4. Tail(p) \in Seq(Stage)
        BY <3>2
      <3>5. ToCome = {p[i] : i \in DOMAIN p}
        BY <3>1 DEF ToCome
      <3>6. plan' = Tail(p) /\ Head(plan) = Head(p)
        BY <2>1, <3>1
      <3>7. ToCome' = {Tail(p)[i] : i \in DOMAIN Tail(p)}
        BY <3>6, Zenon DEF ToCome
      <3> QED
        BY <3>3, <3>4, <3>5, <3>6, <3>7, Zenon
    <2>5. ToCome' \cup ran' = ToCome \cup ran
      BY <2>1, <2>4
    <2> QED
      BY <2>1, <2>2, <2>3, <2>4, <2>5 DEF PlanInv
  <1>3. phase' # "chain" => PlanInv'
    BY DEF PlanInv
  <1> USE DEF Fail, BeginPass
  <1>4. CASE Precheck \/ ChainFails \/ PlanEmpty \/ NotJoined
    BY <1>3, <1>4 DEF Precheck, ChainFails, PlanEmpty, NotJoined
  <1>5. CASE ChainEnds \/ EndChores \/ Resume
    BY <1>3, <1>5 DEF ChainEnds, EndChores, Resume
  <1>6. CASE UNCHANGED vars
    BY <1>0, <1>6 DEF PlanInv, ToCome, WantedStages, Wanted
  <1>7. ASSUME NEW key, NEW value, Choose(key, value) PROVE PlanInv'
    BY <1>3, <1>7 DEF Choose
  <1>8. ASSUME NEW r, NEW entry, Upload(r, entry) PROVE PlanInv'
    BY <1>3, <1>8 DEF Upload
  <1>9. ASSUME NEW i, Edit(Without(doc, i)) PROVE PlanInv'
    BY <1>3, <1>9 DEF Edit
  <1> QED
    BY <1>1, <1>2, <1>4, <1>5, <1>6, <1>7, <1>8, <1>9, StepCases, Zenon

\* What a step of the chain does on the platform.
LEMMA StageIs ==
  ASSUME DeliveryInv, StageRuns
  PROVE  /\ phase = "chain" /\ phase' = "chain" /\ Head(plan) \in Stage /\ Wanted(Head(plan))
         /\ FileHas(parse(file), source, Members(group))
         /\ \A s \in Slug :
              \/ s \in RowsOf(parse(file)) /\ Made(got'[s], Head(plan), s, parse(file))
              \/ s \notin RowsOf(parse(file)) /\ got'[s] = got[s]
  <1>1. phase = "chain" /\ plan # <<>> /\ phase' = phase
    BY DEF StageRuns
  <1>2. Head(plan) \in Stage /\ Wanted(Head(plan))
    <2>1. plan \in Seq(Stage) /\ \A i \in DOMAIN plan : Wanted(plan[i])
      BY <1>1 DEF DeliveryInv, PlanInv, ToCome, WantedStages
    <2>2. PICK p : p = plan
      OBVIOUS
    <2>3. p \in Seq(Stage) /\ p # <<>>
      BY <1>1, <2>1, <2>2
    <2>4. Head(p) \in Stage /\ Head(p) = p[1] /\ 1 \in DOMAIN p
      BY <2>3
    <2> QED
      BY <2>1, <2>2, <2>4
  <1>3. FileHas(parse(file), source, Members(group))
    BY <1>1, FileOfGroup DEF DeliveryInv
  <1>4. PICK c : c = parse(file)
    OBVIOUS
  <1>5. ASSUME NEW s \in Slug
        PROVE  \/ s \in RowsOf(c) /\ Made(got'[s], Head(plan), s, c)
               \/ s \notin RowsOf(c) /\ got'[s] = got[s]
    <2>1. got'[s] = IF s \in RowsOf(c) THEN Effect(Head(plan), s, c) ELSE got[s]
      BY <1>4, <1>5 DEF StageRuns
    <2>2. IsEntry(got[s])
      BY <1>5 DEF DeliveryInv, ShapeInv
    <2>3. Made(Effect(Head(plan), s, c), Head(plan), s, c)
      BY <1>2, <2>2, EffectIs
    <2>4. CASE s \in RowsOf(c)
      <3>1. got'[s] = Effect(Head(plan), s, c)
        BY <2>1, <2>4
      <3> QED
        BY <2>3, <2>4, <3>1, Zenon
    <2>5. CASE s \notin RowsOf(c)
      BY <2>1, <2>5
    <2> QED
      BY <2>4, <2>5
  <1> QED
    BY <1>1, <1>2, <1>3, <1>4, <1>5, Zenon

LEMMA RestIsKept ==
  ASSUME [Next]_vars
  PROVE  manifest' = manifest /\ (edited => edited')
  <1> USE DEF Fail, BeginPass
  <1>1. CASE Precheck \/ StageRuns
    BY <1>1 DEF Precheck, StageRuns
  <1>2. CASE ChainFails \/ PlanEmpty \/ NotJoined \/ ChainEnds
    BY <1>2 DEF ChainFails, PlanEmpty, NotJoined, ChainEnds
  <1>3. CASE EndChores \/ Resume \/ UNCHANGED vars
    BY <1>3 DEF EndChores, Resume
  <1>4. ASSUME NEW key, NEW value, Choose(key, value) PROVE manifest' = manifest /\ edited' = edited
    BY <1>4 DEF Choose
  <1>5. ASSUME NEW r, NEW entry, Upload(r, entry) PROVE manifest' = manifest /\ edited' = edited
    BY <1>5 DEF Upload
  <1>6. ASSUME NEW g, StartChain(g) PROVE manifest' = manifest /\ edited' = edited
    BY <1>6 DEF StartChain
  <1>7. ASSUME NEW i, Edit(Without(doc, i)) PROVE manifest' = manifest /\ edited'
    BY <1>7 DEF Edit
  <1> QED
    BY <1>1, <1>2, <1>3, <1>4, <1>5, <1>6, <1>7, StepCases, Zenon

\* A choice made before stage 7 is what was promised then.
LEMMA PromiseIsKept ==
  ASSUME DeliveryInv, [Next]_vars, AtStage7
  PROVE  /\ late \subseteq late'
         /\ \A key \in Key \ late' : Promised(key)' = Promised(key)
  <1>0. choice = [k \in Key |-> choice[k]] /\ phase # "accepted"
    BY DEF DeliveryInv, ShapeInv, AtStage7
  <1>1. ASSUME NEW key \in Key, NEW value, Choose(key, value)
        PROVE  /\ late \subseteq late'
               /\ \A k \in Key \ late' : Promised(k)' = Promised(k)
    <2>1. late' = late \cup {key} /\ \A k \in Key \ {key} : choice'[k] = choice[k]
      BY <1>0, <1>1 DEF Choose
    <2> QED
      BY <2>1 DEF Promised, Configured
  <1>2. UNCHANGED <<choice, late>> => /\ late \subseteq late'
                                      /\ \A k \in Key \ late' : Promised(k)' = Promised(k)
    BY DEF Promised, Configured
  <1> QED
    BY <1>1, <1>2, ChoiceIsKept, Zenon

LEMMA PromisedArgs ==
  ASSUME DeliveryInv, AtStage7, NEW key \in Key, key \notin late
  PROVE  args[key] = Promised(key)
  BY DEF DeliveryInv, ArgsInv

\* What NoMoreInv says of one problem, of its entry e.
Bounded(s, e) ==
  /\ earlier[s].tags \subseteq e.tags
  /\ ~edited /\ s \in manifest.tagged => e.tags \subseteq TagsDue(s)
  /\ earlier[s].translated \subseteq e.translated
  /\ "targets" \notin late => e.translated \subseteq TranslationsDue(s)
  /\ "divisions" \notin late => e.divisions \in {earlier[s].divisions, DivisionsDue(s)}
  /\ "list_url" \notin late /\ Promised("list_url") = {} => e.listed = earlier[s].listed

LEMMA NoMoreStep ==
  ASSUME DeliveryInv, [Next]_vars
  PROVE  NoMoreInv'
  <1>0. NoMoreInv /\ BeforeInv /\ manifest' = manifest /\ (edited => edited')
    BY RestIsKept DEF DeliveryInv
  <1>k. "targets" \in Key /\ "divisions" \in Key /\ "list_url" \in Key
    BY DEF Key
  <1>1. CASE StageRuns
    <2>1. PICK k \in Stage : k = Head(plan) /\ Wanted(k)
      BY <1>1, StageIs
    <2>2. PICK c : c = parse(file)
      OBVIOUS
    <2>3. AtStage7 /\ phase = "chain" /\ FileHas(c, source, Members(group))
      BY <1>1, <2>2, StageIs DEF AtStage7
    <2>4. late' = late /\ choice' = choice /\ edited' = edited /\ earlier' = earlier
      BY <1>1 DEF StageRuns
    <2>5. \A key : Promised(key)' = Promised(key)
      BY <2>4 DEF Promised, Configured
    <2> SUFFICES ASSUME NEW s \in Slug
                 PROVE  Bounded(s, got'[s])
      BY <1>0, <2>4, <2>5, Zenon DEF NoMoreInv, Bounded, TranslationsDue, DivisionsDue, TagsDue
    <2>6. Bounded(s, got[s])
      BY <1>0, Zenon DEF NoMoreInv, Bounded
    <2>7. (s \in RowsOf(c) /\ Made(got'[s], k, s, c)) \/ got'[s] = got[s]
      BY <1>1, <2>1, <2>2, StageIs
    <2>8. CASE got'[s] = got[s]
      BY <2>6, <2>8, Zenon
    <2>9. CASE s \in RowsOf(c) /\ Made(got'[s], k, s, c)
      <3>0. earlier[s].tags \subseteq got'[s].tags
        <4>1. \/ got'[s].tags = got[s].tags \/ got'[s].tags = got[s].tags \cup Paired(c, s)
              \/ group = "fresh" /\ got'[s].tags = Paired(c, s)
          BY <2>9, Zenon DEF Made
        <4>2. earlier[s].tags \subseteq got[s].tags
          BY <2>6, Zenon DEF Bounded
        <4>3. ASSUME group = "fresh" PROVE earlier[s].tags = {}
          <5>1. s \in Members(group)
            BY <2>2, <2>3, <2>9, FileOfGroup DEF DeliveryInv
          <5> QED
            BY <4>3, <5>1 DEF Members, DeliveryInv, FreshInv
        <4> QED
          BY <4>1, <4>2, <4>3
      <3>1. ASSUME ~edited, s \in manifest.tagged PROVE got'[s].tags \subseteq TagsDue(s)
        <4>1. Paired(c, s) \subseteq {s}
          BY <2>3, <3>1, PairedIsOwn DEF DeliveryInv, SourceInv
        <4>2. got'[s].tags = got[s].tags \/ got'[s].tags = got[s].tags \cup Paired(c, s)
              \/ got'[s].tags = Paired(c, s)
          BY <2>9, Zenon DEF Made
        <4>3. got[s].tags \subseteq TagsDue(s)
          BY <2>6, <3>1, Zenon DEF Bounded
        <4> QED
          BY <4>1, <4>2, <4>3 DEF TagsDue
      <3>t. earlier[s].translated \subseteq got'[s].translated
        <4>1. got'[s].translated = got[s].translated
              \/ got'[s].translated = got[s].translated \cup args["targets"]
          BY <2>9, Zenon DEF Made
        <4>2. earlier[s].translated \subseteq got[s].translated
          BY <2>6, Zenon DEF Bounded
        <4> QED
          BY <4>1, <4>2
      <3>2. ASSUME "targets" \notin late PROVE got'[s].translated \subseteq TranslationsDue(s)
        <4>1. args["targets"] = Promised("targets")
          BY <1>k, <2>3, <3>2, PromisedArgs
        <4>2. got'[s].translated = got[s].translated
              \/ got'[s].translated = got[s].translated \cup args["targets"]
          BY <2>9, Zenon DEF Made
        <4>3. got[s].translated \subseteq TranslationsDue(s)
          BY <2>6, <3>2, Zenon DEF Bounded
        <4> QED
          BY <4>1, <4>2, <4>3 DEF TranslationsDue
      <3>3. ASSUME "divisions" \notin late
            PROVE  got'[s].divisions \in {earlier[s].divisions, DivisionsDue(s)}
        <4>1. args["divisions"] = Promised("divisions")
          BY <1>k, <2>3, <3>3, PromisedArgs
        <4>2. got'[s].divisions = got[s].divisions
              \/ (k = "division" /\ got'[s].divisions = args["divisions"])
          BY <2>9, Zenon DEF Made
        <4>3. got[s].divisions \in {earlier[s].divisions, DivisionsDue(s)}
          BY <2>6, <3>3, Zenon DEF Bounded
        <4>4. k = "division" => args["divisions"] # {}
          BY <2>1 DEF Wanted
        <4>5. k = "division" => DivisionsDue(s) = Promised("divisions")
          BY <4>1, <4>4 DEF DivisionsDue
        <4> QED
          BY <4>1, <4>2, <4>3, <4>5
      <3>4. ASSUME "list_url" \notin late, Promised("list_url") = {}
            PROVE  got'[s].listed = earlier[s].listed
        <4>1. args["list_url"] = {}
          BY <1>k, <2>3, <3>4, PromisedArgs
        <4>2. k # "list-add"
          BY <2>1, <4>1 DEF Wanted
        <4>3. got'[s].listed = got[s].listed
          BY <2>9, <4>2, Zenon DEF Made
        <4> QED
          BY <2>6, <3>4, <4>3, Zenon DEF Bounded
      <3> QED
        BY <3>0, <3>1, <3>t, <3>2, <3>3, <3>4, Zenon DEF Bounded
    <2> QED
      BY <2>7, <2>8, <2>9
  <1>2. ASSUME got' = got, earlier' = earlier, late \subseteq late',
               \A key \in Key \ late' : Promised(key)' = Promised(key)
        PROVE  NoMoreInv'
    <2> SUFFICES ASSUME NEW s \in Slug PROVE Bounded(s, got[s])'
      BY Zenon DEF NoMoreInv, Bounded
    <2>0. Bounded(s, got[s])
      BY <1>0, Zenon DEF NoMoreInv, Bounded
    <2>1. \A key \in Key : key \notin late' => key \notin late /\ Promised(key)' = Promised(key)
      BY <1>2
    <2>2. TagsDue(s)' = TagsDue(s)
      BY <1>2 DEF TagsDue
    <2>3. "targets" \notin late' => "targets" \notin late /\ TranslationsDue(s)' = TranslationsDue(s)
      BY <1>2, <1>k, <2>1, Zenon DEF TranslationsDue
    <2>4. "divisions" \notin late' => "divisions" \notin late /\ DivisionsDue(s)' = DivisionsDue(s)
      BY <1>2, <1>k, <2>1, Zenon DEF DivisionsDue
    <2>5. "list_url" \notin late' =>
            "list_url" \notin late /\ Promised("list_url")' = Promised("list_url")
      BY <1>k, <2>1
    <2> QED
      BY <1>0, <1>2, <2>0, <2>2, <2>3, <2>4, <2>5, Zenon DEF Bounded
  <1>3. CASE ~StageRuns /\ AtStage7
    BY <1>2, <1>3, GotIsKept, EarlierIsKept, PromiseIsKept
  <1>4. CASE ~StageRuns /\ ~AtStage7
    <2>1. got' = earlier'
      <3>1. CASE UploadHappens
        BY <3>1 DEF UploadHappens, Upload
      <3>2. CASE ~UploadHappens
        BY <1>0, <1>4, <3>2, GotIsKept, EarlierIsKept DEF BeforeInv
      <3> QED
        BY <3>1, <3>2
    <2>2. \A x, y : x \subseteq x /\ x \subseteq y \cup x /\ x \in {x, y}
      OBVIOUS
    <2>3. \A s : earlier[s].tags \subseteq TagsDue(s) /\ earlier[s].translated \subseteq TranslationsDue(s)
      BY <2>2, Zenon DEF TagsDue, TranslationsDue
    <2> QED
      BY <2>1, <2>2, <2>3, Zenon DEF NoMoreInv, TagsDue, TranslationsDue
  <1> QED
    BY <1>1, <1>3, <1>4

\* What a problem has been given by a stage no later stage takes away, and the stage that
\* runs gives it to all that is pending in the group.
LEMMA StageGives ==
  ASSUME DeliveryInv, StageRuns, ~edited, NEW h, h = Head(plan)
  PROVE  /\ \A k, s : s \in Slug /\ Has(k, s) => Has(k, s)'
         /\ \A s \in Members(group) : s \in Slug /\ Has(h, s)'
  <1>k. "targets" \in Key /\ "divisions" \in Key
    BY DEF Key
  <1>1. h \in Stage /\ h = Head(plan) /\ Wanted(h)
    BY StageIs
  <1>2. PICK c : c = parse(file)
    OBVIOUS
  <1>3. AtStage7 /\ phase = "chain" /\ FileHas(c, source, Members(group))
    BY <1>2, StageIs DEF AtStage7
  <1>4. UNCHANGED <<late, choice, source, manifest>> /\ earlier' = earlier
    BY DEF StageRuns
  <1>5. \A key : Promised(key)' = Promised(key)
    BY <1>4 DEF Promised, Configured
  <1>d. \A s : /\ TagsDue(s)' = TagsDue(s) /\ TranslationsDue(s)' = TranslationsDue(s)
               /\ DivisionsDue(s)' = DivisionsDue(s)
    BY <1>4, <1>5, Zenon DEF TagsDue, TranslationsDue, DivisionsDue
  <1>6. RowsOf(c) = Members(group) /\ Sound(source) /\ Members(group) \subseteq Slug
        /\ Proper(source) /\ NoMoreInv
    BY <1>2, <1>3, FileOfGroup DEF DeliveryInv, SourceInv
  <1>7. \A s \in Slug : \/ s \in RowsOf(c) /\ Made(got'[s], h, s, c)
                        \/ s \notin RowsOf(c) /\ got'[s] = got[s]
    BY <1>1, <1>2, StageIs
  <1>8. \A s \in manifest.tagged : Paired(c, s) \subseteq {s}
    BY <1>3, <1>6, PairedIsOwn
  <1>9. "targets" \notin late => args["targets"] = Promised("targets")
    BY <1>k, <1>3, PromisedArgs
  <1>10. "divisions" \notin late => args["divisions"] = Promised("divisions")
    BY <1>k, <1>3, PromisedArgs
  <1>b. \A s \in Slug : Bounded(s, got[s])
    BY <1>6, Zenon DEF NoMoreInv, Bounded
  <1>f. ASSUME NEW s \in RowsOf(c), group = "fresh" PROVE earlier[s].tags = {}
    BY <1>6, <1>f DEF Members, DeliveryInv, FreshInv
  <1>11. ASSUME NEW k, NEW s \in Slug, Has(k, s) PROVE Has(k, s)'
    <2>1. CASE got'[s] = got[s]
      BY <1>4, <1>d, <1>11, <2>1, Zenon DEF Has
    <2>2. CASE s \in RowsOf(c) /\ Made(got'[s], h, s, c)
      <3>1. ASSUME k = "translate", "targets" \notin late
            PROVE  got'[s].translated = TranslationsDue(s)
        <4>1. got[s].translated = TranslationsDue(s)
          BY <1>11, <3>1, Zenon DEF Has
        <4>2. got'[s].translated = got[s].translated
              \/ got'[s].translated = got[s].translated \cup args["targets"]
          BY <2>2, Zenon DEF Made
        <4> QED
          BY <1>9, <3>1, <4>1, <4>2 DEF TranslationsDue
      <3>2. ASSUME k = "metadata" PROVE got'[s].level
        <4>1. got[s].level
          BY <1>11, <3>2, Zenon DEF Has
        <4> QED
          BY <2>2, <4>1, Zenon DEF Made
      <3>3. ASSUME k = "metadata", source.tags # <<>>, s \in manifest.tagged
            PROVE  got'[s].tags = TagsDue(s)
        <4>1. got[s].tags = TagsDue(s)
          BY <1>11, <3>3, Zenon DEF Has
        <4>2. \/ got'[s].tags = got[s].tags
              \/ got'[s].tags = got[s].tags \cup Paired(c, s)
              \/ group = "fresh" /\ Paired(c, s) # {} /\ got'[s].tags = Paired(c, s)
          BY <2>2, Zenon DEF Made
        <4>3. Paired(c, s) \subseteq {s}
          BY <1>8, <3>3
        <4>4. group = "fresh" => earlier[s].tags = {}
          BY <1>f, <2>2
        <4> QED
          BY <4>1, <4>2, <4>3, <4>4 DEF TagsDue
      <3>4. ASSUME k = "division", "divisions" \notin late
            PROVE  got'[s].divisions = DivisionsDue(s)
        <4>1. got[s].divisions = DivisionsDue(s)
          BY <1>11, <3>4, Zenon DEF Has
        <4>2. got'[s].divisions = got[s].divisions
              \/ (h = "division" /\ got'[s].divisions = args["divisions"])
          BY <2>2, Zenon DEF Made
        <4>3. h = "division" => args["divisions"] = DivisionsDue(s)
          BY <1>1, <1>10, <3>4 DEF Wanted, DivisionsDue
        <4> QED
          BY <4>1, <4>2, <4>3, Zenon
      <3> QED
        BY <1>4, <1>d, <3>1, <3>2, <3>3, <3>4, Zenon DEF Has
    <2> QED
      BY <1>7, <2>1, <2>2, Zenon
  <1>12. ASSUME NEW s \in Members(group) PROVE s \in Slug /\ Has(h, s)'
    <2>1. s \in Slug /\ s \in RowsOf(c)
      BY <1>6
    <2>2. Made(got'[s], h, s, c)
      BY <1>7, <2>1, Zenon
    <2>3. ASSUME h = "translate", "targets" \notin late
          PROVE  got'[s].translated = TranslationsDue(s)
      <3>1. /\ got[s].translated \subseteq TranslationsDue(s)
            /\ earlier[s].translated \subseteq got[s].translated
        BY <1>b, <2>1, <2>3, Zenon DEF Bounded
      <3>2. got'[s].translated = got[s].translated \cup args["targets"]
        BY <2>2, <2>3, Zenon DEF Made
      <3> QED
        BY <1>9, <2>3, <3>1, <3>2 DEF TranslationsDue
    <2>4. ASSUME h = "metadata" PROVE got'[s].level
      BY <2>2, <2>4, Zenon DEF Made
    <2>5. ASSUME h = "metadata", source.tags # <<>>, s \in manifest.tagged
          PROVE  got'[s].tags = TagsDue(s)
      <3>1. got[s].tags \subseteq TagsDue(s) /\ earlier[s].tags \subseteq got[s].tags
        BY <1>b, <2>1, <2>5, ~edited, Zenon DEF Bounded
      <3>2. tags_will_apply(source)
        BY <1>6, <2>5, Zenon DEF Sound, tags_will_apply
      <3>3. tags_will_apply(c)
        BY <1>3, <2>1, <3>2 DEF FileHas
      <3>4. Paired(c, s) # {} /\ Paired(c, s) \subseteq {s}
        BY <1>3, <1>8, <2>1, <2>5, <3>3 DEF FileHas
      <3>5. \/ got'[s].tags = got[s].tags \cup Paired(c, s)
            \/ group = "fresh" /\ got'[s].tags = Paired(c, s)
        BY <2>2, <2>5, Zenon DEF Made
      <3>6. group = "fresh" => earlier[s].tags = {}
        BY <1>f, <2>1
      <3> QED
        BY <3>1, <3>4, <3>5, <3>6 DEF TagsDue
    <2>6. ASSUME h = "division", "divisions" \notin late
          PROVE  got'[s].divisions = DivisionsDue(s)
      <3>1. got'[s].divisions = args["divisions"]
        BY <2>2, <2>6, Zenon DEF Made
      <3>2. args["divisions"] = DivisionsDue(s)
        BY <1>1, <1>10, <2>6 DEF Wanted, DivisionsDue
      <3> QED
        BY <3>1, <3>2, Zenon
    <2> QED
      BY <1>4, <1>d, <2>1, <2>3, <2>4, <2>5, <2>6, Zenon DEF Has
  <1> QED
    BY <1>1, <1>11, <1>12, Zenon

\* A problem whose group's chain ended has everything.
LEMMA EndedMeansAll ==
  ASSUME DeliveryInv, ChainEnds, ~edited, NEW s \in Members(group), NEW k \in Stage
  PROVE  Has(k, s)
  <1>k. "targets" \in Key /\ "divisions" \in Key
    BY DEF Key
  <1>1. phase = "chain" /\ plan = <<>> /\ ran # {} /\ AtStage7
    BY DEF ChainEnds, AtStage7
  <1>2. s \in Slug /\ group \in Group /\ NoMoreInv /\ AppliedInv
    BY <1>1, FileOfGroup DEF DeliveryInv, FileInv
  <1>3. WantedStages \subseteq ran \cup doneFile[group]
    <2>1. ToCome = {}
      BY <1>1 DEF ToCome
    <2> QED
      BY <1>1, <2>1 DEF DeliveryInv, PlanInv
  <1>4. CASE k \in ran \cup doneFile[group]
    BY <1>1, <1>2, <1>4 DEF AppliedInv
  <1>5. CASE ~Wanted(k)
    <2>1. ASSUME k = "translate", "targets" \notin late
          PROVE  got[s].translated = TranslationsDue(s)
      <3>1. args["targets"] = {} /\ args["targets"] = Promised("targets")
        BY <1>k, <1>1, <1>5, <2>1, PromisedArgs DEF Wanted
      <3>2. got[s].translated \subseteq TranslationsDue(s)
            /\ earlier[s].translated \subseteq got[s].translated
        BY <1>2, <2>1, Zenon DEF NoMoreInv
      <3> QED
        BY <3>1, <3>2 DEF TranslationsDue
    <2>2. ASSUME k = "division", "divisions" \notin late
          PROVE  got[s].divisions = DivisionsDue(s)
      <3>1. args["divisions"] = {} /\ args["divisions"] = Promised("divisions")
        BY <1>k, <1>1, <1>5, <2>2, PromisedArgs DEF Wanted
      <3>2. got[s].divisions \in {earlier[s].divisions, DivisionsDue(s)}
        BY <1>2, <2>2, Zenon DEF NoMoreInv
      <3> QED
        BY <3>1, <3>2 DEF DivisionsDue
    <2>3. k # "metadata"
      BY <1>5 DEF Wanted
    <2> QED
      BY <2>1, <2>2, <2>3, Zenon DEF Has
  <1> QED
    BY <1>3, <1>4, <1>5 DEF WantedStages

LEMMA AppliedStep ==
  ASSUME DeliveryInv, [Next]_vars
  PROVE  AppliedInv'
  <1>0. AppliedInv /\ TypeOK /\ manifest' = manifest /\ (edited => edited')
    BY RestIsKept DEF DeliveryInv
  <1>m. \A g : Members(g) \subseteq Slug
    BY <1>0 DEF TypeOK, Members
  <1>1. CASE StageRuns
    <2> SUFFICES ASSUME ~edited' PROVE AppliedInv'
      BY Zenon DEF AppliedInv
    <2>0. PICK h : h = Head(plan)
      OBVIOUS
    <2>1. /\ UNCHANGED <<doneFile, chored, rows, group, edited>>
          /\ ran' = ran \cup {h} /\ phase = "chain"
      BY <1>1, <2>0 DEF StageRuns
    <2>2. \A g : Members(g)' = Members(g)
      BY <2>1 DEF Members
    <2>3. /\ \A k, s : s \in Slug /\ Has(k, s) => Has(k, s)'
          /\ \A s \in Members(group) : s \in Slug /\ Has(h, s)'
      BY <1>0, <1>1, <2>0, StageGives
    <2>4. /\ \A g \in Group : \A k \in doneFile[g], s \in Members(g) : Has(k, s)
          /\ \A k \in ran, s \in Members(group) : Has(k, s)
          /\ \A s \in chored, k \in Stage : Has(k, s)
      BY <1>0, <2>1 DEF AppliedInv, AtStage7
    <2>5. chored \subseteq Slug
      BY <1>0 DEF TypeOK
    <2>6. \A g \in Group : \A k \in doneFile'[g], s \in Members(g)' : Has(k, s)'
      BY <1>m, <2>1, <2>2, <2>3, <2>4
    <2>7. \A k \in ran', s \in Members(group)' : Has(k, s)'
      <3>1. Members(group)' = Members(group)
        BY <2>1, <2>2 DEF Members
      <3>2. ASSUME NEW k \in ran', NEW s \in Members(group) PROVE Has(k, s)'
        <4>1. k \in ran \/ k = h
          BY <2>1
        <4> QED
          BY <1>m, <2>3, <2>4, <3>2, <4>1
      <3> QED
        BY <3>1, <3>2
    <2>8. \A s \in chored', k \in Stage : Has(k, s)'
      BY <2>1, <2>3, <2>4, <2>5
    <2> QED
      BY <2>6, <2>7, <2>8, Zenon DEF AppliedInv
  <1>2. ~AtStage7' => AppliedInv'
    BY Zenon DEF AppliedInv
  <1>3. ASSUME AtStage7, got' = got, earlier' = earlier, ~edited' => source' = source,
               late \subseteq late', \A key \in Key \ late' : Promised(key)' = Promised(key)
        PROVE  ~edited' => \A k, s : Has(k, s) => Has(k, s)'
    <2> SUFFICES ASSUME ~edited', NEW k, NEW s, Has(k, s) PROVE Has(k, s)'
      BY Zenon
    <2>1. source' = source /\ "targets" \in Key /\ "divisions" \in Key
      BY <1>3 DEF Key
    <2>2. \A key \in Key : key \notin late' => key \notin late /\ Promised(key)' = Promised(key)
      BY <1>3
    <2>3. TagsDue(s)' = TagsDue(s)
      BY <1>3 DEF TagsDue
    <2>4. "targets" \notin late' => "targets" \notin late /\ TranslationsDue(s)' = TranslationsDue(s)
      BY <1>3, <2>1, <2>2, Zenon DEF TranslationsDue
    <2>5. "divisions" \notin late' => "divisions" \notin late /\ DivisionsDue(s)' = DivisionsDue(s)
      BY <1>3, <2>1, <2>2, Zenon DEF DivisionsDue
    <2> QED
      BY <1>0, <1>3, <2>1, <2>3, <2>4, <2>5, Zenon DEF Has
  <1>4. ASSUME AtStage7, ~edited' => \A k, s : Has(k, s) => Has(k, s)',
               UNCHANGED <<chored, rows, doneFile, group>>,
               phase' = "chain" => phase = "chain" /\ ran' = ran
        PROVE  AppliedInv'
    <2>1. \A g : Members(g)' = Members(g)
      BY <1>4 DEF Members
    <2>2. Members(group)' = Members(group)
      BY <1>4 DEF Members
    <2> SUFFICES ASSUME ~edited' PROVE AppliedInv'
      BY Zenon DEF AppliedInv
    <2>3. /\ \A g \in Group : \A k \in doneFile[g], s \in Members(g) : Has(k, s)
          /\ phase = "chain" => \A k \in ran, s \in Members(group) : Has(k, s)
          /\ \A s \in chored, k \in Stage : Has(k, s)
      BY <1>0, <1>4, Zenon DEF AppliedInv
    <2>4. \A k, s : Has(k, s) => Has(k, s)'
      BY <1>4
    <2>5. doneFile' = doneFile /\ chored' = chored
      BY <1>4
    <2>6. \A g \in Group : \A k \in doneFile'[g], s \in Members(g)' : Has(k, s)'
      BY <2>1, <2>3, <2>4, <2>5
    <2>7. phase' = "chain" => \A k \in ran', s \in Members(group)' : Has(k, s)'
      BY <1>4, <2>2, <2>3, <2>4
    <2>8. \A s \in chored', k \in Stage : Has(k, s)'
      BY <2>3, <2>4, <2>5
    <2> QED
      BY <2>6, <2>7, <2>8, Zenon DEF AppliedInv
  <1>5. ASSUME ~StageRuns, AtStage7, ~edited' => source' = source
        PROVE  ~edited' => \A k, s : Has(k, s) => Has(k, s)'
    <2>1. got' = got /\ earlier' = earlier
      BY <1>5, GotIsKept, EarlierIsKept
    <2>2. late \subseteq late' /\ \A key \in Key \ late' : Promised(key)' = Promised(key)
      BY <1>5, PromiseIsKept
    <2> QED
      BY <1>3, <1>5, <2>1, <2>2
  <1>6. CASE ChainFails /\ ~StageRuns
    <2>1. /\ phase = "chain" /\ phase' = "failed" /\ UNCHANGED <<chored, rows, group, source, edited>>
          /\ doneFile' = [doneFile EXCEPT ![group] = @ \cup ran]
      BY <1>6 DEF ChainFails, Fail
    <2> SUFFICES ASSUME ~edited' PROVE AppliedInv'
      BY Zenon DEF AppliedInv
    <2>2. \A k, s : Has(k, s) => Has(k, s)'
      BY <1>5, <1>6, <2>1 DEF AtStage7
    <2>3. /\ \A g \in Group : \A k \in doneFile[g], s \in Members(g) : Has(k, s)
          /\ \A k \in ran, s \in Members(group) : Has(k, s)
          /\ \A s \in chored, k \in Stage : Has(k, s)
      BY <1>0, <2>1 DEF AppliedInv, AtStage7
    <2>4. \A g : Members(g)' = Members(g)
      BY <2>1 DEF Members
    <2>5. ASSUME NEW g \in Group, NEW k \in doneFile'[g], NEW s \in Members(g)
          PROVE  Has(k, s)
      <3>1. k \in doneFile[g] \/ (g = group /\ k \in ran)
        BY <1>0, <2>1, <2>5 DEF TypeOK
      <3> QED
        BY <2>3, <2>5, <3>1
    <2>6. \A g \in Group : \A k \in doneFile'[g], s \in Members(g)' : Has(k, s)'
      BY <2>2, <2>4, <2>5
    <2>7. \A s \in chored', k \in Stage : Has(k, s)'
      BY <2>1, <2>2, <2>3
    <2>8. phase' # "chain"
      BY <2>1
    <2> QED
      BY <2>6, <2>7, <2>8, Zenon DEF AppliedInv
  <1>7. CASE ChainEnds /\ ~StageRuns
    <2>1. /\ phase = "chain" /\ phase' = "chores" /\ UNCHANGED <<doneFile, rows, group, source, edited>>
          /\ chored' = chored \cup Members(group)
      BY <1>7 DEF ChainEnds
    <2> SUFFICES ASSUME ~edited' PROVE AppliedInv'
      BY Zenon DEF AppliedInv
    <2>2. \A k, s : Has(k, s) => Has(k, s)'
      BY <1>5, <1>7, <2>1 DEF AtStage7
    <2>3. /\ \A g \in Group : \A k \in doneFile[g], s \in Members(g) : Has(k, s)
          /\ \A s \in chored, k \in Stage : Has(k, s)
      BY <1>0, <2>1 DEF AppliedInv, AtStage7
    <2>4. \A g : Members(g)' \subseteq Members(g)
      BY <2>1 DEF Members
    <2>5. \A s \in Members(group), k \in Stage : Has(k, s)
      BY <1>7, <2>1, EndedMeansAll
    <2>6. \A g \in Group : \A k \in doneFile'[g], s \in Members(g)' : Has(k, s)'
      BY <2>1, <2>2, <2>3, <2>4
    <2>7. \A s \in chored', k \in Stage : Has(k, s)'
      BY <2>1, <2>2, <2>3, <2>5
    <2>8. phase' # "chain"
      BY <2>1
    <2> QED
      BY <2>6, <2>7, <2>8, Zenon DEF AppliedInv
  <1>8. ASSUME NEW g \in Group, StartChain(g), ~StageRuns PROVE AppliedInv'
    <2>1. /\ phase = "chores" /\ ran' = {} /\ UNCHANGED <<doneFile, chored, rows, source, edited>>
      BY <1>8 DEF StartChain
    <2> SUFFICES ASSUME ~edited' PROVE AppliedInv'
      BY Zenon DEF AppliedInv
    <2>2. \A k, s : Has(k, s) => Has(k, s)'
      BY <1>5, <1>8, <2>1 DEF AtStage7
    <2>3. /\ \A i \in Group : \A k \in doneFile[i], s \in Members(i) : Has(k, s)
          /\ \A s \in chored, k \in Stage : Has(k, s)
      BY <1>0, <2>1 DEF AppliedInv, AtStage7
    <2>4. \A i : Members(i)' = Members(i)
      BY <2>1 DEF Members
    <2>6. \A i \in Group : \A k \in doneFile'[i], s \in Members(i)' : Has(k, s)'
      BY <2>1, <2>2, <2>3, <2>4
    <2>7. \A s \in chored', k \in Stage : Has(k, s)'
      BY <2>1, <2>2, <2>3
    <2>8. \A k \in ran' : FALSE
      BY <2>1
    <2> QED
      BY <2>6, <2>7, <2>8, Zenon DEF AppliedInv
  <1>9. ASSUME NEW some \in (SUBSET Slug) \ {{}}, NEW r \in [some -> Group],
               NEW entry \in {Blank, WorkedOn}, Upload(r, entry)
        PROVE  AppliedInv'
    <2>1. /\ \A g \in Group : doneFile'[g] = {}
          /\ chored' = {} /\ phase' # "chain"
      BY <1>9 DEF Upload, BeginPass, DeliveryInv, BeforeInv, AtStage7
    <2> QED
      BY <2>1 DEF AppliedInv
  <1>10. CASE Precheck
    BY <1>2, <1>10 DEF Precheck, AtStage7
  <1>11. CASE (PlanEmpty \/ NotJoined \/ EndChores) /\ ~StageRuns
    <2>1. /\ AtStage7 /\ UNCHANGED <<chored, rows, doneFile, group, source>> /\ phase' # "chain"
      BY <1>11 DEF PlanEmpty, NotJoined, EndChores, Fail, AtStage7
    <2> QED
      BY <1>4, <1>5, <1>11, <2>1
  <1>12. CASE Resume /\ ~StageRuns
    <2>1. /\ AtStage7 /\ UNCHANGED <<chored, rows, doneFile, group, doc, edited>>
          /\ phase' # "chain" /\ source' = parse(doc)
      BY <1>12 DEF Resume, BeginPass, AtStage7
    <2>2. ~edited' => source' = source
      BY <2>1 DEF DeliveryInv, SourceInv
    <2> QED
      BY <1>4, <1>5, <1>12, <2>1, <2>2
  <1>13. CASE UNCHANGED vars
    <2>1. UNCHANGED <<chored, rows, doneFile, group, source, edited, phase, ran, got, late, choice>>
          /\ earlier' = earlier
      BY <1>13
    <2>2. CASE AtStage7
      <3>1. late \subseteq late' /\ \A key \in Key \ late' : Promised(key)' = Promised(key)
        BY <2>2, PromiseIsKept
      <3>2. ~edited' => \A k, s : Has(k, s) => Has(k, s)'
        BY <1>3, <2>1, <2>2, <3>1
      <3> QED
        BY <1>4, <2>1, <2>2, <3>2
    <2>3. CASE ~AtStage7
      BY <1>2, <2>1, <2>3 DEF AtStage7
    <2> QED
      BY <2>2, <2>3
  <1>14. ASSUME NEW key \in Key, NEW value, Choose(key, value), ~StageRuns PROVE AppliedInv'
    <2>1. UNCHANGED <<chored, rows, doneFile, group, source, phase>> /\ phase # "chain"
      BY <1>14 DEF Choose
    <2>2. CASE AtStage7
      BY <1>4, <1>5, <1>14, <2>1, <2>2
    <2>3. CASE ~AtStage7
      BY <1>2, <2>1, <2>3 DEF AtStage7
    <2> QED
      BY <2>2, <2>3
  <1>15. ASSUME NEW i \in DOMAIN doc, Edit(Without(doc, i)) PROVE AppliedInv'
    BY <1>15 DEF Edit, AppliedInv
  <1> QED
    BY <1>1, <1>6, <1>7, <1>8, <1>9, <1>10, <1>11, <1>12, <1>13, <1>14, <1>15, StepCases, Zenon

LEMMA ListedStep ==
  ASSUME DeliveryInv, [Next]_vars
  PROVE  ListedInv'
  <1>0. ListedInv /\ TypeOK
    BY DEF DeliveryInv
  <1>1. CASE StageRuns
    <2>1. PICK h : h = Head(plan)
      OBVIOUS
    <2>2. /\ phase = "chain" /\ ran' = ran \cup {h} /\ UNCHANGED <<chored, unsure, late, args>>
          /\ joined' \in IF h = "list-add" THEN SUBSET RowsOf(parse(file)) ELSE {joined}
      BY <1>1, <2>1 DEF StageRuns
    <2>3. RowsOf(parse(file)) \subseteq Slug /\ joined \subseteq Slug /\ chored \subseteq Slug
      BY <1>0, <2>2, FileOfGroup DEF DeliveryInv, TypeOK
    <2>4. \A s \in Slug : \/ s \in RowsOf(parse(file)) /\ Made(got'[s], h, s, parse(file))
                          \/ s \notin RowsOf(parse(file)) /\ got'[s] = got[s]
      BY <1>1, <2>1, StageIs
    <2>5. ASSUME NEW s \in Slug, got[s].listed PROVE got'[s].listed
      BY <2>4, <2>5, Zenon DEF Made
    <2>6. ASSUME "list-add" \in ran', NEW s \in joined' PROVE got'[s].listed
      <3>1. CASE h = "list-add"
        <4>1. s \in RowsOf(parse(file)) /\ s \in Slug
          BY <2>2, <2>3, <2>6, <3>1
        <4> QED
          BY <2>4, <2>6, <3>1, <4>1, Zenon DEF Made
      <3>2. CASE h # "list-add"
        <4>1. "list-add" \in ran /\ s \in joined /\ s \in Slug
          BY <2>2, <2>3, <2>6, <3>2
        <4>2. got[s].listed
          BY <1>0, <2>2, <4>1, Zenon DEF ListedInv
        <4> QED
          BY <2>5, <4>1, <4>2
      <3> QED
        BY <3>1, <3>2
    <2>7. ASSUME late' = {}, args'["list_url"] # {}, NEW s \in chored'
          PROVE  got'[s].listed \/ s \in unsure'
      <3>1. s \in chored /\ s \in Slug /\ (got[s].listed \/ s \in unsure)
        BY <1>0, <2>2, <2>3, <2>7 DEF ListedInv, AtStage7
      <3> QED
        BY <2>2, <2>5, <3>1
    <2> QED
      BY <2>6, <2>7, Zenon DEF ListedInv
  <1>2. ~AtStage7' => ListedInv'
    BY DEF ListedInv, AtStage7
  <1>3. ASSUME AtStage7, got' = got, UNCHANGED <<chored, unsure, late, ran, joined>>,
               phase' = "chain" => phase = "chain",
               late = {} => args'["list_url"] = args["list_url"]
        PROVE  ListedInv'
    <2>1. chored' = chored /\ unsure' = unsure /\ late' = late /\ ran' = ran /\ joined' = joined
      BY <1>3
    <2> QED
      BY <1>0, <1>3, <2>1, Zenon DEF ListedInv
  <1>4. CASE ChainEnds /\ ~StageRuns
    <2>1. /\ phase = "chain" /\ phase' = "chores" /\ UNCHANGED <<late, args>>
          /\ (args["list_url"] # {} /\ "list-add" \in ran) => Members(group) \subseteq joined
          /\ unsure' = unsure \cup Unverified /\ chored' = chored \cup Members(group)
      BY <1>4 DEF ChainEnds
    <2>2. got' = got
      BY <1>4, <2>1, GotIsKept DEF AtStage7
    <2>3. ASSUME late' = {}, args'["list_url"] # {}, NEW s \in chored'
          PROVE  got'[s].listed \/ s \in unsure'
      <3>1. late = {} /\ args["list_url"] # {}
        BY <2>1, <2>3
      <3>2. CASE s \in chored
        <4>1. got[s].listed \/ s \in unsure
          BY <1>0, <2>1, <3>1, <3>2 DEF ListedInv, AtStage7
        <4> QED
          BY <2>1, <2>2, <4>1
      <3>3. CASE s \in Members(group) /\ "list-add" \in ran
        <4>1. s \in joined
          BY <2>1, <3>1, <3>3
        <4>2. got[s].listed
          BY <1>0, <2>1, <3>3, <4>1, Zenon DEF ListedInv
        <4> QED
          BY <2>2, <4>2
      <3>4. CASE s \in Members(group) /\ "list-add" \notin ran
        <4>1. s \in Unverified
          BY <3>1, <3>4 DEF Unverified
        <4> QED
          BY <2>1, <4>1
      <3> QED
        BY <2>1, <2>3, <3>2, <3>3, <3>4
    <2>4. phase' # "chain"
      BY <2>1
    <2> QED
      BY <2>3, <2>4, Zenon DEF ListedInv
  <1>5. CASE (ChainFails \/ PlanEmpty \/ NotJoined \/ EndChores) /\ ~StageRuns
    <2>1. /\ AtStage7 /\ UNCHANGED <<chored, unsure, late, ran, joined, args>> /\ phase' # "chain"
      BY <1>5 DEF ChainFails, PlanEmpty, NotJoined, EndChores, Fail, AtStage7
    <2> QED
      BY <1>3, <1>5, <2>1, GotIsKept
  <1>6. CASE Resume /\ ~StageRuns
    <2>1. /\ AtStage7 /\ UNCHANGED <<chored, unsure, late, ran, joined, choice>> /\ phase' # "chain"
          /\ args' = [k \in Key |-> effective(k, choice[k])] /\ "list_url" \in Key
      BY <1>6 DEF Resume, BeginPass, AtStage7, Key
    <2>2. late = {} => args'["list_url"] = args["list_url"]
      <3>1. args'["list_url"] = Promised("list_url")
        BY <2>1 DEF effective, Promised
      <3>2. late = {} => args["list_url"] = Promised("list_url")
        BY <2>1, PromisedArgs
      <3> QED
        BY <3>1, <3>2
    <2> QED
      BY <1>3, <1>6, <2>1, <2>2, GotIsKept
  <1>7. CASE UNCHANGED vars /\ ~StageRuns
    <2>1. /\ UNCHANGED <<chored, unsure, late, ran, joined, args, phase>>
      BY <1>7
    <2>2. CASE AtStage7
      BY <1>3, <1>7, <2>1, <2>2, GotIsKept
    <2>3. CASE ~AtStage7
      BY <1>2, <2>1, <2>3 DEF AtStage7
    <2> QED
      BY <2>2, <2>3
  <1>8. CASE Precheck
    BY <1>2, <1>8 DEF Precheck, AtStage7
  <1>9. ASSUME NEW key \in Key, NEW value, Choose(key, value) PROVE ListedInv'
    <2>1. phase' = phase /\ phase \in {"accepted", "failed"}
          /\ (phase = "failed" => late' # {})
      BY <1>9 DEF Choose
    <2> QED
      BY <2>1 DEF ListedInv, AtStage7
  <1>10. ASSUME NEW r, NEW entry, Upload(r, entry) PROVE ListedInv'
    <2>1. chored' = {} /\ phase' # "chain"
      BY <1>10 DEF Upload, BeginPass, DeliveryInv, BeforeInv, AtStage7
    <2> QED
      BY <2>1 DEF ListedInv
  <1>11. ASSUME NEW g, StartChain(g), ~StageRuns PROVE ListedInv'
    <2>1. /\ AtStage7 /\ UNCHANGED <<chored, unsure, late, args>> /\ ran' = {}
      BY <1>11 DEF StartChain, AtStage7
    <2>2. got' = got
      BY <1>11, <2>1, GotIsKept
    <2>3. chored' = chored /\ unsure' = unsure /\ late' = late /\ args' = args /\ "list-add" \notin ran'
      BY <2>1
    <2> QED
      BY <1>0, <2>1, <2>2, <2>3, Zenon DEF ListedInv
  <1>12. ASSUME NEW i \in DOMAIN doc, Edit(Without(doc, i)), ~StageRuns PROVE ListedInv'
    <2>1. /\ UNCHANGED <<chored, unsure, late, ran, joined, args, phase>>
      BY <1>12 DEF Edit
    <2>2. CASE AtStage7
      BY <1>3, <1>12, <2>1, <2>2, GotIsKept
    <2>3. CASE ~AtStage7
      BY <1>2, <2>1, <2>3 DEF AtStage7
    <2> QED
      BY <2>2, <2>3
  <1> QED
    BY <1>1, <1>4, <1>5, <1>6, <1>7, <1>8, <1>9, <1>10, <1>11, <1>12, StepCases, Zenon

LEMMA AuditStep ==
  ASSUME DeliveryInv, [Next]_vars
  PROVE  AuditInv'
  <1>0. AuditInv
    BY DEF DeliveryInv
  <1>1. phase' # "audit" => AuditInv'
    BY DEF AuditInv
  <1> USE DEF Fail, BeginPass
  <1>2. CASE EndChores
    BY <1>2 DEF EndChores, AuditInv
  <1>3. CASE UNCHANGED vars
    BY <1>0, <1>3 DEF AuditInv
  <1>4. CASE Precheck \/ ChainFails \/ PlanEmpty \/ NotJoined
    BY <1>1, <1>4 DEF Precheck, ChainFails, PlanEmpty, NotJoined
  <1>5. CASE StageRuns \/ ChainEnds \/ Resume
    BY <1>1, <1>5 DEF StageRuns, ChainEnds, Resume
  <1>6. ASSUME NEW key, NEW value, Choose(key, value) PROVE AuditInv'
    BY <1>1, <1>6 DEF Choose
  <1>7. ASSUME NEW r, NEW entry, Upload(r, entry) PROVE AuditInv'
    BY <1>1, <1>7 DEF Upload
  <1>8. ASSUME NEW g, StartChain(g) PROVE AuditInv'
    BY <1>1, <1>8 DEF StartChain
  <1>9. ASSUME NEW i, Edit(Without(doc, i)) PROVE AuditInv'
    BY <1>1, <1>9 DEF Edit
  <1> QED
    BY <1>2, <1>3, <1>4, <1>5, <1>6, <1>7, <1>8, <1>9, StepCases, Zenon

LEMMA InitHasInv == Init => DeliveryInv
  <1> SUFFICES ASSUME Init PROVE DeliveryInv
    OBVIOUS
  <1>0. /\ phase = "delivered" /\ rows = <<>> /\ chored = {} /\ unsure = {} /\ late = {}
        /\ choice = [k \in Key |-> Unset] /\ joined = {} /\ doneFile = [g \in Group |-> {}]
        /\ earlier = [s \in Slug |-> Blank] /\ got = earlier
    BY DEF Init
  <1>1. ~AtStage7 /\ phase \notin {"chain", "audit"}
    BY <1>0 DEF AtStage7
  <1>2. TypeOK
    <2>1. DOMAIN rows = {}
      BY <1>0
    <2> QED
      BY <1>0, <2>1 DEF TypeOK
  <1>3. ShapeInv /\ FreshInv /\ NoMoreInv /\ BeforeInv
    <2>1. \A s \in Slug : IsEntry(got[s])
      BY <1>0 DEF IsEntry, Blank
    <2>2. choice = [k \in Key |-> choice[k]] /\ got = [s \in Slug |-> got[s]]
      BY <1>0
    <2>3. DOMAIN rows = {} /\ \A g \in Group : doneFile[g] = {}
      BY <1>0
    <2>4. ShapeInv /\ FreshInv /\ BeforeInv
      BY <1>0, <2>1, <2>2, <2>3 DEF ShapeInv, FreshInv, BeforeInv
    <2>5. \A x, y : x \subseteq x /\ x \subseteq y \cup x /\ x \in {x, y}
      OBVIOUS
    <2>6. NoMoreInv
      BY <1>0, <2>5, Zenon DEF NoMoreInv, TagsDue, TranslationsDue
    <2> QED
      BY <2>4, <2>6
  <1>4. DocInv
    <2>1. PICK slugs \in SeqsUpTo(Slug \cup {Odd, NoSlug}, Cardinality(Slug)),
               tags \in {q \in SeqsUpTo(Slug, Cardinality(Slug)) : Injective(q)}, slip \in Slips :
                 doc = Written(slugs, tags, slip)
      <3>1. IsDelivered
        BY DEF Init
      <3> QED
        BY <3>1, Zenon DEF IsDelivered
    <2>2. tags \in SeqsUpTo(Slug, Cardinality(Slug))
      OBVIOUS
    <2>3. Few(doc, Cardinality(Slug))
      BY <2>1, <2>2, WrittenIsFew
    <2> QED
      BY <1>0, <2>3 DEF DocInv, Few
  <1>5. SourceInv /\ FileInv /\ ArgsInv /\ PlanInv /\ AppliedInv /\ ListedInv /\ AuditInv
    BY <1>1 DEF SourceInv, FileInv, ArgsInv, PlanInv, AppliedInv, ListedInv, AuditInv
  <1> QED
    BY <1>2, <1>3, <1>4, <1>5 DEF DeliveryInv

-----------------------------------------------------------------------------
(***************************************************************************)
(* Theorems.                                                               *)
(***************************************************************************)

\* The chore stage goes by what was checked and chosen, and skips only what was done: the
\* inductive invariant of precheck, _chores and the chain.
THEOREM DeliveryInvariance == Spec => []DeliveryInv
  <1>1. DeliveryInv /\ [Next]_vars => DeliveryInv'
    BY TypeStep, ShapeStep, FreshStep, DocStep, SourceStep, FileStep, BeforeStep, ArgsStep, PlanStep,
       NoMoreStep, AppliedStep, ListedStep, AuditStep, Zenon DEF DeliveryInv
  <1> QED
    BY InitHasInv, <1>1, PTL DEF Spec

\* Every variable keeps its type, and a stored choice is from its vocabulary.
THEOREM TypesHold == Spec => []TypeOK
  <1>1. DeliveryInv => TypeOK
    BY DEF DeliveryInv
  <1> QED
    BY DeliveryInvariance, <1>1, PTL

\* What the tool's lenient parser reads of the file that render wrote is the whole group,
\* and at the audit every survivor has its difficulty and its own tags, beside those it
\* had before the upload.
THEOREM CheckedIsApplied == Spec => []CheckedMeansApplied
  <1>1. DeliveryInv => CheckedMeansApplied
    <2> SUFFICES ASSUME DeliveryInv, ~edited
                 PROVE  /\ phase = "chain" =>
                             /\ RowsOf(parse(file)) = Members(group)
                             /\ tags_will_apply(parse(file)) <=> source.tags # <<>>
                        /\ phase = "audit" => \A s \in DOMAIN rows :
                             /\ got[s].level
                             /\ source.tags # <<>> /\ s \in manifest.tagged =>
                                  got[s].tags = {s} \cup earlier[s].tags
      BY Zenon DEF CheckedMeansApplied
    <2>1. ASSUME phase = "chain"
          PROVE  /\ RowsOf(parse(file)) = Members(group)
                 /\ tags_will_apply(parse(file)) <=> source.tags # <<>>
      <3>1. /\ FileHas(parse(file), source, Members(group))
            /\ RowsOf(parse(file)) = Members(group) /\ Sound(source)
        BY <2>1, FileOfGroup DEF DeliveryInv
      <3>2. Members(group) # {}
        BY <2>1 DEF DeliveryInv, FileInv
      <3>3. tags_will_apply(parse(file)) <=> tags_will_apply(source)
        BY <3>1, <3>2, Zenon DEF FileHas
      <3>4. tags_will_apply(source) <=> source.tags # <<>>
        BY <3>1, Zenon DEF Sound, tags_will_apply
      <3> QED
        BY <3>1, <3>3, <3>4, Zenon
    <2>2. ASSUME phase = "audit", NEW s \in DOMAIN rows
          PROVE  /\ got[s].level
                 /\ source.tags # <<>> /\ s \in manifest.tagged =>
                      got[s].tags = {s} \cup earlier[s].tags
      <3>1. Has("metadata", s)
        BY <2>2 DEF DeliveryInv, AuditInv, AppliedInv, AtStage7, Stage
      <3> QED
        BY <3>1, Zenon DEF Has, TagsDue
    <2> QED
      BY <2>1, <2>2, Zenon
  <1> QED
    BY DeliveryInvariance, <1>1, PTL

\* What was chosen before stage 7 is what every survivor has at the audit, beside or in
\* place of what it had before the upload, and an empty choice changes nothing, whatever
\* was killed, resumed and skipped on the way.
THEOREM ChosenIsApplied == Spec => []ChosenMeansApplied
  <1>1. DeliveryInv => ChosenMeansApplied
    <2> SUFFICES ASSUME DeliveryInv, phase = "audit", ~edited, NEW s \in DOMAIN rows
                 PROVE  /\ "targets" \notin late => got[s].translated = TranslationsDue(s)
                        /\ "divisions" \notin late => got[s].divisions = DivisionsDue(s)
                        /\ "list_url" \notin late /\ Promised("list_url") = {} =>
                             got[s].listed = earlier[s].listed
      BY Zenon DEF ChosenMeansApplied
    <2>1. s \in Slug /\ NoMoreInv
      BY DEF DeliveryInv, TypeOK
    <2>2. Has("translate", s) /\ Has("division", s)
      BY DEF DeliveryInv, AuditInv, AppliedInv, AtStage7, Stage
    <2> QED
      BY <2>1, <2>2, Zenon DEF Has, NoMoreInv
  <1> QED
    BY DeliveryInvariance, <1>1, PTL

\* No survivor is missing from the contest list without a warning.
THEOREM ListedOrWarned == Spec => []ListedOrSaid
  <1>1. DeliveryInv => ListedOrSaid
    BY DEF DeliveryInv, ListedInv, AuditInv, AtStage7, ListedOrSaid
  <1> QED
    BY DeliveryInvariance, <1>1, PTL

\* Edits and resumes included, a problem gets only the tags of its own row, and one that
\* did not survive gets nothing.
THEOREM TagsAreOwn == Spec => TagsAreTheRowsOwn
  <1> DEFINE Step == phase # "accepted" => \A s \in Slug :
    /\ got'[s] # got[s] => s \in DOMAIN rows
    /\ got'[s].tags # got[s].tags => \E i \in DOMAIN source.rows :
         source.rows[i].slug = s /\ got'[s].tags \ got[s].tags \subseteq {source.tags[i].tag}
  <1>1. DeliveryInv /\ [Next]_vars => Step
    <2> SUFFICES ASSUME DeliveryInv, [Next]_vars, phase # "accepted", NEW s \in Slug
                 PROVE  /\ got'[s] # got[s] => s \in DOMAIN rows
                        /\ got'[s].tags # got[s].tags => \E i \in DOMAIN source.rows :
                             /\ source.rows[i].slug = s
                             /\ got'[s].tags \ got[s].tags \subseteq {source.tags[i].tag}
      BY Zenon
    <2>1. CASE got' = got
      BY <2>1
    <2>2. CASE StageRuns
      <3>1. PICK c : c = parse(file)
        OBVIOUS
      <3>2. /\ phase = "chain" /\ FileHas(c, source, Members(group))
            /\ \/ s \in RowsOf(c) /\ Made(got'[s], Head(plan), s, c)
               \/ s \notin RowsOf(c) /\ got'[s] = got[s]
        BY <2>2, <3>1, StageIs
      <3>3. RowsOf(c) \subseteq Members(group) /\ Members(group) \subseteq DOMAIN rows
        BY <3>1, <3>2, FileOfGroup DEF DeliveryInv
      <3>4. got'[s] # got[s] => s \in DOMAIN rows
        BY <3>2, <3>3
      <3>5. ASSUME got'[s].tags # got[s].tags
            PROVE  \E i \in DOMAIN source.rows :
                     /\ source.rows[i].slug = s
                     /\ got'[s].tags \ got[s].tags \subseteq {source.tags[i].tag}
        <4>1. \/ got'[s].tags = got[s].tags \cup Paired(c, s)
              \/ got'[s].tags = Paired(c, s)
          BY <3>2, <3>5, Zenon DEF Made
        <4>2. Distinct(source.rows, DOMAIN source.rows)
          BY <3>2 DEF DeliveryInv, SourceInv, AtStage7
        <4>3. \A t \in Paired(c, s) :
                \E i \in DOMAIN source.rows : source.rows[i].slug = s /\ t = source.tags[i].tag
          BY <3>2 DEF FileHas
        <4>4. s \in RowsOf(source)
          BY <3>2, <3>5 DEF FileHas
        <4>5. PICK i \in DOMAIN source.rows : source.rows[i].slug = s
          BY <4>4 DEF RowsOf
        <4>6. \A j \in DOMAIN source.rows : source.rows[j].slug = s => j = i
          BY <4>2, <4>5 DEF Distinct
        <4>7. Paired(c, s) \subseteq {source.tags[i].tag}
          BY <4>3, <4>6
        <4>8. got'[s].tags \ got[s].tags \subseteq {source.tags[i].tag}
          BY <4>1, <4>7
        <4> QED
          BY <4>5, <4>8
      <3> QED
        BY <3>4, <3>5
    <2>3. ~UploadHappens
      BY DEF UploadHappens, Upload
    <2> QED
      BY <2>1, <2>2, <2>3, GotIsKept
  <1>2. [][Step]_vars => TagsAreTheRowsOwn
    BY PTL DEF TagsAreTheRowsOwn
  <1> QED
    BY DeliveryInvariance, <1>1, <1>2, PTL DEF Spec
=============================================================================
