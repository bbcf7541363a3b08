--------------------------- MODULE TextCapsProofs ---------------------------
(* What TextCaps promises for every cap, every marker and every text.       *)
EXTENDS TextCaps, SequenceTheorems, WellFoundedInduction, TLAPS

-----------------------------------------------------------------------------
(* Sequences of sequences *)

Associative(a, b, c) == (a \o b) \o c = a \o (b \o c)

\* Two concatenations may be read from either side.
LEMMA ConcatIsAssociative ==
    ASSUME NEW S, NEW a \in Seq(S), NEW b \in Seq(S), NEW c \in Seq(S)
    PROVE  Associative(a, b, c)
BY ConcatAssociative DEF Associative

\* A set of naturals has a least element.
LEMMA Least ==
    ASSUME NEW T \in SUBSET Nat, T # {}
    PROVE  \E n \in T : \A m \in T : n <= m
<1> DEFINE R == OpToRel(<, Nat)
<1>1. IsWellFoundedOn(R, Nat)
    BY NatLessThanWellFounded
<1>2. \A m, n \in Nat : m < n => <<m, n>> \in R
    BY DEF OpToRel
<1> HIDE DEF R
<1>3. PICK n \in T : \A m \in T : ~(<<m, n>> \in R)
    BY <1>1, WFMin
<1>4. ASSUME NEW m \in T PROVE n <= m
    <2>1. m \in Nat /\ n \in Nat
        OBVIOUS
    <2>2. ~(m < n)
        BY <1>2, <1>3, <2>1
    <2> QED
        BY <2>1, <2>2
<1> QED
    BY <1>4

\* f is the flattening of the first k sequences of seqs, for every k up to n.
Flattens(f, seqs, n) ==
    f = [k \in 1..n |-> IF k = 1 THEN seqs[k] ELSE f[k - 1] \o seqs[k]]

\* There is such an f for every n.
LEMMA FlattensExists ==
    ASSUME NEW seqs, NEW n \in Nat PROVE \E f : Flattens(f, seqs, n)
<1> DEFINE T == {m \in Nat : ~\E f : Flattens(f, seqs, m)}
<1> SUFFICES ASSUME T # {} PROVE FALSE
    OBVIOUS
<1>1. T \in SUBSET Nat
    OBVIOUS
<1>2. PICK m \in T : \A q \in T : m <= q
    <2> HIDE DEF T
    <2> QED
        BY <1>1, Least
<1>3. CASE m = 0
    <2>1. Flattens([k \in 1..0 |-> <<>>], seqs, 0)
        BY DEF Flattens
    <2> QED
        BY <1>2, <1>3, <2>1
<1>4. CASE m # 0
    <2>1. m - 1 \in Nat /\ ~(m <= m - 1)
        BY <1>4
    <2>2. PICK f : Flattens(f, seqs, m - 1)
        BY <1>2, <2>1
    <2>3. \A k \in 1..m - 1 : f[k] = IF k = 1 THEN seqs[k] ELSE f[k - 1] \o seqs[k]
        BY <2>2 DEF Flattens
    <2> DEFINE g == [k \in 1..m |-> IF k # m THEN f[k] ELSE
                                    IF k = 1 THEN seqs[k] ELSE f[k - 1] \o seqs[k]]
    <2>4. ASSUME NEW k \in 1..m
          PROVE  g[k] = IF k = 1 THEN seqs[k] ELSE g[k - 1] \o seqs[k]
        <3>1. k # m => k \in 1..m - 1
            BY <2>1
        <3>2. k # 1 => k - 1 \in 1..m /\ k - 1 # m /\ g[k - 1] = f[k - 1]
            BY <2>1
        <3> QED
            BY <2>3, <3>1, <3>2
    <2>5. g = [k \in 1..m |-> g[k]]
        OBVIOUS
    <2> HIDE DEF g
    <2>6. Flattens(g, seqs, m)
        BY <2>4, <2>5 DEF Flattens
    <2> QED
        BY <1>2, <2>6
<1> QED
    BY <1>3, <1>4

SameTo(n, one, two) == \A k \in 1..n : one[k] = two[k]

\* It says the same of two beginnings that are the same.
LEMMA FlattensUnique ==
    ASSUME NEW one, NEW two, NEW n \in Nat, NEW m \in Nat, NEW f, NEW g,
           Flattens(f, one, m), Flattens(g, two, n), m <= n, SameTo(m, one, two)
    PROVE  SameTo(m, f, g)
<1> USE DEF SameTo
<1>1. \A k \in 1..m : f[k] = IF k = 1 THEN one[k] ELSE f[k - 1] \o one[k]
    BY DEF Flattens
<1>2. \A k \in 1..n : g[k] = IF k = 1 THEN two[k] ELSE g[k - 1] \o two[k]
    BY DEF Flattens
<1> DEFINE T == {k \in 1..m : f[k] # g[k]}
<1> SUFFICES ASSUME T # {} PROVE FALSE
    OBVIOUS
<1>3. T \in SUBSET Nat
    OBVIOUS
<1>4. PICK k \in T : \A q \in T : k <= q
    <2> HIDE DEF T
    <2> QED
        BY <1>3, Least
<1>5. k \in 1..m /\ k \in 1..n /\ f[k] # g[k]
    OBVIOUS
<1>6. k # 1 => k - 1 \in 1..m /\ ~(k <= k - 1)
    BY <1>5
<1>7. k # 1 => f[k - 1] = g[k - 1]
    BY <1>4, <1>6
<1> QED
    BY <1>1, <1>2, <1>5, <1>7

firstOf(seqs, n) == FlattenSeq(SubSeq(seqs, 1, n))

\* FlattenSeq puts one sequence after the other.
LEMMA FlattenOneMore ==
    ASSUME NEW S, NEW seqs \in Seq(Seq(S))
    PROVE  /\ firstOf(seqs, 0) = <<>> /\ firstOf(seqs, Len(seqs)) = FlattenSeq(seqs)
           /\ \A n \in 0..Len(seqs) : firstOf(seqs, n) \in Seq(S)
           /\ \A n \in 1..Len(seqs) : firstOf(seqs, n) = firstOf(seqs, n - 1) \o seqs[n]
<1>1. Len(seqs) \in Nat /\ \A k \in 1..Len(seqs) : seqs[k] \in Seq(S)
    BY LenProperties, ElementOfSeq
<1>2. PICK f : Flattens(f, seqs, Len(seqs))
    BY <1>1, FlattensExists
<1>3. \A k \in 1..Len(seqs) : f[k] = IF k = 1 THEN seqs[k] ELSE f[k - 1] \o seqs[k]
    BY <1>2 DEF Flattens
<1>4. firstOf(seqs, 0) = <<>>
    <2>1. SubSeq(seqs, 1, 0) = <<>> /\ Len(<<>>) = 0
        BY SubSeqEmpty
    <2> QED
        BY <2>1 DEF firstOf, FlattenSeq
<1>5. ASSUME NEW n \in 1..Len(seqs) PROVE firstOf(seqs, n) = f[n]
    <2> DEFINE t == SubSeq(seqs, 1, n)
               g == CHOOSE g : Flattens(g, t, n)
    <2>1. n \in Nat /\ n # 0 /\ n <= Len(seqs) /\ n \in 1..n
        BY <1>1
    <2>2. Len(t) = n /\ \A k \in 1..n : t[k] = seqs[k]
        BY <1>1, SubSeqProperties
    <2> HIDE DEF t
    <2>3. FlattenSeq(t) = g[n]
        BY <2>1, <2>2, Zenon DEF FlattenSeq, Flattens
    <2>4. Flattens(g, t, n)
        <3>1. \E h : Flattens(h, t, n)
            BY <2>1, FlattensExists
        <3> QED
            BY <3>1
    <2> HIDE DEF g
    <2>5. SameTo(n, g, f)
        <3>1. Len(seqs) \in Nat /\ n <= Len(seqs) /\ n \in Nat
            BY <1>1, <2>1
        <3>2. SameTo(n, t, seqs)
            BY <2>2 DEF SameTo
        <3> QED
            BY <1>2, <2>4, <3>1, <3>2, FlattensUnique
    <2> QED
        BY <2>1, <2>3, <2>5 DEF t, firstOf, SameTo
<1>6. firstOf(seqs, Len(seqs)) = FlattenSeq(seqs)
    BY SubSeqFull DEF firstOf
<1>7. ASSUME NEW n \in 1..Len(seqs)
      PROVE  firstOf(seqs, n) = firstOf(seqs, n - 1) \o seqs[n]
    <2>1. CASE n = 1
        <3>1. firstOf(seqs, 1) = seqs[1] /\ firstOf(seqs, 1 - 1) = <<>>
            BY <1>3, <1>4, <1>5, <2>1
        <3>2. <<>> \o seqs[1] = seqs[1]
            BY <1>1, <2>1, ConcatEmptySeq
        <3> QED
            BY <2>1, <3>1, <3>2
    <2>2. CASE n # 1
        <3>1. n - 1 \in 1..Len(seqs)
            BY <1>1, <2>2
        <3> QED
            BY <1>3, <1>5, <2>2, <3>1
    <2> QED
        BY <2>1, <2>2
<1>8. ASSUME NEW n \in 0..Len(seqs) PROVE firstOf(seqs, n) \in Seq(S)
    <2> DEFINE T == {m \in 0..Len(seqs) : firstOf(seqs, m) \notin Seq(S)}
    <2> SUFFICES ASSUME T # {} PROVE FALSE
        OBVIOUS
    <2>1. T \in SUBSET Nat
        BY <1>1
    <2>2. PICK m \in T : \A q \in T : m <= q
        <3> HIDE DEF T
        <3> QED
            BY <2>1, Least
    <2>3. m # 0
        <3>1. <<>> \in Seq(S)
            OBVIOUS
        <3> QED
            BY <1>4, <2>2, <3>1
    <2>4. m \in 1..Len(seqs) /\ m - 1 \in 0..Len(seqs) /\ ~(m <= m - 1)
        BY <1>1, <2>3
    <2>5. firstOf(seqs, m - 1) \in Seq(S)
        BY <2>2, <2>4
    <2> QED
        BY <1>1, <1>7, <2>4, <2>5, ConcatProperties
<1> QED
    BY <1>4, <1>6, <1>7, <1>8

USE CapAssumption, BytesAssumption

-----------------------------------------------------------------------------
(* The public message *)

Pieces(t) == [p \in DOMAIN t |-> IF soundAt(t, p) THEN <<t[p]>> ELSE Replacement]

\* A byte that is not part of a rune becomes the replacement, any other itself.
LEMMA PiecesAreTexts ==
    ASSUME NEW t \in Seq(Bytes)
    PROVE  /\ Pieces(t) \in Seq(Seq(Bytes)) /\ Len(Pieces(t)) = Len(t)
           /\ \A p \in 1..Len(t) :
                Pieces(t)[p] = IF soundAt(t, p) THEN <<t[p]>> ELSE Replacement
<1>1. Len(t) \in Nat /\ DOMAIN t = 1..Len(t) /\ \A p \in 1..Len(t) : t[p] \in Bytes
    BY LenProperties, ElementOfSeq
<1>2. ASSUME NEW b \in Bytes PROVE <<b>> \in Seq(Bytes)
    OBVIOUS
<1>3. \A p \in 1..Len(t) : (IF soundAt(t, p) THEN <<t[p]>> ELSE Replacement) \in Seq(Bytes)
    BY <1>1, <1>2
<1> DEFINE V == Seq(Bytes)
<1> HIDE DEF V
<1>4. Pieces(t) \in [1..Len(t) -> V]
    BY <1>1, <1>3 DEF Pieces, V
<1>5. Pieces(t) \in Seq(V) /\ Len(Pieces(t)) = Len(t)
    BY <1>1, <1>4
<1> QED
    BY <1>1, <1>5 DEF Pieces, V

\* A rune is as wide as its first byte says, and whole.
LEMMA WholeRune ==
    ASSUME NEW t \in Seq(Bytes), NEW q \in 1..Len(t), wholeAt(t, q)
    PROVE  Width[t[q]] \in 0..4 /\ q + Width[t[q]] - 1 <= Len(t)
<1>1. t[q] \in Bytes
    BY ElementOfSeq
<1>2. Width[t[q]] \in 0..4
    BY <1>1, BytesAssumption
<1>3. q + Width[t[q]] - 1 <= Len(t)
    BY DEF wholeAt
<1> QED
    BY <1>2, <1>3

\* Two valid texts make a valid text.
LEMMA ValidConcat ==
    ASSUME NEW a \in Seq(Bytes), NEW b \in Seq(Bytes), Valid(a), Valid(b)
    PROVE  Valid(a \o b)
<1> DEFINE u == a \o b
<1>1. /\ u \in Seq(Bytes) /\ Len(a) \in Nat /\ Len(b) \in Nat
      /\ DOMAIN a = 1..Len(a) /\ DOMAIN b = 1..Len(b)
      /\ Len(u) = Len(a) + Len(b) /\ DOMAIN u = 1..Len(a) + Len(b)
      /\ \A p \in 1..Len(a) + Len(b) : u[p] = IF p <= Len(a) THEN a[p] ELSE b[p - Len(a)]
    BY ConcatProperties, LenProperties
<1>2. \A p \in 1..Len(a) : u[p] = a[p]
    BY <1>1
<1>3. \A p \in 1..Len(b) : u[Len(a) + p] = b[p]
    <2> TAKE p \in 1..Len(b)
    <2>1. /\ Len(a) + p \in 1..Len(a) + Len(b) /\ ~(Len(a) + p <= Len(a))
          /\ Len(a) + p - Len(a) = p
        BY <1>1
    <2> QED
        BY <1>1, <2>1
<1> HIDE DEF u
<1>4. ASSUME NEW p \in 1..Len(a) PROVE soundAt(u, p)
    <2>1. PICK q \in 1..p : wholeAt(a, q) /\ p < q + Width[a[q]]
        BY <1>1 DEF Valid, soundAt
    <2>2. /\ q \in 1..Len(a) /\ u[q] = a[q] /\ Width[a[q]] \in 0..4
          /\ q + Width[a[q]] - 1 <= Len(a)
        <3>1. q \in 1..Len(a)
            BY <1>1
        <3>2. u[q] = a[q]
            BY <1>2, <3>1
        <3>3. Width[a[q]] \in 0..4 /\ q + Width[a[q]] - 1 <= Len(a)
            BY <2>1, <3>1, WholeRune
        <3> QED
            BY <3>1, <3>2, <3>3
    <2>3. \A k \in 1..Width[a[q]] - 1 : u[q + k] = a[q + k]
        <3> TAKE k \in 1..Width[a[q]] - 1
        <3> DEFINE w == Width[a[q]]
        <3>1. /\ q \in Nat /\ q >= 1 /\ w \in Int /\ q + w - 1 <= Len(a)
              /\ k \in Nat /\ k >= 1 /\ k <= w - 1
            BY <2>2
        <3> HIDE DEF w
        <3>2. q + k \in 1..Len(a)
            BY <1>1, <3>1
        <3> QED
            BY <1>2, <3>2
    <2>4. wholeAt(u, q)
        BY <1>1, <2>1, <2>2, <2>3 DEF wholeAt
    <2> QED
        BY <2>1, <2>2, <2>4 DEF soundAt
<1>5. ASSUME NEW p \in 1..Len(b) PROVE soundAt(u, Len(a) + p)
    <2>1. PICK q \in 1..p : wholeAt(b, q) /\ p < q + Width[b[q]]
        BY <1>1 DEF Valid, soundAt
    <2>2. /\ q \in 1..Len(b) /\ u[Len(a) + q] = b[q] /\ Width[b[q]] \in 0..4
          /\ q + Width[b[q]] - 1 <= Len(b)
        <3>1. q \in 1..Len(b)
            BY <1>1
        <3>2. u[Len(a) + q] = b[q]
            BY <1>3, <3>1
        <3>3. Width[b[q]] \in 0..4 /\ q + Width[b[q]] - 1 <= Len(b)
            BY <2>1, <3>1, WholeRune
        <3> QED
            BY <3>1, <3>2, <3>3
    <2>3. \A k \in 1..Width[b[q]] - 1 : u[Len(a) + q + k] = b[q + k]
        <3> TAKE k \in 1..Width[b[q]] - 1
        <3> DEFINE w == Width[b[q]]
        <3>1. /\ q \in Nat /\ q >= 1 /\ w \in Int /\ q + w - 1 <= Len(b)
              /\ k \in Nat /\ k >= 1 /\ k <= w - 1
            BY <2>2
        <3> HIDE DEF w
        <3>2. q + k \in 1..Len(b) /\ Len(a) + (q + k) = Len(a) + q + k
            BY <1>1, <3>1
        <3> QED
            BY <1>3, <3>2
    <2>4. wholeAt(u, Len(a) + q)
        <3> DEFINE m == Len(a) + q
        <3>1. RuneStart(u[m]) /\ Width[u[m]] = Width[b[q]]
            BY <2>1, <2>2 DEF wholeAt
        <3>2. m + Width[u[m]] - 1 <= Len(u)
            <4> DEFINE w == Width[b[q]]
            <4>1. q \in Nat /\ w \in Int /\ q + w - 1 <= Len(b)
                BY <2>2
            <4> HIDE DEF w
            <4>2. m + w - 1 <= Len(u)
                BY <1>1, <4>1
            <4> QED
                BY <3>1, <4>2 DEF w
        <3>3. \A k \in 1..Width[u[m]] - 1 : ~RuneStart(u[m + k])
            BY <2>1, <2>3, <3>1 DEF wholeAt
        <3> HIDE DEF m
        <3>4. wholeAt(u, m)
            BY <3>1, <3>2, <3>3 DEF wholeAt
        <3> QED
            BY <3>4 DEF m
    <2>5. Len(a) + q \in 1..Len(a) + p /\ Len(a) + p < Len(a) + q + Width[u[Len(a) + q]]
        <3>1. Width[u[Len(a) + q]] = Width[b[q]]
            BY <2>2
        <3>2. q \in Nat /\ q >= 1 /\ p \in Nat /\ q <= p /\ p < q + Width[b[q]]
            BY <2>1, <2>2
        <3> DEFINE w == Width[b[q]]
        <3>3. w \in Int /\ Len(a) \in Nat /\ p < q + w
            BY <1>1, <2>2, <3>2
        <3> HIDE DEF w
        <3>4. Len(a) + q \in 1..Len(a) + p /\ Len(a) + p < Len(a) + q + w
            BY <3>2, <3>3
        <3> QED
            BY <3>1, <3>4 DEF w
    <2> QED
        BY <2>4, <2>5 DEF soundAt
<1>6. ASSUME NEW p \in 1..Len(a) + Len(b) PROVE soundAt(u, p)
    <2>1. CASE p <= Len(a)
        BY <1>1, <1>4, <2>1
    <2>2. CASE ~(p <= Len(a))
        <3>1. p - Len(a) \in 1..Len(b) /\ Len(a) + (p - Len(a)) = p
            BY <1>1, <2>2
        <3> QED
            BY <1>5, <3>1
    <2> QED
        BY <2>1, <2>2
<1> QED
    BY <1>1, <1>6 DEF Valid, u

\* Bytes that belong to runes pass through the JSON of the body as they are.
LEMMA SoundStays ==
    ASSUME NEW t \in Seq(Bytes), NEW q \in 1..Len(t) + 1, NEW e \in q - 1..Len(t),
           \A p \in q..e : soundAt(t, p)
    PROVE  firstOf(Pieces(t), e) = firstOf(Pieces(t), q - 1) \o SubSeq(t, q, e)
<1> DEFINE ss == Pieces(t)
           base == firstOf(ss, q - 1)
           T == {p \in q - 1..e : firstOf(ss, p) # base \o SubSeq(t, q, p)}
<1>1. Len(t) \in Nat /\ \A p \in 1..Len(t) : t[p] \in Bytes
    BY LenProperties, ElementOfSeq
<1>2. /\ \A p \in 0..Len(t) : firstOf(ss, p) \in Seq(Bytes)
      /\ \A p \in 1..Len(t) : firstOf(ss, p) = firstOf(ss, p - 1) \o ss[p]
      /\ \A p \in q..e : ss[p] = <<t[p]>>
    <2>1. /\ ss \in Seq(Seq(Bytes)) /\ Len(ss) = Len(t)
          /\ \A p \in 1..Len(t) : ss[p] = IF soundAt(t, p) THEN <<t[p]>> ELSE Replacement
        BY PiecesAreTexts
    <2> HIDE DEF ss
    <2>2. \A p \in q..e : p \in 1..Len(t)
        BY <1>1
    <2>3. /\ \A p \in 0..Len(ss) : firstOf(ss, p) \in Seq(Bytes)
          /\ \A p \in 1..Len(ss) : firstOf(ss, p) = firstOf(ss, p - 1) \o ss[p]
        BY <2>1, FlattenOneMore
    <2> QED
        BY <2>1, <2>2, <2>3
<1> HIDE DEF ss
<1>3. base \in Seq(Bytes)
    BY <1>1, <1>2
<1> SUFFICES ASSUME T # {} PROVE FALSE
    <2>1. e \in q - 1..e
        BY <1>1
    <2>2. T = {} => firstOf(ss, e) = base \o SubSeq(t, q, e)
        BY <2>1
    <2> QED
        BY <2>2 DEF ss
<1>4. T \in SUBSET Nat
    BY <1>1
<1>5. PICK p \in T : \A j \in T : p <= j
    <2> HIDE DEF T
    <2> QED
        BY <1>4, Least
<1> DEFINE Wrong(j) == firstOf(ss, j) # base \o SubSeq(t, q, j)
<1>51. p \in q - 1..e /\ Wrong(p) /\ \A j \in q - 1..e : Wrong(j) => p <= j
    BY <1>5
<1> HIDE DEF base, T
<1>6. p # q - 1
    <2>1. SubSeq(t, q, q - 1) = <<>>
        BY SubSeqEmpty
    <2>2. base \o <<>> = base
        BY <1>3, ConcatEmptySeq
    <2>3. firstOf(ss, q - 1) = base \o SubSeq(t, q, q - 1)
        BY <2>1, <2>2 DEF base
    <2> QED
        BY <1>51, <2>3
<1>7. /\ p \in q..e /\ p \in 1..Len(t) /\ q \in 1..Len(t) /\ p \in q..Len(t)
      /\ p - 1 \in q - 1..e /\ ~(p <= p - 1)
    <2> HIDE DEF Wrong
    <2>1. p \in q - 1..e
        BY <1>51
    <2>2. p \in Int /\ q \in Int /\ e \in Int /\ 1 <= q /\ q <= p /\ p <= e /\ e <= Len(t)
        BY <1>1, <1>6, <2>1
    <2> QED
        BY <1>1, <2>2
<1>8. firstOf(ss, p - 1) = base \o SubSeq(t, q, p - 1)
    BY <1>51, <1>7
<1>9. firstOf(ss, p) = firstOf(ss, p - 1) \o <<t[p]>>
    BY <1>2, <1>7
<1>10. SubSeq(t, q, p) = SubSeq(t, q, p - 1) \o <<t[p]>>
    BY <1>7, SubSeqRecursiveSecond
<1>11. SubSeq(t, q, p - 1) \in Seq(Bytes) /\ <<t[p]>> \in Seq(Bytes)
    <2>1. \A j \in q..p - 1 : t[j] \in Bytes
        BY <1>1, <1>7
    <2>2. SubSeq(t, q, p - 1) \in Seq(Bytes)
        BY <1>1, <1>7, <2>1, SubSeqProperties
    <2>3. t[p] \in Bytes
        BY <1>1, <1>7
    <2> QED
        BY <2>2, <2>3
<1>12. (base \o SubSeq(t, q, p - 1)) \o <<t[p]>> = base \o (SubSeq(t, q, p - 1) \o <<t[p]>>)
    <2> DEFINE u == SubSeq(t, q, p - 1)
               v == <<t[p]>>
    <2>1. u \in Seq(Bytes) /\ v \in Seq(Bytes)
        BY <1>11
    <2> HIDE DEF u, v, Wrong
    <2>2. Associative(base, u, v)
        BY <1>3, <2>1, ConcatIsAssociative
    <2> QED
        BY <2>2 DEF u, v, Associative
<1> QED
    BY <1>51, <1>8, <1>9, <1>10, <1>12

\* A rune of a text is valid by itself.
LEMMA RuneIsValid ==
    ASSUME NEW t \in Seq(Bytes), NEW q \in 1..Len(t), wholeAt(t, q)
    PROVE  LET e == q + Width[t[q]] - 1
           IN  /\ e \in q..Len(t) /\ SubSeq(t, q, e) \in Seq(Bytes) /\ Valid(SubSeq(t, q, e))
               /\ \A p \in q..e : soundAt(t, p)
<1> DEFINE w == Width[t[q]]
           e == q + w - 1
           u == SubSeq(t, q, e)
<1>1. Len(t) \in Nat /\ \A p \in 1..Len(t) : t[p] \in Bytes
    BY LenProperties, ElementOfSeq
<1>2. w \in 1..4 /\ e \in q..Len(t)
    <2>1. t[q] \in Bytes
        BY <1>1
    <2>2. w \in 0..4 /\ w # 0 /\ q + w - 1 <= Len(t)
        BY <2>1 DEF wholeAt, RuneStart
    <2> QED
        BY <1>1, <2>2
<1>3. u \in Seq(Bytes) /\ Len(u) = w /\ \A p \in 1..w : u[p] = t[q + p - 1]
    <2>1. \A p \in q..e : t[p] \in Bytes
        BY <1>1, <1>2
    <2>2. q \in Int /\ e \in Int /\ q <= e /\ e - q + 1 = w
        BY <1>1, <1>2
    <2> HIDE DEF e
    <2> QED
        BY <2>1, <2>2, SubSeqProperties
<1>4. u[1] = t[q] /\ Width[u[1]] = w
    <2>1. 1 \in 1..w /\ q + 1 - 1 = q
        BY <1>2
    <2> QED
        BY <1>3, <2>1
<1> HIDE DEF u
<1>5. wholeAt(u, 1)
    <2>1. RuneStart(u[1]) /\ 1 + w - 1 <= Len(u)
        BY <1>2, <1>3, <1>4 DEF wholeAt
    <2>2. ASSUME NEW k \in 1..w - 1 PROVE ~RuneStart(u[1 + k])
        <3>1. 1 + k \in 1..w /\ q + (1 + k) - 1 = q + k
            BY <1>2
        <3>2. u[1 + k] = t[q + k]
            BY <1>3, <3>1
        <3> QED
            BY <3>2 DEF wholeAt
    <2> QED
        BY <1>4, <2>1, <2>2 DEF wholeAt
<1>6. Valid(u)
    <2>1. DOMAIN u = 1..w
        BY <1>3, LenProperties
    <2>2. ASSUME NEW p \in 1..w PROVE soundAt(u, p)
        <3>1. 1 \in 1..p /\ p < 1 + Width[u[1]]
            BY <1>2, <1>4
        <3> QED
            BY <1>5, <3>1 DEF soundAt
    <2> QED
        BY <2>1, <2>2 DEF Valid
<1>7. ASSUME NEW p \in q..e PROVE soundAt(t, p)
    <2>1. q \in 1..p /\ p < q + Width[t[q]]
        BY <1>2
    <2> QED
        BY <2>1 DEF soundAt
<1> QED
    BY <1>2, <1>3, <1>6, <1>7 DEF u

\* A rune of t begins at p or before and goes on after p.
GoesOn(t, p) == \E q \in 1..p : wholeAt(t, q) /\ p + 1 < q + Width[t[q]]

\* Whatever bytes a message is made of, what a client gets is valid UTF-8.
LEMMA MessagesAreValid ==
    ASSUME NEW t \in Seq(Bytes)
    PROVE  publicMessage(t) \in Seq(Bytes) /\ Valid(publicMessage(t))
<1> DEFINE ss == Pieces(t)
           T == {p \in 0..Len(t) : ~GoesOn(t, p) /\ ~Valid(firstOf(ss, p))}
<1>1. Len(t) \in Nat /\ DOMAIN t = 1..Len(t) /\ \A p \in 1..Len(t) : Width[t[p]] \in 0..4
    <2>1. \A p \in 1..Len(t) : t[p] \in Bytes
        BY ElementOfSeq
    <2> QED
        BY <2>1, LenProperties
<1>2. /\ ss \in Seq(Seq(Bytes)) /\ Len(ss) = Len(t)
      /\ \A p \in 1..Len(t) : ss[p] = IF soundAt(t, p) THEN <<t[p]>> ELSE Replacement
    BY PiecesAreTexts
<1>3. publicMessage(t) = FlattenSeq(ss)
    BY DEF publicMessage, Pieces
<1> HIDE DEF ss
<1>4. /\ firstOf(ss, 0) = <<>> /\ firstOf(ss, Len(t)) = FlattenSeq(ss)
      /\ \A p \in 0..Len(t) : firstOf(ss, p) \in Seq(Bytes)
      /\ \A p \in 1..Len(t) : firstOf(ss, p) = firstOf(ss, p - 1) \o ss[p]
    BY <1>2, FlattenOneMore
<1>5. T = {}
    <2> SUFFICES ASSUME T # {} PROVE FALSE
        OBVIOUS
    <2>1. T \in SUBSET Nat
        BY <1>1
    <2>2. PICK p \in T : \A j \in T : p <= j
        <3> HIDE DEF T
        <3> QED
            BY <2>1, Least
    <2>3. p \in 0..Len(t) /\ ~GoesOn(t, p) /\ ~Valid(firstOf(ss, p))
        OBVIOUS
    <2>4. ASSUME NEW j \in 0..p - 1, ~GoesOn(t, j) PROVE Valid(firstOf(ss, j))
        <3>1. j \in 0..Len(t) /\ ~(p <= j)
            BY <1>1, <2>3
        <3> QED
            BY <2>2, <2>4, <3>1
    <2> HIDE DEF T
    <2>5. p \in 1..Len(t)
        <3>1. Valid(<<>>)
            BY DEF Valid
        <3> QED
            BY <1>1, <1>4, <2>3, <3>1
    <2>6. CASE ~soundAt(t, p)
        <3>1. ~GoesOn(t, p - 1)
            <4> SUFFICES ASSUME NEW q \in 1..p - 1, wholeAt(t, q), p - 1 + 1 < q + Width[t[q]]
                         PROVE  FALSE
                BY DEF GoesOn
            <4>1. q \in 1..p /\ p < q + Width[t[q]]
                BY <2>5, <1>1
            <4> QED
                BY <2>6, <4>1 DEF soundAt
        <3>2. p - 1 \in 0..p - 1 /\ p - 1 \in 0..Len(t)
            BY <1>1, <2>5
        <3>3. Valid(firstOf(ss, p - 1)) /\ firstOf(ss, p - 1) \in Seq(Bytes)
            BY <1>4, <2>4, <3>1, <3>2
        <3>4. firstOf(ss, p) = firstOf(ss, p - 1) \o Replacement
            BY <1>2, <1>4, <2>5, <2>6
        <3> QED
            BY <2>3, <3>3, <3>4, ValidConcat, MarksAssumption
    <2>7. CASE soundAt(t, p)
        <3>1. PICK q \in 1..p : wholeAt(t, q) /\ p < q + Width[t[q]]
            BY <2>7 DEF soundAt
        <3>2. q \in 1..Len(t) /\ q - 1 \in 0..p - 1 /\ q - 1 \in 0..Len(t)
            BY <1>1, <2>5
        <3>3. p = q + Width[t[q]] - 1
            <4>1. ~(p + 1 < q + Width[t[q]])
                BY <2>3, <3>1 DEF GoesOn
            <4> DEFINE w == Width[t[q]]
            <4>2. w \in Int /\ p \in Int /\ q \in Int /\ p < q + w /\ ~(p + 1 < q + w)
                BY <1>1, <2>5, <3>1, <3>2, <4>1
            <4> HIDE DEF w
            <4>3. p = q + w - 1
                BY <4>2
            <4> QED
                BY <4>3 DEF w
        <3>4. ~GoesOn(t, q - 1)
            <4> SUFFICES ASSUME NEW r \in 1..q - 1, wholeAt(t, r), q - 1 + 1 < r + Width[t[r]]
                         PROVE  FALSE
                BY DEF GoesOn
            <4> DEFINE w == Width[t[r]]
            <4>1. r \in 1..Len(t) /\ r \in Nat /\ r < q /\ q \in Nat
                BY <1>1, <3>2
            <4>2. w \in 0..4 /\ q < r + w
                BY <4>1, WholeRune
            <4> HIDE DEF w
            <4>3. q - r \in 1..w - 1 /\ r + (q - r) = q
                BY <4>1, <4>2
            <4>4. ~RuneStart(t[r + (q - r)])
                BY <4>3 DEF w, wholeAt
            <4> QED
                BY <3>1, <4>3, <4>4 DEF wholeAt
        <3>5. Valid(firstOf(ss, q - 1)) /\ firstOf(ss, q - 1) \in Seq(Bytes)
            BY <1>4, <2>4, <3>2, <3>4
        <3>6. /\ SubSeq(t, q, p) \in Seq(Bytes) /\ Valid(SubSeq(t, q, p))
              /\ \A j \in q..p : soundAt(t, j)
            BY <3>1, <3>2, <3>3, RuneIsValid
        <3>7. firstOf(ss, p) = firstOf(ss, q - 1) \o SubSeq(t, q, p)
            <4>1. q \in 1..Len(t) + 1 /\ p \in q - 1..Len(t)
                BY <1>1, <2>5, <3>2
            <4> QED
                BY <3>6, <4>1, SoundStays DEF ss
        <3> QED
            BY <2>3, <3>5, <3>6, <3>7, ValidConcat
    <2> QED
        BY <2>6, <2>7
<1>6. ~GoesOn(t, Len(t))
    <2> SUFFICES ASSUME NEW q \in 1..Len(t), wholeAt(t, q), Len(t) + 1 < q + Width[t[q]]
                 PROVE  FALSE
        BY DEF GoesOn
    <2> QED
        BY <1>1 DEF wholeAt
<1>7. Len(t) \in 0..Len(t)
    BY <1>1
<1> QED
    BY <1>3, <1>4, <1>5, <1>6, <1>7

\* A valid message reaches the client unchanged.
LEMMA ValidMessagesStay ==
    ASSUME NEW t \in Seq(Bytes), Valid(t)
    PROVE  publicMessage(t) = t
<1> DEFINE ss == Pieces(t)
<1>1. Len(t) \in Nat /\ DOMAIN t = 1..Len(t) /\ \A p \in 1..Len(t) : soundAt(t, p)
    BY LenProperties DEF Valid
<1>2. ss \in Seq(Seq(Bytes)) /\ Len(ss) = Len(t)
    BY PiecesAreTexts
<1>3. firstOf(ss, Len(t)) = firstOf(ss, 1 - 1) \o SubSeq(t, 1, Len(t))
    <2>1. 1 \in 1..Len(t) + 1 /\ Len(t) \in 1 - 1..Len(t)
        BY <1>1
    <2> QED
        BY <1>1, <2>1, SoundStays
<1>4. publicMessage(t) = FlattenSeq(ss)
    BY DEF publicMessage, Pieces
<1> HIDE DEF ss
<1>5. firstOf(ss, 1 - 1) = <<>> /\ firstOf(ss, Len(t)) = FlattenSeq(ss)
    <2>1. firstOf(ss, 0) = <<>> /\ firstOf(ss, Len(ss)) = FlattenSeq(ss)
        BY <1>2, FlattenOneMore
    <2>2. 1 - 1 = 0
        OBVIOUS
    <2> QED
        BY <1>2, <2>1, <2>2
<1>6. SubSeq(t, 1, Len(t)) = t /\ <<>> \o t = t
    BY SubSeqFull, ConcatEmptySeq
<1> QED
    BY <1>3, <1>4, <1>5, <1>6

-----------------------------------------------------------------------------
(* The cut *)

\* Every index the loop uses is inside the text, so that neither loop can read
\* out of range.
THEOREM TypeCorrect == Spec => []TypeOK
<1>1. Init => TypeOK
    <2> SUFFICES ASSUME Init PROVE TypeOK
        OBVIOUS
    <2>1. text \in Seq(Bytes) /\ publicMessage(text) \in Seq(Bytes) /\ <<>> \in Seq(Bytes)
        BY MessagesAreValid DEF Init
    <2>2. s \in {text, publicMessage(text), <<>>}
        BY DEF Init
    <2>3. text \in Texts /\ s \in Seq(Bytes)
        BY <2>1, <2>2 DEF Init
    <2> QED
        BY <2>3 DEF Init, TypeOK
<1>2. TypeOK /\ [Next]_vars => TypeOK'
    <2> SUFFICES ASSUME TypeOK, [Next]_vars PROVE TypeOK'
        OBVIOUS
    <2>1. CASE Fits
        BY <2>1 DEF TypeOK, Fits
    <2>2. CASE TooLong
        BY <2>2 DEF TypeOK, TooLong, firstCut
    <2>3. CASE StepBack
        BY <2>3 DEF TypeOK, StepBack, splits
    <2>4. CASE Truncate
        <3>1. cut \in 0..Len(s) /\ tail \in Seq(Bytes)
            BY <2>4 DEF TypeOK, Truncate, tail
        <3>2. SubSeq(s, 1, cut) \in Seq(Bytes)
            BY <3>1, SubSeqProperties DEF TypeOK
        <3>3. out' \in Seq(Bytes)
            BY <2>4, <3>1, <3>2, ConcatProperties DEF Truncate
        <3> QED
            BY <2>4, <3>3 DEF TypeOK, Truncate
    <2>5. CASE HandOn
        BY <2>5 DEF TypeOK, HandOn
    <2>6. CASE UNCHANGED vars
        BY <2>6 DEF TypeOK, vars
    <2> QED
        BY <2>1, <2>2, <2>3, <2>4, <2>5, <2>6 DEF Next
<1> QED
    BY <1>1, <1>2, PTL DEF Spec

\* While the loop steps back, no boundary has been stepped over.
NoneSkipped ==
    pc = "back" => Len(s) > Cap /\ \A j \in cut + 1..Cap : ~Boundary(s, j)

CutInv == NoneSkipped /\ CutIsLongest

\* One step keeps the search on this side of every boundary.
LEMMA StepKeepsCutInv == TypeOK /\ CutInv /\ [Next]_vars => CutInv'
<1> SUFFICES ASSUME TypeOK, CutInv, [Next]_vars PROVE CutInv'
    OBVIOUS
<1> USE DEF CutInv, NoneSkipped, CutIsLongest
<1>1. CASE Fits
    BY <1>1 DEF Fits
<1>2. CASE TooLong
    BY <1>2 DEF TooLong, firstCut, TypeOK
<1>3. CASE StepBack
    <2>1. ~Boundary(s, cut)
        BY <1>3 DEF StepBack, splits, Boundary, TypeOK
    <2>2. \A j \in cut - 1 + 1..Cap : ~Boundary(s, j)
        BY <1>3, <2>1 DEF StepBack, TypeOK
    <2> QED
        BY <1>3, <2>2 DEF StepBack, Boundary
<1>4. CASE Truncate
    <2>1. Boundary(s, cut) /\ cut \in 0..Cap
        BY <1>4 DEF Truncate, splits, Boundary, TypeOK
    <2>2. Len(s) > Cap /\ (\A j \in cut + 1..Cap : ~Boundary(s, j))
        BY <1>4 DEF Truncate
    <2>3. ~(Len(s) <= Cap)
        BY <2>2 DEF TypeOK
    <2>4. out' = SubSeq(s, 1, cut) \o tail /\ s' = s /\ tail' = tail /\ pc' = "done"
        BY <1>4 DEF Truncate, tail
    <2> QED
        BY <2>1, <2>2, <2>3, <2>4 DEF Boundary
<1>5. CASE HandOn
    BY <1>5 DEF HandOn
<1>6. CASE UNCHANGED vars
    BY <1>6 DEF vars, tail, Boundary
<1> QED
    BY <1>1, <1>2, <1>3, <1>4, <1>5, <1>6 DEF Next

\* What is kept of a text that is too long is its longest beginning within the
\* cap that ends on a rune boundary, whatever bytes the text is made of.
THEOREM TheCutIsLongest == Spec => []CutIsLongest
<1>1. Init => CutInv
    BY DEF Init, CutInv, NoneSkipped, CutIsLongest
<1>2. CutInv => CutIsLongest
    BY DEF CutInv
<1> QED
    BY <1>1, <1>2, StepKeepsCutInv, TypeCorrect, PTL DEF Spec

-----------------------------------------------------------------------------
(* What a boundary is good for *)

\* A valid text that ends early, on a boundary, is still valid: a rune that
\* reached over the end would put one of its continuation bytes behind it.
LEMMA BoundaryKeepsValid ==
    ASSUME NEW t \in Seq(Bytes), NEW k \in 0..Len(t), Boundary(t, k), Valid(t)
    PROVE  Valid(SubSeq(t, 1, k))
<1> DEFINE u == SubSeq(t, 1, k)
<1>1. u \in Seq(Bytes) /\ Len(u) = k /\ \A p \in 1..k : u[p] = t[p]
    BY SubSeqProperties
<1> HIDE DEF u
<1> SUFFICES ASSUME NEW p \in 1..k PROVE soundAt(u, p)
    BY <1>1 DEF Valid, u
<1>2. PICK q \in 1..p : wholeAt(t, q) /\ p < q + Width[t[q]]
    <2>1. p \in DOMAIN t
        OBVIOUS
    <2> QED
        BY <2>1 DEF Valid, soundAt
<1>3. q \in 1..Len(t) /\ t[q] \in Bytes /\ Width[t[q]] \in 0..4
    BY <1>2
<1>4. q + Width[t[q]] - 1 <= k
    <2> SUFFICES ASSUME q + Width[t[q]] - 1 > k PROVE FALSE
        BY <1>3
    <2>1. k + 1 - q \in 1..Width[t[q]] - 1 /\ q + (k + 1 - q) = k + 1
        BY <1>2, <1>3
    <2>2. ~RuneStart(t[k + 1])
        BY <1>2, <2>1 DEF wholeAt
    <2>3. k # 0 /\ k # Len(t)
        BY <1>2, <1>3 DEF wholeAt
    <2> QED
        BY <2>2, <2>3 DEF Boundary
<1>5. \A j \in 0..Width[t[q]] - 1 : q + j \in 1..k /\ u[q + j] = t[q + j]
    BY <1>1, <1>3, <1>4
<1>6. u[q] = t[q]
    BY <1>1, <1>2, <1>3
<1>7. wholeAt(u, q)
    BY <1>1, <1>2, <1>3, <1>4, <1>5, <1>6 DEF wholeAt
<1> QED
    BY <1>2, <1>6, <1>7 DEF soundAt

-----------------------------------------------------------------------------
(* Whole runes *)

\* A rune of a valid text begins at most three bytes before any of its bytes.
LEMMA BoundaryIsNear ==
    ASSUME NEW t \in Seq(Bytes), Valid(t), Len(t) > Cap
    PROVE  \E k \in 0..Cap : Cap - 3 <= k /\ Boundary(t, k)
<1>1. Len(t) \in Nat /\ DOMAIN t = 1..Len(t) /\ Cap + 1 \in 1..Len(t)
    BY LenProperties
<1>2. PICK q \in 1..Cap + 1 : wholeAt(t, q) /\ Cap + 1 < q + Width[t[q]]
    BY <1>1 DEF Valid, soundAt
<1>3. q \in 1..Len(t) /\ t[q] \in Bytes
    BY <1>1, ElementOfSeq
<1>4. Width[t[q]] \in 0..4
    BY <1>3
<1>5. q - 1 \in 0..Cap /\ Cap - 3 <= q - 1 /\ q - 1 + 1 = q
    BY <1>1, <1>2, <1>4
<1>6. Boundary(t, q - 1)
    BY <1>2, <1>5 DEF wholeAt, Boundary
<1> QED
    BY <1>5, <1>6

\* The largest boundary within the cap.
IsCut(t, k) ==
    k \in 0..Cap /\ Boundary(t, k) /\ \A j \in k + 1..Cap : ~Boundary(t, j)

\* A cut is at most three bytes before the cap.
LEMMA CutIsNear ==
    ASSUME NEW t \in Seq(Bytes), Valid(t), Len(t) > Cap, NEW k, IsCut(t, k)
    PROVE  k >= Cap - 3
<1>1. PICK j \in 0..Cap : Cap - 3 <= j /\ Boundary(t, j)
    BY BoundaryIsNear
<1>2. ~(j \in k + 1..Cap) /\ k \in 0..Cap
    BY <1>1 DEF IsCut
<1> QED
    BY <1>1, <1>2

\* There is one place to cut a text at.
LEMMA OneCut ==
    ASSUME NEW t, NEW k, NEW j, IsCut(t, k), IsCut(t, j)
    PROVE  j = k
<1>1. j \in 0..Cap /\ k \in 0..Cap /\ ~(j \in k + 1..Cap) /\ ~(k \in j + 1..Cap)
    BY DEF IsCut
<1> QED
    BY <1>1

\* What the texts of the two cuts have to do with the text that was given.
RuneInv ==
    /\ use = "reason" \/ Valid(text) => Valid(s)
    /\ pc = "back" => Len(s) > Cap
    /\ pc = "done" /\ Len(s) <= Cap => out = s
    /\ pc = "done" /\ Len(s) > Cap => IsCut(s, cut) /\ out = SubSeq(s, 1, cut) \o tail
    /\ use = "value" /\ once = NotYet => s = text
    /\ once # NotYet => /\ use = "value" /\ s = once.out
                        /\ Len(text) > Cap /\ IsCut(text, once.cut)
                        /\ s = SubSeq(text, 1, once.cut) \o Marker

\* What is left of a valid text is valid, with or without the marker.
LEMMA CutsAreValid ==
    ASSUME NEW t \in Seq(Bytes), Valid(t), Len(t) > Cap, NEW k, IsCut(t, k)
    PROVE  /\ SubSeq(t, 1, k) \in Seq(Bytes) /\ Len(SubSeq(t, 1, k)) = k
           /\ Valid(SubSeq(t, 1, k))
           /\ Valid(SubSeq(t, 1, k) \o Marker)
<1>1. k \in 0..Cap /\ Boundary(t, k) /\ k \in 0..Len(t)
    BY LenProperties DEF IsCut
<1>2. Valid(SubSeq(t, 1, k))
    BY <1>1, BoundaryKeepsValid
<1>3. SubSeq(t, 1, k) \in Seq(Bytes) /\ Len(SubSeq(t, 1, k)) = k
    BY <1>1, SubSeqProperties
<1> QED
    BY <1>2, <1>3, ValidConcat, MarksAssumption

\* Every step keeps the text, once cut, one that ends with a whole rune.
LEMMA StepKeepsRuneInv == TypeOK /\ CutInv /\ RuneInv /\ [Next]_vars => RuneInv'
<1> SUFFICES ASSUME TypeOK, CutInv, RuneInv, [Next]_vars PROVE RuneInv'
    OBVIOUS
<1>1. CASE Fits
    <2>1. /\ Len(s) <= Cap /\ out' = s /\ pc' = "done"
          /\ UNCHANGED <<use, text, s, cut, once>>
        BY <1>1 DEF Fits
    <2>2. ~(Len(s) > Cap)
        <3>1. Len(s) \in Nat
            BY DEF TypeOK
        <3> QED
            BY <2>1, <3>1
    <2> QED
        BY <2>1, <2>2 DEF RuneInv
<1>2. CASE TooLong
    BY <1>2 DEF RuneInv, TooLong
<1>3. CASE StepBack
    BY <1>3 DEF RuneInv, StepBack
<1>4. CASE Truncate
    <2>1. IsCut(s, cut)
        <3>1. Boundary(s, cut) /\ cut \in 0..Cap
            BY <1>4 DEF Truncate, splits, Boundary, TypeOK
        <3> QED
            BY <1>4, <3>1 DEF Truncate, CutInv, NoneSkipped, IsCut
    <2>2. /\ UNCHANGED <<use, text, s, cut, once>> /\ tail' = tail
          /\ out' = SubSeq(s, 1, cut) \o tail /\ pc' = "done" /\ pc = "back"
        BY <1>4 DEF Truncate, tail
    <2>3. Len(s) > Cap /\ ~(Len(s) <= Cap)
        <3>1. Len(s) \in Nat
            BY DEF TypeOK
        <3> QED
            BY <2>2, <3>1 DEF RuneInv
    <2>4. pc' = "done" /\ Len(s') > Cap => IsCut(s, cut)' /\ out' = SubSeq(s', 1, cut') \o tail'
        BY <2>1, <2>2 DEF IsCut, Boundary
    <2>5. ~(pc' = "back") /\ ~(Len(s') <= Cap)
        BY <2>2, <2>3
    <2>6. use = "reason" \/ Valid(text) => Valid(s)
        BY DEF RuneInv
    <2>7. Valid(text)' = Valid(text) /\ Valid(s)' = Valid(s)
        BY <2>2 DEF Valid, soundAt, wholeAt, RuneStart
    <2>8. once # NotYet => IsCut(text, once.cut)' = IsCut(text, once.cut)
        BY <2>2 DEF IsCut, Boundary
    <2> QED
        BY <2>2, <2>4, <2>5, <2>6, <2>7, <2>8 DEF RuneInv
<1>5. CASE HandOn
    <2>1. /\ pc = "done" /\ use = "value" /\ Len(s) > Cap /\ once = NotYet
          /\ once' = [cut |-> cut, out |-> out]
          /\ s' = out /\ pc' = "measure" /\ UNCHANGED <<use, text, cut, out>>
        BY <1>5 DEF HandOn
    <2>2. /\ s = text /\ IsCut(s, cut) /\ out = SubSeq(s, 1, cut) \o Marker
          /\ Valid(text) => Valid(s)
        BY <2>1 DEF RuneInv, tail
    <2>3. Valid(s) => Valid(out)
        BY <2>1, <2>2, CutsAreValid DEF TypeOK
    <2>4. once'.cut = cut /\ once'.out = out
        BY <2>1
    <2>5. IsCut(text', once'.cut) /\ s' = SubSeq(text', 1, once'.cut) \o Marker
        BY <2>1, <2>2, <2>4
    <2>6. Valid(text') => Valid(s')
        BY <2>1, <2>2, <2>3
    <2>7. once' # NotYet
        <3>1. cut # -1
            BY DEF TypeOK
        <3> QED
            BY <2>4, <3>1 DEF NotYet
    <2> QED
        BY <2>1, <2>2, <2>4, <2>5, <2>6, <2>7 DEF RuneInv
<1>6. CASE UNCHANGED vars
    BY <1>6 DEF RuneInv, vars, tail
<1> QED
    BY <1>1, <1>2, <1>3, <1>4, <1>5, <1>6 DEF Next

\* So it is from the start.
LEMMA RuneInvHolds == Spec => [](TypeOK /\ RuneInv)
<1>1. Init => RuneInv
    <2> SUFFICES ASSUME Init PROVE RuneInv
        OBVIOUS
    <2>1. /\ text \in Seq(Bytes) /\ pc = "measure" /\ once = NotYet
          /\ use \in {"value", "reason"}
          /\ use = "value" => s = text
          /\ use = "reason" => s = publicMessage(text) \/ s = <<>>
        BY DEF Init
    <2>2. Valid(publicMessage(text)) /\ Valid(<<>>)
        BY <2>1, MessagesAreValid DEF Valid
    <2>3. use = "reason" => Valid(s)
        BY <2>1, <2>2
    <2>4. Valid(text) => Valid(s)
        <3>1. CASE use = "value"
            BY <2>1, <3>1
        <3>2. CASE use = "reason"
            BY <2>3, <3>2
        <3> QED
            BY <2>1, <3>1, <3>2
    <2> QED
        BY <2>1, <2>3, <2>4 DEF RuneInv
<1>2. Init => CutInv
    BY DEF Init, CutInv, NoneSkipped, CutIsLongest
<1> QED
    BY <1>1, <1>2, StepKeepsCutInv, StepKeepsRuneInv, TypeCorrect, PTL DEF Spec

\* No cut leaves half a rune behind, for any cap and any text, and the reason of
\* a close frame is valid whatever bytes the message is made of.
THEOREM NoRuneIsSplit == Spec => []RunesStayWhole
<1>1. TypeOK /\ RuneInv => RunesStayWhole
    <2> SUFFICES ASSUME TypeOK, RuneInv, pc = "done"
                 PROVE  /\ Valid(text) \/ use = "reason" => Valid(out)
                        /\ Valid(text) /\ Len(s) > Cap => cut >= Cap - 3
                        /\ use = "reason" => Len(out) <= Cap
        BY DEF RunesStayWhole
    <2>1. s \in Seq(Bytes) /\ Len(s) \in Nat /\ (Valid(text) \/ use = "reason" => Valid(s))
        BY LenProperties DEF TypeOK, RuneInv
    <2>2. CASE Len(s) <= Cap
        <3>1. out = s /\ ~(Len(s) > Cap)
            BY <2>1, <2>2 DEF RuneInv
        <3> QED
            BY <2>1, <2>2, <3>1
    <2>3. CASE ~(Len(s) <= Cap)
        <3>0. Len(s) > Cap
            BY <2>1, <2>3
        <3>1. Len(s) > Cap /\ IsCut(s, cut) /\ out = SubSeq(s, 1, cut) \o tail
            BY <3>0 DEF RuneInv
        <3>2. SubSeq(s, 1, cut) \in Seq(Bytes) /\ Len(SubSeq(s, 1, cut)) = cut
            <4>1. cut \in 0..Len(s)
                BY <2>1, <3>1 DEF IsCut
            <4> QED
                BY <2>1, <4>1, SubSeqProperties
        <3>3. use = "reason" => out = SubSeq(s, 1, cut)
            BY <3>1, <3>2, ConcatEmptySeq DEF tail
        <3>4. use # "reason" => out = SubSeq(s, 1, cut) \o Marker
            BY <3>1 DEF tail, TypeOK
        <3>5. Valid(s) => /\ Valid(SubSeq(s, 1, cut)) /\ Valid(SubSeq(s, 1, cut) \o Marker)
                          /\ cut >= Cap - 3
            BY <2>1, <3>1, CutsAreValid, CutIsNear
        <3>6. Valid(text) \/ use = "reason" => Valid(out)
            BY <2>1, <3>3, <3>4, <3>5
        <3>7. use = "reason" => Len(out) <= Cap
            BY <3>1, <3>2, <3>3 DEF IsCut
        <3> QED
            BY <2>1, <3>5, <3>6, <3>7
    <2> QED
        BY <2>2, <2>3
<1> QED
    BY <1>1, RuneInvHolds, PTL

\* The marker begins with a rune of three bytes.
LEMMA MarkerBegins ==
    /\ Len(Marker) \in Nat /\ Len(Marker) > 3
    /\ RuneStart(Marker[1]) /\ ~RuneStart(Marker[2]) /\ ~RuneStart(Marker[3])
    /\ RuneStart(Marker[4])
<1>1. Len(Marker) \in Nat /\ Len(Marker) > 3 /\ DOMAIN Marker = 1..Len(Marker)
    BY MarksAssumption, LenProperties
<1>2. RuneStart(Marker[1]) /\ \A k \in 1..2 : ~RuneStart(Marker[1 + k])
    <2>1. Width[Marker[1]] - 1 = 2
        BY MarksAssumption
    <2> QED
        BY <2>1, MarksAssumption DEF wholeAt
<1>3. ~RuneStart(Marker[2]) /\ ~RuneStart(Marker[3])
    <2>1. ~RuneStart(Marker[1 + 1]) /\ ~RuneStart(Marker[1 + 2])
        BY <1>2
    <2> QED
        BY <2>1
<1>4. 4 \in DOMAIN Marker
    BY <1>1
<1>5. PICK q \in 1..4 : wholeAt(Marker, q) /\ 4 < q + Width[Marker[q]]
    BY <1>4, MarksAssumption DEF Valid, soundAt
<1>6. q # 1
    BY <1>5, MarksAssumption
<1>7. q # 2 /\ q # 3
    BY <1>3, <1>5 DEF wholeAt
<1>8. q = 4
    BY <1>6, <1>7
<1> QED
    BY <1>1, <1>2, <1>3, <1>5, <1>8 DEF wholeAt

\* A valid text that was cut to k bytes and marked, and is cut a second time.
LEMMA SecondCut ==
    ASSUME NEW b \in Seq(Bytes), Len(b) \in 0..Cap, Cap - 3 <= Len(b),
           NEW c, IsCut(b \o Marker, c), Len(b \o Marker) > Cap
    PROVE  c = IF Len(b) = Cap - 3 THEN Cap ELSE Len(b)
<1> DEFINE t == b \o Marker
           k == Len(b)
<1>1. /\ t \in Seq(Bytes) /\ Len(t) = k + Len(Marker) /\ Len(Marker) \in Nat /\ Len(Marker) > 3
      /\ \A p \in 1..k + Len(Marker) : t[p] = IF p <= k THEN b[p] ELSE Marker[p - k]
    BY ConcatProperties, MarkerBegins
<1>2. \A p \in 1..Len(Marker) : t[k + p] = Marker[p]
    <2> TAKE p \in 1..Len(Marker)
    <2>1. k + p \in 1..k + Len(Marker) /\ ~(k + p <= k) /\ k + p - k = p
        BY <1>1
    <2> QED
        BY <1>1, <2>1
<1>3. k \in 0..Cap /\ Cap - 3 <= k /\ Len(t) > Cap
    OBVIOUS
<1>4. 1 \in 1..Len(Marker) /\ 2 \in 1..Len(Marker) /\ 3 \in 1..Len(Marker) /\ 4 \in 1..Len(Marker)
    BY <1>1
<1>5. t[k + 1] = Marker[1] /\ t[k + 2] = Marker[2] /\ t[k + 3] = Marker[3] /\ t[k + 4] = Marker[4]
    BY <1>2, <1>4
<1> HIDE DEF t, k
<1>6. Boundary(t, k)
    BY <1>5, MarkerBegins DEF Boundary
<1>7. CASE k = Cap - 3
    <2>1. Cap + 1 = k + 4 /\ Cap \in 0..Cap
        BY <1>3, <1>7
    <2>2. Boundary(t, Cap)
        BY <1>5, <2>1, MarkerBegins DEF Boundary
    <2>3. IsCut(t, Cap)
        BY <2>1, <2>2 DEF IsCut
    <2>4. c = Cap
        BY <2>3, OneCut DEF t
    <2> QED
        BY <1>7, <2>4 DEF k
<1>8. CASE k # Cap - 3
    <2>1. ASSUME NEW j \in k + 1..Cap PROVE ~Boundary(t, j)
        <3>1. j = k + 1 \/ j = k + 2
            BY <1>3, <1>8
        <3>2. j # 0 /\ j # Len(t)
            BY <1>1, <1>3
        <3>3. ~RuneStart(t[j + 1])
            <4>1. k + 1 + 1 = k + 2 /\ k + 2 + 1 = k + 3
                BY <1>3
            <4> QED
                BY <1>5, <3>1, <4>1, MarkerBegins
        <3> QED
            BY <3>2, <3>3 DEF Boundary
    <2>2. IsCut(t, k)
        BY <1>3, <1>6, <2>1 DEF IsCut
    <2>3. c = k
        BY <2>2, OneCut DEF t
    <2> QED
        BY <1>8, <2>3 DEF k
<1> QED
    BY <1>7, <1>8

\* Cutting a second time changes nothing, unless the first cut gave up three
\* bytes, for any cap, any marker that begins with a rune of three bytes, and
\* any valid text.
THEOREM RecappingStable == Spec => []RecappingIsStable
<1>1. TypeOK /\ RuneInv => RecappingIsStable
    <2> SUFFICES ASSUME TypeOK, RuneInv, pc = "done", once # NotYet, Valid(text)
                 PROVE  out = once.out <=> once.cut # Cap - 3
        BY DEF RecappingIsStable
    <2> DEFINE k == once.cut
               b == SubSeq(text, 1, k)
    <2>1. /\ use = "value" /\ s = once.out /\ Len(text) > Cap /\ IsCut(text, k)
          /\ s = b \o Marker
        BY DEF RuneInv
    <2>2. text \in Seq(Bytes) /\ s \in Seq(Bytes) /\ Len(s) \in Nat
        BY LenProperties DEF TypeOK
    <2>3. b \in Seq(Bytes) /\ Len(b) = k
        BY <2>1, <2>2, CutsAreValid
    <2>4. k \in 0..Cap /\ k >= Cap - 3
        BY <2>1, <2>2, CutIsNear DEF IsCut
    <2> HIDE DEF b
    <2>5. Len(Marker) \in Nat /\ Len(Marker) > 3 /\ Len(s) = k + Len(Marker)
        <3>1. Len(b \o Marker) = Len(b) + Len(Marker)
            BY <2>3, ConcatProperties
        <3> QED
            BY <2>1, <2>3, <3>1, MarkerBegins
    <2>6. CASE Len(s) <= Cap
        <3>1. out = s
            BY <2>6 DEF RuneInv
        <3>2. k # Cap - 3
            BY <2>4, <2>5, <2>6
        <3> QED
            BY <2>1, <3>1, <3>2
    <2>7. CASE ~(Len(s) <= Cap)
        <3>1. Len(s) > Cap
            BY <2>2, <2>7
        <3>2. IsCut(s, cut) /\ out = SubSeq(s, 1, cut) \o Marker
            BY <2>1, <3>1 DEF RuneInv, tail
        <3>3. cut = IF k = Cap - 3 THEN Cap ELSE k
            BY <2>1, <2>3, <2>4, <3>1, <3>2, SecondCut
        <3>4. SubSeq(s, 1, cut) \in Seq(Bytes) /\ Len(SubSeq(s, 1, cut)) = cut
            <4>1. cut \in 0..Len(s)
                BY <2>2, <3>1, <3>2 DEF IsCut
            <4> QED
                BY <2>2, <4>1, SubSeqProperties
        <3>5. Len(out) = cut + Len(Marker)
            BY <3>2, <3>4, ConcatProperties
        <3>6. CASE k = Cap - 3
            <4>1. Len(out) # Len(s)
                BY <2>4, <2>5, <3>3, <3>5, <3>6
            <4> QED
                BY <2>1, <3>6, <4>1
        <3>7. CASE k # Cap - 3
            <4>1. SubSeq(s, 1, k) = b
                <5>1. /\ SubSeq(s, 1, k) \in Seq(Bytes) /\ Len(SubSeq(s, 1, k)) = k
                      /\ \A p \in 1..k : SubSeq(s, 1, k)[p] = s[p]
                    <6>1. k \in 0..Len(s)
                        BY <2>4, <2>5
                    <6> QED
                        BY <2>2, <6>1, SubSeqProperties
                <5>2. \A p \in 1..k : s[p] = b[p]
                    <6>1. \A p \in 1..k + Len(Marker) :
                             s[p] = IF p <= k THEN b[p] ELSE Marker[p - k]
                        <7>1. \A p \in 1..Len(b) + Len(Marker) :
                                 (b \o Marker)[p] = IF p <= Len(b) THEN b[p]
                                                    ELSE Marker[p - Len(b)]
                            BY <2>3, ConcatProperties
                        <7> QED
                            BY <2>1, <2>3, <7>1
                    <6>2. \A p \in 1..k : p \in 1..k + Len(Marker) /\ p <= k
                        BY <2>4, <2>5
                    <6> QED
                        BY <6>1, <6>2
                <5> QED
                    BY <2>3, <5>1, <5>2, SeqEqual
            <4> QED
                BY <2>1, <3>2, <3>3, <3>7, <4>1
        <3> QED
            BY <3>6, <3>7
    <2> QED
        BY <2>6, <2>7
<1> QED
    BY <1>1, RuneInvHolds, PTL
=============================================================================
