----------------------- MODULE MessagesAndLogsProofs ------------------------
(* What an error says to its two readers: Localize, of a message to a client  *)
(* in the client's language, for all tables, requests and edits; Logging, of  *)
(* a record to whoever reads the logs, for all errors and loggers.           *)
EXTENDS Localize, Logging, SequenceTheorems, WellFoundedInduction, TLAPS

-----------------------------------------------------------------------------
(* Sequences of sequences *)

Associative(a, b, c) == (a \o b) \o c = a \o (b \o c)

\* Two concatenations may be read from either side.
LEMMA ConcatIsAssociative ==
    ASSUME NEW S, NEW a \in Seq(S), NEW b \in Seq(S), NEW c \in Seq(S)
    PROVE  Associative(a, b, c)
BY ConcatAssociative DEF Associative

\* A set of naturals has a least element.
LEMMA Least ==
    ASSUME NEW T \in SUBSET Nat, T # {}
    PROVE  \E n \in T : \A m \in T : n <= m
<1> DEFINE R == OpToRel(<, Nat)
<1>1. IsWellFoundedOn(R, Nat)
    BY NatLessThanWellFounded
<1>2. \A m, n \in Nat : m < n => <<m, n>> \in R
    BY DEF OpToRel
<1> HIDE DEF R
<1>3. PICK n \in T : \A m \in T : ~(<<m, n>> \in R)
    BY <1>1, WFMin
<1>4. ASSUME NEW m \in T PROVE n <= m
    <2>1. m \in Nat /\ n \in Nat
        OBVIOUS
    <2>2. ~(m < n)
        BY <1>2, <1>3, <2>1
    <2> QED
        BY <2>1, <2>2
<1> QED
    BY <1>4

\* f is the flattening of the first k sequences of seqs, for every k up to n.
Flattens(f, seqs, n) ==
    f = [k \in 1..n |-> IF k = 1 THEN seqs[k] ELSE f[k - 1] \o seqs[k]]

\* There is such an f for every n.
LEMMA FlattensExists ==
    ASSUME NEW seqs, NEW n \in Nat PROVE \E f : Flattens(f, seqs, n)
<1> DEFINE T == {m \in Nat : ~\E f : Flattens(f, seqs, m)}
<1> SUFFICES ASSUME T # {} PROVE FALSE
    OBVIOUS
<1>1. T \in SUBSET Nat
    OBVIOUS
<1>2. PICK m \in T : \A q \in T : m <= q
    <2> HIDE DEF T
    <2> QED
        BY <1>1, Least
<1>3. CASE m = 0
    <2>1. Flattens([k \in 1..0 |-> <<>>], seqs, 0)
        BY DEF Flattens
    <2> QED
        BY <1>2, <1>3, <2>1
<1>4. CASE m # 0
    <2>1. m - 1 \in Nat /\ ~(m <= m - 1)
        BY <1>4
    <2>2. PICK f : Flattens(f, seqs, m - 1)
        BY <1>2, <2>1
    <2>3. \A k \in 1..m - 1 : f[k] = IF k = 1 THEN seqs[k] ELSE f[k - 1] \o seqs[k]
        BY <2>2 DEF Flattens
    <2> DEFINE g == [k \in 1..m |-> IF k # m THEN f[k] ELSE
                                    IF k = 1 THEN seqs[k] ELSE f[k - 1] \o seqs[k]]
    <2>4. ASSUME NEW k \in 1..m
          PROVE  g[k] = IF k = 1 THEN seqs[k] ELSE g[k - 1] \o seqs[k]
        <3>1. k # m => k \in 1..m - 1
            BY <2>1
        <3>2. k # 1 => k - 1 \in 1..m /\ k - 1 # m /\ g[k - 1] = f[k - 1]
            BY <2>1
        <3> QED
            BY <2>3, <3>1, <3>2
    <2>5. g = [k \in 1..m |-> g[k]]
        OBVIOUS
    <2> HIDE DEF g
    <2>6. Flattens(g, seqs, m)
        BY <2>4, <2>5 DEF Flattens
    <2> QED
        BY <1>2, <2>6
<1> QED
    BY <1>3, <1>4

SameTo(n, one, two) == \A k \in 1..n : one[k] = two[k]

\* It says the same of two beginnings that are the same.
LEMMA FlattensUnique ==
    ASSUME NEW one, NEW two, NEW n \in Nat, NEW m \in Nat, NEW f, NEW g,
           Flattens(f, one, m), Flattens(g, two, n), m <= n, SameTo(m, one, two)
    PROVE  SameTo(m, f, g)
<1> USE DEF SameTo
<1>1. \A k \in 1..m : f[k] = IF k = 1 THEN one[k] ELSE f[k - 1] \o one[k]
    BY DEF Flattens
<1>2. \A k \in 1..n : g[k] = IF k = 1 THEN two[k] ELSE g[k - 1] \o two[k]
    BY DEF Flattens
<1> DEFINE T == {k \in 1..m : f[k] # g[k]}
<1> SUFFICES ASSUME T # {} PROVE FALSE
    OBVIOUS
<1>3. T \in SUBSET Nat
    OBVIOUS
<1>4. PICK k \in T : \A q \in T : k <= q
    <2> HIDE DEF T
    <2> QED
        BY <1>3, Least
<1>5. k \in 1..m /\ k \in 1..n /\ f[k] # g[k]
    OBVIOUS
<1>6. k # 1 => k - 1 \in 1..m /\ ~(k <= k - 1)
    BY <1>5
<1>7. k # 1 => f[k - 1] = g[k - 1]
    BY <1>4, <1>6
<1> QED
    BY <1>1, <1>2, <1>5, <1>7

firstOf(seqs, n) == FlattenSeq(SubSeq(seqs, 1, n))

\* FlattenSeq puts one sequence after the other.
LEMMA FlattenOneMore ==
    ASSUME NEW S, NEW seqs \in Seq(Seq(S))
    PROVE  /\ firstOf(seqs, 0) = <<>> /\ firstOf(seqs, Len(seqs)) = FlattenSeq(seqs)
           /\ \A n \in 0..Len(seqs) : firstOf(seqs, n) \in Seq(S)
           /\ \A n \in 1..Len(seqs) : firstOf(seqs, n) = firstOf(seqs, n - 1) \o seqs[n]
<1>1. Len(seqs) \in Nat /\ \A k \in 1..Len(seqs) : seqs[k] \in Seq(S)
    BY LenProperties, ElementOfSeq
<1>2. PICK f : Flattens(f, seqs, Len(seqs))
    BY <1>1, FlattensExists
<1>3. \A k \in 1..Len(seqs) : f[k] = IF k = 1 THEN seqs[k] ELSE f[k - 1] \o seqs[k]
    BY <1>2 DEF Flattens
<1>4. firstOf(seqs, 0) = <<>>
    <2>1. SubSeq(seqs, 1, 0) = <<>> /\ Len(<<>>) = 0
        BY SubSeqEmpty
    <2> QED
        BY <2>1 DEF firstOf, FlattenSeq
<1>5. ASSUME NEW n \in 1..Len(seqs) PROVE firstOf(seqs, n) = f[n]
    <2> DEFINE t == SubSeq(seqs, 1, n)
               g == CHOOSE g : Flattens(g, t, n)
    <2>1. n \in Nat /\ n # 0 /\ n <= Len(seqs) /\ n \in 1..n
        BY <1>1
    <2>2. Len(t) = n /\ \A k \in 1..n : t[k] = seqs[k]
        BY <1>1, SubSeqProperties
    <2> HIDE DEF t
    <2>3. FlattenSeq(t) = g[n]
        BY <2>1, <2>2, Zenon DEF FlattenSeq, Flattens
    <2>4. Flattens(g, t, n)
        <3>1. \E h : Flattens(h, t, n)
            BY <2>1, FlattensExists
        <3> QED
            BY <3>1
    <2> HIDE DEF g
    <2>5. SameTo(n, g, f)
        <3>1. Len(seqs) \in Nat /\ n <= Len(seqs) /\ n \in Nat
            BY <1>1, <2>1
        <3>2. SameTo(n, t, seqs)
            BY <2>2 DEF SameTo
        <3> QED
            BY <1>2, <2>4, <3>1, <3>2, FlattensUnique
    <2> QED
        BY <2>1, <2>3, <2>5 DEF t, firstOf, SameTo
<1>6. firstOf(seqs, Len(seqs)) = FlattenSeq(seqs)
    BY SubSeqFull DEF firstOf
<1>7. ASSUME NEW n \in 1..Len(seqs)
      PROVE  firstOf(seqs, n) = firstOf(seqs, n - 1) \o seqs[n]
    <2>1. CASE n = 1
        <3>1. firstOf(seqs, 1) = seqs[1] /\ firstOf(seqs, 1 - 1) = <<>>
            BY <1>3, <1>4, <1>5, <2>1
        <3>2. <<>> \o seqs[1] = seqs[1]
            BY <1>1, <2>1, ConcatEmptySeq
        <3> QED
            BY <2>1, <3>1, <3>2
    <2>2. CASE n # 1
        <3>1. n - 1 \in 1..Len(seqs)
            BY <1>1, <2>2
        <3> QED
            BY <1>3, <1>5, <2>2, <3>1
    <2> QED
        BY <2>1, <2>2
<1>8. ASSUME NEW n \in 0..Len(seqs) PROVE firstOf(seqs, n) \in Seq(S)
    <2> DEFINE T == {m \in 0..Len(seqs) : firstOf(seqs, m) \notin Seq(S)}
    <2> SUFFICES ASSUME T # {} PROVE FALSE
        OBVIOUS
    <2>1. T \in SUBSET Nat
        BY <1>1
    <2>2. PICK m \in T : \A q \in T : m <= q
        <3> HIDE DEF T
        <3> QED
            BY <2>1, Least
    <2>3. m # 0
        <3>1. <<>> \in Seq(S)
            OBVIOUS
        <3> QED
            BY <1>4, <2>2, <3>1
    <2>4. m \in 1..Len(seqs) /\ m - 1 \in 0..Len(seqs) /\ ~(m <= m - 1)
        BY <1>1, <2>3
    <2>5. firstOf(seqs, m - 1) \in Seq(S)
        BY <2>2, <2>4
    <2> QED
        BY <1>1, <1>7, <2>4, <2>5, ConcatProperties
<1> QED
    BY <1>4, <1>6, <1>7, <1>8

\* Where each sequence is one element of t, they make up a piece of t.
LEMMA SinglesStay ==
    ASSUME NEW S, NEW t \in Seq(S), NEW ss \in Seq(Seq(S)), Len(ss) = Len(t),
           NEW q \in 1..Len(t) + 1, NEW e \in q - 1..Len(t),
           \A p \in q..e : ss[p] = <<t[p]>>
    PROVE  firstOf(ss, e) = firstOf(ss, q - 1) \o SubSeq(t, q, e)
<1> DEFINE base == firstOf(ss, q - 1)
           T == {p \in q - 1..e : firstOf(ss, p) # base \o SubSeq(t, q, p)}
           Wrong(p) == firstOf(ss, p) # base \o SubSeq(t, q, p)
<1>1. Len(t) \in Nat /\ \A p \in 1..Len(t) : t[p] \in S
    BY LenProperties, ElementOfSeq
<1>2. /\ \A p \in 0..Len(t) : firstOf(ss, p) \in Seq(S)
      /\ \A p \in 1..Len(t) : firstOf(ss, p) = firstOf(ss, p - 1) \o ss[p]
    <2>1. /\ \A p \in 0..Len(ss) : firstOf(ss, p) \in Seq(S)
          /\ \A p \in 1..Len(ss) : firstOf(ss, p) = firstOf(ss, p - 1) \o ss[p]
        BY FlattenOneMore
    <2> QED
        BY <2>1
<1>3. base \in Seq(S)
    BY <1>1, <1>2
<1> SUFFICES ASSUME T # {} PROVE FALSE
    <2>1. e \in q - 1..e
        BY <1>1
    <2>2. T = {} => firstOf(ss, e) = base \o SubSeq(t, q, e)
        BY <2>1
    <2> QED
        BY <2>2
<1>4. T \in SUBSET Nat
    BY <1>1
<1>5. PICK p \in T : \A j \in T : p <= j
    <2> HIDE DEF T
    <2> QED
        BY <1>4, Least
<1>6. p \in q - 1..e /\ Wrong(p) /\ \A j \in q - 1..e : Wrong(j) => p <= j
    BY <1>5
<1> HIDE DEF base, T
<1>7. p # q - 1
    <2>1. SubSeq(t, q, q - 1) = <<>>
        BY SubSeqEmpty
    <2>2. base \o <<>> = base
        BY <1>3, ConcatEmptySeq
    <2>3. firstOf(ss, q - 1) = base \o SubSeq(t, q, q - 1)
        BY <2>1, <2>2 DEF base
    <2> QED
        BY <1>6, <2>3
<1>8. /\ p \in q..e /\ p \in 1..Len(t) /\ q \in 1..Len(t) /\ p \in q..Len(t)
      /\ p - 1 \in q - 1..e /\ ~(p <= p - 1)
    <2> HIDE DEF Wrong
    <2>1. p \in q - 1..e
        BY <1>6
    <2>2. p \in Int /\ q \in Int /\ e \in Int /\ 1 <= q /\ q <= p /\ p <= e /\ e <= Len(t)
        BY <1>1, <1>7, <2>1
    <2> QED
        BY <1>1, <2>2
<1>9. firstOf(ss, p - 1) = base \o SubSeq(t, q, p - 1)
    BY <1>6, <1>8
<1>10. firstOf(ss, p) = firstOf(ss, p - 1) \o <<t[p]>>
    BY <1>2, <1>8
<1>11. SubSeq(t, q, p) = SubSeq(t, q, p - 1) \o <<t[p]>>
    BY <1>8, SubSeqRecursiveSecond
<1>12. SubSeq(t, q, p - 1) \in Seq(S) /\ <<t[p]>> \in Seq(S)
    <2>1. \A j \in q..p - 1 : t[j] \in S
        BY <1>1, <1>8
    <2>2. SubSeq(t, q, p - 1) \in Seq(S)
        BY <1>1, <1>8, <2>1, SubSeqProperties
    <2>3. t[p] \in S
        BY <1>1, <1>8
    <2> QED
        BY <2>2, <2>3
<1>13. Associative(base, SubSeq(t, q, p - 1), <<t[p]>>)
    <2> DEFINE u == SubSeq(t, q, p - 1)
               v == <<t[p]>>
    <2>1. u \in Seq(S) /\ v \in Seq(S)
        BY <1>12
    <2> HIDE DEF u, v, Wrong
    <2>2. Associative(base, u, v)
        BY <1>3, <2>1, ConcatIsAssociative
    <2> QED
        BY <2>2 DEF u, v
<1> QED
    BY <1>6, <1>9, <1>10, <1>11, <1>13 DEF Associative

\* Where each sequence is empty, nothing is added.
LEMMA EmptiesVanish ==
    ASSUME NEW S, NEW ss \in Seq(Seq(S)), NEW q \in 0..Len(ss), NEW e \in q..Len(ss),
           \A p \in q + 1..e : ss[p] = <<>>
    PROVE  firstOf(ss, e) = firstOf(ss, q)
<1> DEFINE T == {p \in q..e : firstOf(ss, p) # firstOf(ss, q)}
           Wrong(p) == firstOf(ss, p) # firstOf(ss, q)
<1>1. Len(ss) \in Nat
    BY LenProperties
<1>2. /\ \A p \in 0..Len(ss) : firstOf(ss, p) \in Seq(S)
      /\ \A p \in 1..Len(ss) : firstOf(ss, p) = firstOf(ss, p - 1) \o ss[p]
    BY FlattenOneMore
<1> SUFFICES ASSUME T # {} PROVE FALSE
    <2>1. e \in q..e
        BY <1>1
    <2> QED
        BY <2>1
<1>3. T \in SUBSET Nat
    BY <1>1
<1>4. PICK p \in T : \A j \in T : p <= j
    <2> HIDE DEF T
    <2> QED
        BY <1>3, Least
<1>5. p \in q..e /\ Wrong(p) /\ \A j \in q..e : Wrong(j) => p <= j
    BY <1>4
<1> HIDE DEF T
<1>6. p # q
    BY <1>5
<1>7. p \in q + 1..e /\ p \in 1..Len(ss) /\ p - 1 \in q..e /\ p - 1 \in 0..Len(ss) /\ ~(p <= p - 1)
    <2> HIDE DEF Wrong
    <2> QED
        BY <1>1, <1>5, <1>6
<1>8. firstOf(ss, p - 1) = firstOf(ss, q)
    BY <1>5, <1>7
<1>9. firstOf(ss, p) = firstOf(ss, p - 1) \o <<>>
    BY <1>2, <1>7
<1>10. firstOf(ss, p - 1) \o <<>> = firstOf(ss, p - 1)
    BY <1>2, <1>7, ConcatEmptySeq
<1> QED
    BY <1>5, <1>8, <1>9, <1>10

-----------------------------------------------------------------------------
(* The table *)

\* The localizer refers to inner maps of its own only, which hold what the
\* application's held at New; there is nothing to refer to before.
OwnMapsInv ==
    /\ DOMAIN heap = {appMap(l) : l \in Locales} \cup {ownMap(l) : l \in Locales}
    /\ heap = [m \in DOMAIN heap |-> heap[m]]
    /\ appOuter \subseteq Locales
    /\ outer # Absent =>
         /\ DOMAIN given \subseteq Locales
         /\ outer = [l \in DOMAIN given |-> ownMap(l)]
         /\ \A l \in DOMAIN given : heap[ownMap(l)] = given[l]

\* An inner map of the application is never one of the localizer's.
LEMMA MapsApart == ASSUME NEW l, NEW k PROVE appMap(l) # ownMap(k)
BY DEF appMap, ownMap

\* New copies every inner map into one of the localizer's own.
LEMMA NewCopiesAll ==
    ASSUME OwnMapsInv, New PROVE OwnMapsInv'
<1>1. /\ appOuter' = appOuter
      /\ outer' = [l \in appOuter |-> ownMap(l)]
      /\ heap' = [m \in DOMAIN heap |->
                    IF m[1] = "own" /\ m[2] \in appOuter THEN heap[appMap(m[2])] ELSE heap[m]]
      /\ given' = [l \in appOuter |-> heap[appMap(l)]]
    BY DEF New
<1>2. DOMAIN heap' = DOMAIN heap /\ heap' = [m \in DOMAIN heap' |-> heap'[m]]
    BY <1>1
<1>3. DOMAIN given' = appOuter /\ appOuter \subseteq Locales
    BY <1>1 DEF OwnMapsInv
<1>4. ASSUME NEW l \in appOuter PROVE heap'[ownMap(l)] = given'[l]
    <2>1. ownMap(l) \in DOMAIN heap
        BY <1>3 DEF OwnMapsInv
    <2>2. ownMap(l)[1] = "own" /\ ownMap(l)[2] = l
        BY DEF ownMap
    <2> QED
        BY <1>1, <2>1, <2>2
<1> QED
    BY <1>1, <1>2, <1>3, <1>4 DEF OwnMapsInv

\* The application edits inner maps of its own only.
LEMMA EditStaysApart ==
    ASSUME OwnMapsInv, NEW l \in Locales, EditInner(l) PROVE OwnMapsInv'
<1>1. /\ heap' = [heap EXCEPT ![appMap(l)] = Edited]
      /\ appOuter' = appOuter /\ outer' = outer /\ given' = given
    BY DEF EditInner, built
<1>2. DOMAIN heap' = DOMAIN heap /\ heap' = [m \in DOMAIN heap' |-> heap'[m]]
    BY <1>1
<1>3. ASSUME outer # Absent, NEW k \in DOMAIN given PROVE heap'[ownMap(k)] = heap[ownMap(k)]
    <2>1. ownMap(k) \in DOMAIN heap
        BY <1>3 DEF OwnMapsInv
    <2> QED
        BY <1>1, <2>1, MapsApart
<1> QED
    BY <1>1, <1>2, <1>3 DEF OwnMapsInv

\* Every step keeps the two sets of maps apart.
LEMMA StepKeepsOwnMapsInv == OwnMapsInv /\ [Next]_vars => OwnMapsInv'
<1> SUFFICES ASSUME OwnMapsInv, [Next]_vars PROVE OwnMapsInv'
    OBVIOUS
<1>1. CASE New
    BY <1>1, NewCopiesAll
<1>2. ASSUME NEW l \in Locales, EditInner(l) PROVE OwnMapsInv'
    BY <1>2, EditStaysApart
<1>3. ASSUME NEW l \in Locales, DropLocale(l) PROVE OwnMapsInv'
    BY <1>3 DEF DropLocale, OwnMapsInv, built
<1>4. CASE UNCHANGED <<app, built>>
    BY <1>4 DEF OwnMapsInv, app, built
<1>5. Lookup \/ CopyByte \/ CopyTail \/ Fill \/ EndScan => UNCHANGED <<app, built>>
    BY DEF Lookup, CopyByte, CopyTail, Fill, EndScan
<1>6. ASSUME NEW n \in Names, NEW v \in Values, Param(n, v) PROVE UNCHANGED <<app, built>>
    BY <1>6 DEF Param
<1> QED
    BY <1>1, <1>2, <1>3, <1>4, <1>5, <1>6 DEF Next, Step, vars

\* Nothing the application does to the table it has passed to New reaches a
\* lookup, for tables of any size and any sequence of edits.
THEOREM TablesAreFrozen == Spec => []TableIsFrozen
<1>1. Init => OwnMapsInv
    <2> SUFFICES ASSUME Init PROVE OwnMapsInv
        OBVIOUS
    <2>1. outer = Absent /\ appOuter = Locales
        BY DEF Init
    <2>2. PICK q \in Requests :
            heap = [m \in {appMap(l) : l \in Locales} \cup {ownMap(l) : l \in Locales} |->
                      IF m[1] = "app" /\ m[2] \in q.translated THEN q.words ELSE Absent]
        BY DEF Init
    <2> QED
        BY <2>1, <2>2 DEF OwnMapsInv
<1>2. OwnMapsInv => TableIsFrozen
    <2> SUFFICES ASSUME OwnMapsInv, outer # Absent, NEW l \in Locales
                 PROVE  found(l) = IF l \in DOMAIN given THEN given[l] ELSE Absent
        BY DEF TableIsFrozen
    <2>1. DOMAIN outer = DOMAIN given /\ \A k \in DOMAIN given : outer[k] = ownMap(k)
        BY DEF OwnMapsInv
    <2> QED
        BY <2>1 DEF found, OwnMapsInv
<1> QED
    BY <1>1, <1>2, StepKeepsOwnMapsInv, PTL DEF Spec

-----------------------------------------------------------------------------
(* The scan *)

\* What the localizer holds and the request brings are texts.
TextsInv ==
    /\ OwnMapsInv
    /\ \A m \in DOMAIN heap : heap[m] \in Seq(Chars) \cup {Absent}
    /\ pc = "new" => outer = Absent
    /\ pc # "new" => DOMAIN given \subseteq Locales /\ outer = [l \in DOMAIN given |-> ownMap(l)]
    /\ words \in Seq(Chars) /\ strict \in BOOLEAN
    /\ DOMAIN params \subseteq Names /\ \A n \in DOMAIN params : params[n] \in Seq(Chars)

\* The scan has a place in its template.
PlaceInv ==
    /\ pc \in {"new", "build", "scan", "done"} /\ scanner \in {"core", "mapl"}
    /\ tmpl \in Seq(Chars) /\ out \in Seq(Chars) /\ i \in 1..Len(tmpl) + 1
    /\ pc \in {"new", "build"} => i = 1 /\ out = <<>>

\* A lookup finds a text or nothing.
LEMMA FoundIsText ==
    ASSUME TextsInv, pc # "new", NEW l
    PROVE  found(l) \in Seq(Chars) \cup {Absent}
<1>1. CASE l \in DOMAIN outer
    <2>1. l \in Locales /\ outer[l] = ownMap(l)
        BY <1>1 DEF TextsInv
    <2>2. ownMap(l) \in DOMAIN heap
        BY <2>1 DEF TextsInv, OwnMapsInv
    <2> QED
        BY <1>1, <2>1, <2>2 DEF found, TextsInv
<1>2. CASE l \notin DOMAIN outer
    BY <1>2 DEF found
<1> QED
    BY <1>1, <1>2

\* What Lookup takes for a template.
LEMMA LookupTakesText ==
    ASSUME TextsInv, Lookup
    PROVE  tmpl' \in Seq(Chars)
<1>1. pc # "new" /\ tmpl' = IF found(locale) # Absent THEN found(locale) ELSE words
    BY DEF Lookup
<1>2. found(locale) \in Seq(Chars) \cup {Absent}
    BY <1>1, FoundIsText
<1> QED
    BY <1>1, <1>2 DEF TextsInv

\* Every step keeps what is held and given a text.
LEMMA StepKeepsTextsInv == TextsInv /\ [Next]_vars => TextsInv'
<1> SUFFICES ASSUME TextsInv, [Next]_vars PROVE TextsInv'
    OBVIOUS
<1>1. OwnMapsInv'
    BY StepKeepsOwnMapsInv DEF TextsInv
<1>2. CASE New
    <2>1. /\ pc = "new" /\ pc' = "build"
          /\ outer' = [l \in appOuter |-> ownMap(l)]
          /\ heap' = [m \in DOMAIN heap |->
                        IF m[1] = "own" /\ m[2] \in appOuter THEN heap[appMap(m[2])] ELSE heap[m]]
          /\ given' = [l \in appOuter |-> heap[appMap(l)]]
          /\ UNCHANGED <<words, strict, params>>
        BY <1>2 DEF New, request
    <2>2. ASSUME NEW m \in DOMAIN heap PROVE heap'[m] \in Seq(Chars) \cup {Absent}
        <3>1. CASE m[1] = "own" /\ m[2] \in appOuter
            <4>1. heap'[m] = heap[appMap(m[2])] /\ appMap(m[2]) \in DOMAIN heap
                BY <2>1, <3>1 DEF TextsInv, OwnMapsInv
            <4> QED
                BY <4>1 DEF TextsInv
        <3>2. CASE ~(m[1] = "own" /\ m[2] \in appOuter)
            BY <2>1, <3>2 DEF TextsInv
        <3> QED
            BY <3>1, <3>2
    <2>3. DOMAIN given' = appOuter /\ appOuter \subseteq Locales /\ DOMAIN heap' = DOMAIN heap
        BY <2>1 DEF TextsInv, OwnMapsInv
    <2> QED
        BY <1>1, <2>1, <2>2, <2>3 DEF TextsInv
<1>3. ASSUME NEW l \in Locales, EditInner(l) PROVE TextsInv'
    <2>1. /\ heap' = [heap EXCEPT ![appMap(l)] = Edited]
          /\ UNCHANGED <<outer, given, words, strict, params, pc>>
        BY <1>3 DEF EditInner, built, request
    <2>2. \A m \in DOMAIN heap' : heap'[m] \in Seq(Chars) \cup {Absent}
        BY <2>1, TextsAssumption DEF TextsInv
    <2> QED
        BY <1>1, <2>1, <2>2 DEF TextsInv
<1>4. ASSUME NEW l \in Locales, DropLocale(l) PROVE TextsInv'
    BY <1>1, <1>4 DEF DropLocale, built, request, TextsInv
<1>5. ASSUME NEW n \in Names, NEW v \in Values, Param(n, v) PROVE TextsInv'
    <2>1. /\ params' = [m \in DOMAIN params \cup {n} |-> IF m = n THEN v ELSE params[m]]
          /\ UNCHANGED <<heap, outer, given, words, strict, pc>>
        BY <1>5 DEF Param, app, built, request
    <2>2. DOMAIN params' \subseteq Names /\ \A m \in DOMAIN params' : params'[m] \in Seq(Chars)
        BY <2>1, TextsAssumption DEF TextsInv
    <2> QED
        BY <1>1, <2>1, <2>2 DEF TextsInv
<1>6. CASE UNCHANGED <<app, built, request, params>> /\ (pc' = "new" <=> pc = "new")
    BY <1>1, <1>6 DEF TextsInv, app, built, request
<1>7. ASSUME Lookup \/ CopyByte \/ CopyTail \/ Fill \/ EndScan
      PROVE  UNCHANGED <<app, built, request, params>> /\ (pc' = "new" <=> pc = "new")
    BY <1>7 DEF Lookup, CopyByte, CopyTail, Fill, EndScan, Scanning
<1> QED
    BY <1>2, <1>3, <1>4, <1>5, <1>6, <1>7 DEF Next, Step, vars

\* rest, the part of the template that the scan has ahead.
LEMMA RestOfTemplate ==
    ASSUME PlaceInv
    PROVE  /\ Len(tmpl) \in Nat /\ i \in Nat /\ i >= 1
           /\ rest \in Seq(Chars) /\ Len(rest) = Len(tmpl) - i + 1
           /\ \A k \in 1..Len(rest) : rest[k] = tmpl[i + k - 1]
<1>1. Len(tmpl) \in Nat /\ \A p \in 1..Len(tmpl) : tmpl[p] \in Chars
    BY LenProperties, ElementOfSeq DEF PlaceInv
<1>2. i \in Nat /\ i >= 1 /\ i <= Len(tmpl) + 1
    BY <1>1 DEF PlaceInv
<1>3. \A p \in i..Len(tmpl) : tmpl[p] \in Chars
    BY <1>1, <1>2
<1>4. /\ SubSeq(tmpl, i, Len(tmpl)) \in Seq(Chars)
      /\ Len(SubSeq(tmpl, i, Len(tmpl))) = IF i <= Len(tmpl) THEN Len(tmpl) - i + 1 ELSE 0
      /\ \A k \in 1..Len(tmpl) - i + 1 : SubSeq(tmpl, i, Len(tmpl))[k] = tmpl[i + k - 1]
    BY <1>1, <1>2, <1>3, SubSeqProperties
<1>5. (IF i <= Len(tmpl) THEN Len(tmpl) - i + 1 ELSE 0) = Len(tmpl) - i + 1
    BY <1>1, <1>2
<1> QED
    BY <1>1, <1>2, <1>4, <1>5 DEF rest

\* A brace that closes opens nothing.
LEMMA BracesDiffer == OpenBrace # CloseBrace
BY DEF OpenBrace, CloseBrace

\* closing is where the first closing brace after i is, seen from i.
LEMMA ClosingBrace ==
    ASSUME PlaceInv, tmpl[i] = OpenBrace
    PROVE  /\ closing \in Nat
           /\ closing = 0 => closes(tmpl, i) = {}
           /\ closing # 0 =>
                LET e == i + closing - 1
                IN  e \in closes(tmpl, i) /\ Min(closes(tmpl, i)) = e
<1> DEFINE I == {k \in 1..Len(rest) : rest[k] = CloseBrace}
           C == closes(tmpl, i)
<1>1. /\ Len(tmpl) \in Nat /\ i \in Nat /\ i >= 1
      /\ Len(rest) \in Nat /\ Len(rest) = Len(tmpl) - i + 1
    BY RestOfTemplate, LenProperties
<1>2. \A k \in 1..Len(rest) : rest[k] = tmpl[i + k - 1]
    BY RestOfTemplate
<1>3. closing = IF I # {} THEN Min(I) ELSE 0
    BY DEF closing, SelectInSeq
<1> HIDE DEF I, C
<1>4. ASSUME NEW j \in C PROVE j \in Nat /\ j - i + 1 \in I
    <2>1. j \in i + 1..Len(tmpl) /\ tmpl[j] = CloseBrace
        BY DEF C, closes
    <2>2. j \in Nat /\ j - i + 1 \in 1..Len(rest) /\ i + (j - i + 1) - 1 = j
        BY <1>1, <2>1
    <2>3. rest[j - i + 1] = tmpl[j]
        BY <1>2, <2>2
    <2> QED
        BY <2>1, <2>2, <2>3 DEF I
<1>5. ASSUME NEW k \in I PROVE k \in Nat /\ k # 0 /\ i + k - 1 \in C
    <2>1. k \in 1..Len(rest) /\ tmpl[i + k - 1] = CloseBrace
        BY <1>2 DEF I
    <2>2. k \in Nat /\ k >= 1 /\ k <= Len(rest)
        BY <1>1, <2>1
    <2>3. k # 1
        <3>1. k = 1 => i + k - 1 = i
            BY <1>1
        <3> QED
            BY <2>1, <3>1, BracesDiffer
    <2>4. i + k - 1 \in i + 1..Len(tmpl)
        BY <1>1, <2>2, <2>3
    <2> QED
        BY <2>1, <2>2, <2>4 DEF C, closes
<1>6. CASE I = {}
    <2>1. closing = 0 /\ C = {}
        BY <1>3, <1>4, <1>6
    <2> QED
        BY <2>1 DEF C
<1>7. CASE I # {}
    <2>1. I \in SUBSET Nat
        BY <1>5
    <2>2. PICK c \in I : \A k \in I : c <= k
        BY <1>7, <2>1, Least
    <2>3. Min(I) \in I /\ \A k \in I : Min(I) <= k
        BY <2>2 DEF Min
    <2>4. closing \in I /\ closing # 0 /\ closing \in Nat /\ \A k \in I : closing <= k
        BY <1>3, <1>5, <1>7, <2>3
    <2> DEFINE e == i + closing - 1
    <2>5. e \in C /\ e \in Int
        BY <1>1, <1>5, <2>4
    <2>6. ASSUME NEW j \in C PROVE e <= j
        <3>1. closing <= j - i + 1 /\ j \in Nat
            BY <1>4, <2>4
        <3> QED
            BY <1>1, <2>4, <3>1
    <2> HIDE DEF e
    <2>7. ASSUME NEW m \in C, \A j \in C : m <= j PROVE m = e
        <3>1. m <= e /\ e <= m /\ m \in Nat
            BY <1>4, <2>5, <2>6, <2>7
        <3> QED
            BY <2>5, <3>1
    <2>8. Min(C) = e
        BY <2>5, <2>6, <2>7 DEF Min
    <2> QED
        BY <2>4, <2>5, <2>8 DEF e, C
<1> QED
    BY <1>6, <1>7

\* Every step keeps the scan inside its template.
LEMMA StepKeepsPlaceInv == TextsInv /\ PlaceInv /\ [Next]_vars => PlaceInv'
<1> SUFFICES ASSUME TextsInv, PlaceInv, [Next]_vars PROVE PlaceInv'
    OBVIOUS
<1>1. CASE New
    BY <1>1 DEF New, PlaceInv, scanned
<1>2. CASE Lookup
    <2>1. tmpl' \in Seq(Chars) /\ Len(tmpl') \in Nat
        BY <1>2, LookupTakesText, LenProperties
    <2>2. /\ i' = i /\ i = 1 /\ out' \in {out, tmpl'} /\ pc' \in {"scan", "done"}
          /\ scanner' \in {"core", "mapl"}
        BY <1>2 DEF Lookup, PlaceInv
    <2>3. i' \in 1..Len(tmpl') + 1
        BY <2>1, <2>2
    <2> QED
        BY <2>1, <2>2, <2>3 DEF PlaceInv
<1>3. CASE CopyByte
    <2>1. /\ tmpl' = tmpl /\ scanner' = scanner /\ pc' = pc /\ pc = "scan"
          /\ i <= Len(tmpl) /\ out' = Append(out, tmpl[i]) /\ i' = i + 1
        BY <1>3 DEF CopyByte, Scanning, scanned
    <2>2. Len(tmpl) \in Nat /\ i \in 1..Len(tmpl) /\ tmpl[i] \in Chars
        BY <2>1, RestOfTemplate, ElementOfSeq DEF PlaceInv
    <2>3. out' \in Seq(Chars)
        BY <2>1, <2>2, AppendProperties DEF PlaceInv
    <2>4. i' \in 1..Len(tmpl) + 1
        BY <2>1, <2>2
    <2> QED
        BY <2>1, <2>3, <2>4 DEF PlaceInv
<1>4. CASE CopyTail
    <2>1. UNCHANGED <<tmpl, scanner, i>> /\ pc' = "done" /\ out' = out \o rest
        BY <1>4 DEF CopyTail, scanned
    <2>2. out' \in Seq(Chars)
        BY <2>1, RestOfTemplate, ConcatProperties DEF PlaceInv
    <2> QED
        BY <2>1, <2>2 DEF PlaceInv
<1>5. CASE Fill
    <2>1. /\ UNCHANGED <<tmpl, scanner, pc>> /\ pc = "scan" /\ i <= Len(tmpl)
          /\ tmpl[i] = OpenBrace /\ closing # 0
          /\ out' = out \o filled /\ i' = i + closing
        BY <1>5 DEF Fill, Scanning, scanned
    <2> DEFINE e == i + closing - 1
    <2>2. Len(tmpl) \in Nat /\ e \in i + 1..Len(tmpl) /\ i \in 1..Len(tmpl)
        <3>1. e \in closes(tmpl, i)
            BY <2>1, ClosingBrace
        <3>2. Len(tmpl) \in Nat /\ i \in 1..Len(tmpl)
            BY <2>1, RestOfTemplate DEF PlaceInv
        <3> QED
            BY <3>1, <3>2 DEF closes
    <2>3. closing \in Nat
        BY <2>1, ClosingBrace
    <2>4. i' = e + 1 /\ i' \in 1..Len(tmpl) + 1
        BY <2>1, <2>2, <2>3
    <2>5. filled \in Seq(Chars)
        <3>1. SubSeq(tmpl, i, i + closing - 1) \in Seq(Chars)
            <4>1. \A p \in i..e : tmpl[p] \in Chars
                <5>1. \A p \in i..e : p \in 1..Len(tmpl)
                    BY <2>2
                <5> QED
                    BY <5>1, ElementOfSeq DEF PlaceInv
            <4>2. i \in Int /\ e \in Int
                BY <2>2
            <4> QED
                BY <4>1, <4>2, SubSeqProperties
        <3>2. <<>> \in Seq(Chars)
            OBVIOUS
        <3> QED
            BY <3>1, <3>2 DEF filled, TextsInv
    <2>6. out' \in Seq(Chars)
        BY <2>1, <2>5, ConcatProperties DEF PlaceInv
    <2> QED
        BY <2>1, <2>4, <2>6 DEF PlaceInv
<1>6. CASE EndScan
    BY <1>6 DEF EndScan, PlaceInv, scanned
<1>7. ASSUME NEW n \in Names, NEW v \in Values, Param(n, v) PROVE PlaceInv'
    BY <1>7 DEF Param, PlaceInv, scanned
<1>8. ASSUME NEW l \in Locales, EditInner(l) \/ DropLocale(l) PROVE PlaceInv'
    BY <1>8 DEF EditInner, DropLocale, PlaceInv, scanned
<1>9. CASE UNCHANGED vars
    BY <1>9 DEF vars, PlaceInv, scanned
<1> QED
    BY <1>1, <1>2, <1>3, <1>4, <1>5, <1>6, <1>7, <1>8, <1>9 DEF Next, Step

\* Both hold before New.
LEMMA InitiallyInPlace == Init => TextsInv /\ PlaceInv
<1> SUFFICES ASSUME Init PROVE TextsInv /\ PlaceInv
    OBVIOUS
<1>1. PICK q \in Requests :
        /\ words = q.words
        /\ heap = [m \in {appMap(l) : l \in Locales} \cup {ownMap(l) : l \in Locales} |->
                      IF m[1] = "app" /\ m[2] \in q.translated THEN q.words ELSE Absent]
    BY DEF Init
<1>2. /\ appOuter = Locales /\ outer = Absent /\ params = [n \in {} |-> <<>>]
      /\ strict \in BOOLEAN /\ pc = "new" /\ scanner = "core" /\ tmpl = <<>> /\ i = 1 /\ out = <<>>
    BY DEF Init
<1>3. OwnMapsInv
    BY <1>1, <1>2 DEF OwnMapsInv
<1>4. words \in Seq(Chars)
    BY <1>1, TextsAssumption
<1>5. \A m \in DOMAIN heap : heap[m] \in Seq(Chars) \cup {Absent}
    BY <1>1, TextsAssumption
<1>6. TextsInv
    BY <1>2, <1>3, <1>4, <1>5 DEF TextsInv
<1>7. PlaceInv
    BY <1>2 DEF PlaceInv
<1> QED
    BY <1>6, <1>7

\* Both hold from then on.
LEMMA PlaceInvHolds == Spec => [](TextsInv /\ PlaceInv)
BY InitiallyInPlace, StepKeepsTextsInv, StepKeepsPlaceInv, PTL DEF Spec

\* The scan stays inside its template and the localizer inside its maps, for
\* templates of any length and tables of any size.
THEOREM ScansStayInside == Spec => []TypeOK
<1>1. TextsInv /\ PlaceInv => TypeOK
    <2> SUFFICES ASSUME TextsInv, PlaceInv PROVE TypeOK
        OBVIOUS
    <2>1. ASSUME outer # Absent, NEW l \in DOMAIN outer
          PROVE  l \in Locales /\ outer[l] \in DOMAIN heap
        <3>1. l \in Locales /\ outer[l] = ownMap(l)
            BY <2>1 DEF TextsInv, OwnMapsInv
        <3> QED
            BY <3>1 DEF TextsInv, OwnMapsInv
    <2> QED
        BY <2>1 DEF TypeOK, TextsInv, OwnMapsInv, PlaceInv
<1> QED
    BY <1>1, PlaceInvHolds, PTL

-----------------------------------------------------------------------------
(* What a scan makes of a template *)

PiecesOf(t, v) == [p \in DOMAIN t |-> PieceAt(t, p, v)]

\* Every brace that opens within the first n characters is closed within them.
ClosedBy(t, n) == \A q \in 1..n : t[q] = OpenBrace => \E e \in closes(t, q) : e <= n

\* What closes a brace comes after it.
LEMMA ClosesAfter ==
    ASSUME NEW t \in Seq(Chars), NEW p \in 1..Len(t)
    PROVE  /\ closes(t, p) \subseteq Nat
           /\ \A e \in closes(t, p) : e > p /\ e <= Len(t) /\ t[e] = CloseBrace
BY LenProperties DEF closes

\* Of the braces that close one, there is a first.
LEMMA FirstClosing ==
    ASSUME NEW t \in Seq(Chars), NEW p \in 1..Len(t), closes(t, p) # {}
    PROVE  /\ Min(closes(t, p)) \in closes(t, p)
           /\ \A j \in closes(t, p) : Min(closes(t, p)) <= j
<1>1. closes(t, p) \in SUBSET Nat
    BY ClosesAfter
<1>2. PICK c \in closes(t, p) : \A j \in closes(t, p) : c <= j
    BY <1>1, Least
<1> QED
    BY <1>2 DEF Min

\* There is a text for every character of a template.
LEMMA PiecesAreTexts ==
    ASSUME TextsInv, NEW t \in Seq(Chars), NEW v
    PROVE  /\ PiecesOf(t, v) \in Seq(Seq(Chars)) /\ Len(PiecesOf(t, v)) = Len(t)
           /\ \A p \in 1..Len(t) : PiecesOf(t, v)[p] = PieceAt(t, p, v)
<1>1. Len(t) \in Nat /\ DOMAIN t = 1..Len(t) /\ \A p \in 1..Len(t) : t[p] \in Chars
    BY LenProperties, ElementOfSeq
<1>2. ASSUME NEW p \in 1..Len(t) PROVE PieceAt(t, p, v) \in Seq(Chars)
    <2>1. ASSUME p \in Placeholders(t) PROVE SubSeq(t, p, Min(closes(t, p))) \in Seq(Chars)
        <3> DEFINE e == Min(closes(t, p))
        <3>1. closes(t, p) # {}
            BY <2>1 DEF Placeholders
        <3>2. e \in closes(t, p)
            BY <3>1, FirstClosing
        <3>3. e \in Nat /\ e <= Len(t)
            BY <3>2, ClosesAfter
        <3> HIDE DEF e
        <3>4. \A k \in p..e : t[k] \in Chars
            BY <1>1, <3>3
        <3>5. SubSeq(t, p, e) \in Seq(Chars)
            BY <1>1, <3>3, <3>4, SubSeqProperties
        <3> QED
            BY <3>5 DEF e
    <2>2. <<>> \in Seq(Chars) /\ <<t[p]>> \in Seq(Chars)
        BY <1>1
    <2>3. \A n \in DOMAIN params : params[n] \in Seq(Chars)
        BY DEF TextsInv
    <2> QED
        BY <2>1, <2>2, <2>3 DEF PieceAt
<1>3. \A p \in 1..Len(t) : PiecesOf(t, v)[p] = PieceAt(t, p, v)
    BY <1>1 DEF PiecesOf
<1>4. PiecesOf(t, v) \in [1..Len(t) -> Seq(Chars)]
    BY <1>1, <1>2 DEF PiecesOf
<1> HIDE DEF PiecesOf
<1>5. PiecesOf(t, v) \in Seq(Seq(Chars))
    BY <1>1, <1>4, SeqDef
<1>6. Len(PiecesOf(t, v)) = Len(t)
    BY <1>1, <1>4, <1>5, LenProperties
<1> QED
    BY <1>3, <1>5, <1>6

\* No placeholder from before reaches a character after its closing brace.
LEMMA NothingReaches ==
    ASSUME NEW t \in Seq(Chars), NEW n \in 0..Len(t), ClosedBy(t, n),
           NEW h \in 1..n, h \in Placeholders(t)
    PROVE  Min(closes(t, h)) \in Nat /\ Min(closes(t, h)) <= n
<1>1. Len(t) \in Nat /\ h \in 1..Len(t) /\ n \in Nat
    BY LenProperties
<1>2. t[h] = OpenBrace
    BY DEF Placeholders
<1>3. PICK e \in closes(t, h) : e <= n
    BY <1>2 DEF ClosedBy
<1>4. Min(closes(t, h)) \in closes(t, h) /\ Min(closes(t, h)) <= e
    BY <1>1, <1>3, FirstClosing
<1>5. closes(t, h) \subseteq Nat
    BY <1>1, ClosesAfter
<1>6. Min(closes(t, h)) \in Nat /\ e \in Nat
    BY <1>3, <1>4, <1>5
<1> QED
    BY <1>1, <1>3, <1>4, <1>6

\* A character that opens nothing and that nothing open reaches is copied.
LEMMA PlainPiece ==
    ASSUME NEW t \in Seq(Chars), NEW p \in 1..Len(t), NEW v,
           ClosedBy(t, p - 1), t[p] # OpenBrace
    PROVE  PieceAt(t, p, v) = <<t[p]>>
<1>1. p \notin Placeholders(t)
    BY DEF Placeholders
<1>2. Len(t) \in Nat /\ p \in Nat /\ p - 1 \in 0..Len(t)
    BY LenProperties
<1>3. ASSUME NEW h \in Placeholders(t), h < p, p <= Min(closes(t, h)) PROVE FALSE
    <2>1. h \in 1..p - 1
        BY <1>2, <1>3, LenProperties DEF Placeholders
    <2>2. Min(closes(t, h)) \in Nat /\ Min(closes(t, h)) <= p - 1
        BY <1>2, <2>1, NothingReaches
    <2> QED
        BY <1>2, <1>3, <2>2
<1> QED
    BY <1>1, <1>3 DEF PieceAt

\* From a brace that nothing closes on, everything is copied.
LEMMA TailPiece ==
    ASSUME NEW t \in Seq(Chars), NEW q \in 1..Len(t), NEW p \in q..Len(t), NEW v,
           ClosedBy(t, q - 1), t[q] = OpenBrace, closes(t, q) = {}
    PROVE  PieceAt(t, p, v) = <<t[p]>>
<1>1. /\ Len(t) \in Nat /\ q \in Nat /\ q >= 1 /\ p \in Nat /\ q <= p /\ p <= Len(t)
      /\ q - 1 \in 0..Len(t) /\ p \in 1..Len(t)
    BY LenProperties
<1>2. ASSUME NEW h \in Placeholders(t) PROVE h \in Nat /\ h >= 1 /\ h < q
    <2>1. h \in 1..Len(t) /\ closes(t, h) # {}
        BY LenProperties DEF Placeholders
    <2>2. h # q
        BY <2>1
    <2>3. ~(q < h)
        <3> SUFFICES ASSUME q < h PROVE FALSE
            OBVIOUS
        <3>1. q \in 1..h - 1
            BY <1>1, <2>1
        <3> QED
            BY <3>1 DEF Placeholders
    <2> QED
        BY <1>1, <2>1, <2>2, <2>3
<1>3. p \notin Placeholders(t)
    BY <1>1, <1>2
<1>4. ASSUME NEW h \in Placeholders(t), h < p, p <= Min(closes(t, h)) PROVE FALSE
    <2>1. h \in 1..q - 1
        BY <1>1, <1>2
    <2>2. Min(closes(t, h)) \in Nat /\ Min(closes(t, h)) <= q - 1
        BY <1>1, <2>1, NothingReaches
    <2> QED
        BY <1>1, <1>4, <2>2
<1> QED
    BY <1>3, <1>4 DEF PieceAt

\* A brace that is closed further on opens a placeholder, of which nothing else
\* remains and which leaves nothing open.
LEMMA FilledPieces ==
    ASSUME NEW t \in Seq(Chars), NEW q \in 1..Len(t), NEW v, NEW e,
           ClosedBy(t, q - 1), t[q] = OpenBrace, closes(t, q) # {}, e = Min(closes(t, q))
    PROVE  /\ q \in Placeholders(t) /\ ClosedBy(t, e)
           /\ \A p \in q + 1..e : PieceAt(t, p, v) = <<>>
<1>1. /\ Len(t) \in Nat /\ q \in Nat /\ q >= 1 /\ q <= Len(t) /\ DOMAIN t = 1..Len(t)
    BY LenProperties
<1>2. e \in closes(t, q) /\ \A j \in closes(t, q) : e <= j
    BY FirstClosing
<1>3. e \in Nat /\ e > q /\ e <= Len(t) /\ t[e] = CloseBrace /\ closes(t, q) \subseteq Nat
    BY <1>2, ClosesAfter
<1>4. q \in Placeholders(t)
    <2>1. ASSUME NEW k \in 1..q - 1, t[k] = OpenBrace PROVE \E j \in closes(t, k) : j < q
        <3>1. PICK j \in closes(t, k) : j <= q - 1
            BY <2>1 DEF ClosedBy
        <3>2. j \in Nat
            <4>1. k \in 1..Len(t)
                BY <1>1
            <4> QED
                BY <4>1, ClosesAfter
        <3>3. j < q
            BY <1>1, <3>1, <3>2
        <3> QED
            BY <3>3
    <2> QED
        BY <1>1, <2>1 DEF Placeholders
<1>5. ASSUME NEW p \in q + 1..e PROVE PieceAt(t, p, v) = <<>>
    <2>1. p \in Nat /\ q < p /\ p <= e /\ q \in 1..p - 1
        BY <1>1, <1>3
    <2>2. p \notin Placeholders(t)
        <3> SUFFICES ASSUME p \in Placeholders(t) PROVE FALSE
            OBVIOUS
        <3>1. PICK j \in closes(t, q) : j < p
            BY <2>1 DEF Placeholders
        <3>2. e <= j /\ j \in Nat
            BY <1>2, <1>3, <3>1
        <3> QED
            BY <1>3, <2>1, <3>1, <3>2
    <2> QED
        BY <1>4, <2>1, <2>2 DEF PieceAt
<1>6. ClosedBy(t, e)
    <2> SUFFICES ASSUME NEW k \in 1..e, t[k] = OpenBrace
                 PROVE  \E j \in closes(t, k) : j <= e
        BY DEF ClosedBy
    <2>1. k \in Nat /\ k >= 1 /\ k <= e
        BY <1>3
    <2>2. k # e
        BY <1>3, BracesDiffer
    <2>3. e \in k + 1..Len(t)
        BY <1>3, <2>1, <2>2
    <2>4. e \in closes(t, k)
        BY <1>3, <2>3 DEF closes
    <2> QED
        BY <1>3, <2>4
<1> QED
    BY <1>4, <1>5, <1>6

visible == strict /\ scanner = "core"

\* What is copied so far is what stands for the characters before i, none of
\* which is an opening brace that a brace from i on would close first.
ScanInv ==
    /\ pc = "scan" => ClosedBy(tmpl, i - 1) /\ out = firstOf(PiecesOf(tmpl, visible), i - 1)
    /\ pc = "done" => out = FlattenSeq(PiecesOf(tmpl, visible))

\* pieces are what FlattenOneMore needs of them.
LEMMA PiecesFlatten ==
    ASSUME TextsInv, NEW t \in Seq(Chars), NEW v
    PROVE  LET ss == PiecesOf(t, v)
           IN  /\ firstOf(ss, 0) = <<>> /\ firstOf(ss, Len(t)) = FlattenSeq(ss)
               /\ \A n \in 1..Len(t) : firstOf(ss, n) = firstOf(ss, n - 1) \o PieceAt(t, n, v)
<1> DEFINE ss == PiecesOf(t, v)
<1>1. /\ ss \in Seq(Seq(Chars)) /\ Len(ss) = Len(t)
      /\ \A p \in 1..Len(t) : ss[p] = PieceAt(t, p, v)
    BY PiecesAreTexts
<1> HIDE DEF ss
<1>2. /\ firstOf(ss, 0) = <<>> /\ firstOf(ss, Len(ss)) = FlattenSeq(ss)
      /\ \A n \in 1..Len(ss) : firstOf(ss, n) = firstOf(ss, n - 1) \o ss[n]
    BY <1>1, FlattenOneMore
<1> QED
    BY <1>1, <1>2 DEF ss

\* From q on, where every piece is its character, the rest of t is left.
LEMMA TailIsCopied ==
    ASSUME TextsInv, NEW t \in Seq(Chars), NEW v, NEW q \in 1..Len(t) + 1,
           \A p \in q..Len(t) : PieceAt(t, p, v) = <<t[p]>>
    PROVE  FlattenSeq(PiecesOf(t, v)) = firstOf(PiecesOf(t, v), q - 1) \o SubSeq(t, q, Len(t))
<1> DEFINE ss == PiecesOf(t, v)
<1>1. /\ ss \in Seq(Seq(Chars)) /\ Len(ss) = Len(t)
      /\ \A p \in 1..Len(t) : ss[p] = PieceAt(t, p, v)
    BY PiecesAreTexts
<1> HIDE DEF ss
<1>2. Len(t) \in Nat
    BY LenProperties
<1>3. ASSUME NEW p \in q..Len(t) PROVE ss[p] = <<t[p]>>
    <2>1. p \in 1..Len(t)
        BY <1>2
    <2> QED
        BY <1>1, <2>1
<1>4. Len(t) \in q - 1..Len(t)
    BY <1>2
<1>5. firstOf(ss, Len(t)) = firstOf(ss, q - 1) \o SubSeq(t, q, Len(t))
    BY <1>1, <1>3, <1>4, SinglesStay
<1>6. firstOf(ss, Len(t)) = FlattenSeq(ss)
    BY PiecesFlatten DEF ss
<1> QED
    BY <1>5, <1>6 DEF ss

\* A template without an opening brace is what is made of it.
LEMMA PlainTemplate ==
    ASSUME TextsInv, NEW t \in Seq(Chars), NEW v, ~Contains(t, OpenBrace)
    PROVE  FlattenSeq(PiecesOf(t, v)) = t
<1>1. Len(t) \in Nat /\ \A p \in 1..Len(t) : t[p] # OpenBrace
    BY LenProperties DEF Contains
<1>2. ASSUME NEW p \in 1..Len(t) PROVE PieceAt(t, p, v) = <<t[p]>>
    <2>1. ClosedBy(t, p - 1)
        BY <1>1 DEF ClosedBy
    <2> QED
        BY <1>1, <2>1, PlainPiece
<1>3. FlattenSeq(PiecesOf(t, v)) = firstOf(PiecesOf(t, v), 1 - 1) \o SubSeq(t, 1, Len(t))
    <2>1. 1 \in 1..Len(t) + 1
        BY <1>1
    <2> QED
        BY <1>2, <2>1, TailIsCopied
<1>4. firstOf(PiecesOf(t, v), 1 - 1) = <<>>
    <2>1. 1 - 1 = 0
        OBVIOUS
    <2> QED
        BY <2>1, PiecesFlatten
<1>5. SubSeq(t, 1, Len(t)) = t /\ <<>> \o t = t
    BY SubSeqFull, ConcatEmptySeq
<1> QED
    BY <1>3, <1>4, <1>5

\* A lookup starts a scan that has copied nothing, or ends it with everything.
LEMMA LookupStartsScan ==
    ASSUME TextsInv, PlaceInv, Lookup PROVE ScanInv'
<1>1. /\ pc = "build" /\ i' = i /\ params' = params
      /\ IF Contains(tmpl', OpenBrace) THEN pc' = "scan" /\ out' = out
                                       ELSE pc' = "done" /\ out' = tmpl'
    BY DEF Lookup
<1>2. i = 1 /\ out = <<>>
    BY <1>1 DEF PlaceInv
<1>3. tmpl' \in Seq(Chars)
    BY LookupTakesText
<1>4. PiecesOf(tmpl, visible)' = PiecesOf(tmpl', visible')
    BY <1>1 DEF PiecesOf, PieceAt
<1>5. CASE Contains(tmpl', OpenBrace)
    <2>1. i' - 1 = 0
        BY <1>1, <1>2
    <2>2. firstOf(PiecesOf(tmpl', visible'), 0) = <<>>
        BY <1>3, PiecesFlatten
    <2>3. ClosedBy(tmpl', 0)
        BY DEF ClosedBy
    <2> QED
        BY <1>1, <1>2, <1>4, <1>5, <2>1, <2>2, <2>3 DEF ScanInv
<1>6. CASE ~Contains(tmpl', OpenBrace)
    <2>1. FlattenSeq(PiecesOf(tmpl', visible')) = tmpl'
        BY <1>3, <1>6, PlainTemplate
    <2> QED
        BY <1>1, <1>4, <1>6, <2>1 DEF ScanInv
<1> QED
    BY <1>5, <1>6

\* Every step keeps the part copied so far exact.
LEMMA StepKeepsScanInv == TextsInv /\ PlaceInv /\ ScanInv /\ [Next]_vars => ScanInv'
<1> SUFFICES ASSUME TextsInv, PlaceInv, ScanInv, [Next]_vars PROVE ScanInv'
    OBVIOUS
<1> DEFINE ss == PiecesOf(tmpl, visible)
<1>1. Len(tmpl) \in Nat /\ i \in Nat /\ i >= 1 /\ i <= Len(tmpl) + 1 /\ tmpl \in Seq(Chars)
    BY RestOfTemplate DEF PlaceInv
<1>2. ASSUME UNCHANGED <<tmpl, params, strict, scanner>> PROVE ss' = ss
    BY <1>2 DEF PiecesOf, PieceAt, visible
<1>3. /\ firstOf(ss, Len(tmpl)) = FlattenSeq(ss)
      /\ i <= Len(tmpl) => firstOf(ss, i) = firstOf(ss, i - 1) \o PieceAt(tmpl, i, visible)
    BY <1>1, PiecesFlatten
<1> HIDE DEF ss
<1>4. /\ pc = "scan" => ClosedBy(tmpl, i - 1) /\ out = firstOf(ss, i - 1)
      /\ pc = "done" => out = FlattenSeq(ss)
    BY DEF ScanInv, ss
<1>5. ASSUME ss' = ss, tmpl' = tmpl,
             pc' = "scan" => ClosedBy(tmpl, i' - 1) /\ out' = firstOf(ss, i' - 1),
             pc' = "done" => out' = FlattenSeq(ss)
      PROVE  ScanInv'
    BY <1>5 DEF ScanInv, ss
<1>6. CASE New
    BY <1>6 DEF New, ScanInv
<1>7. CASE Lookup
    BY <1>7, LookupStartsScan
<1>8. CASE CopyByte
    <2>1. /\ UNCHANGED <<tmpl, params, strict, scanner>> /\ pc' = "scan" /\ pc = "scan"
          /\ i <= Len(tmpl) /\ tmpl[i] # OpenBrace
          /\ out' = Append(out, tmpl[i]) /\ i' = i + 1
        BY <1>8 DEF CopyByte, Scanning, scanned, request
    <2>2. PieceAt(tmpl, i, visible) = <<tmpl[i]>>
        BY <1>1, <1>4, <2>1, PlainPiece
    <2>3. out' = firstOf(ss, i)
        <3>1. out \o <<tmpl[i]>> = Append(out, tmpl[i])
            BY <1>1, <2>1, ElementOfSeq, AppendIsConcat DEF PlaceInv
        <3> QED
            BY <1>3, <1>4, <2>1, <2>2, <3>1
    <2>4. ClosedBy(tmpl, i)
        <3> SUFFICES ASSUME NEW q \in 1..i, tmpl[q] = OpenBrace
                     PROVE  \E e \in closes(tmpl, q) : e <= i
            BY DEF ClosedBy
        <3>1. q \in 1..i - 1
            BY <1>1, <2>1
        <3>2. PICK e \in closes(tmpl, q) : e <= i - 1
            BY <1>4, <2>1, <3>1 DEF ClosedBy
        <3>3. e \in Nat
            BY <1>1, <3>1, ClosesAfter
        <3> QED
            BY <1>1, <3>2, <3>3
    <2>5. i' - 1 = i
        BY <1>1, <2>1
    <2> QED
        BY <1>2, <1>5, <2>1, <2>3, <2>4, <2>5
<1>9. CASE CopyTail
    <2>1. /\ UNCHANGED <<tmpl, params, strict, scanner>> /\ pc = "scan" /\ pc' = "done"
          /\ i <= Len(tmpl) /\ tmpl[i] = OpenBrace /\ closing = 0
          /\ out' = out \o SubSeq(tmpl, i, Len(tmpl))
        BY <1>9 DEF CopyTail, Scanning, scanned, request, rest
    <2>2. closes(tmpl, i) = {}
        BY <2>1, ClosingBrace
    <2>3. ASSUME NEW p \in i..Len(tmpl) PROVE PieceAt(tmpl, p, visible) = <<tmpl[p]>>
        <3>1. i \in 1..Len(tmpl)
            BY <1>1, <2>1
        <3> QED
            BY <1>1, <1>4, <2>1, <2>2, <3>1, TailPiece
    <2>4. i \in 1..Len(tmpl) + 1
        BY <1>1
    <2>5. FlattenSeq(ss) = firstOf(ss, i - 1) \o SubSeq(tmpl, i, Len(tmpl))
        BY <1>1, <2>3, <2>4, TailIsCopied DEF ss
    <2>6. out' = FlattenSeq(ss)
        BY <1>4, <2>1, <2>5
    <2> QED
        BY <1>2, <1>5, <2>1, <2>6
<1>10. CASE Fill
    <2>1. /\ UNCHANGED <<tmpl, params, strict, scanner>> /\ pc = "scan" /\ pc' = "scan"
          /\ i <= Len(tmpl) /\ tmpl[i] = OpenBrace /\ closing # 0
          /\ out' = out \o filled /\ i' = i + closing
        BY <1>10 DEF Fill, Scanning, scanned, request
    <2> DEFINE e == i + closing - 1
    <2>2. closing \in Nat /\ e \in closes(tmpl, i) /\ Min(closes(tmpl, i)) = e
        BY <2>1, ClosingBrace
    <2>3. i \in 1..Len(tmpl) /\ e \in Nat /\ e > i /\ e <= Len(tmpl) /\ i' = e + 1
        <3>1. i \in 1..Len(tmpl)
            BY <1>1, <2>1
        <3>2. e \in Nat /\ e > i /\ e <= Len(tmpl)
            BY <1>1, <2>2, <3>1, ClosesAfter
        <3>3. i' = e + 1
            BY <1>1, <2>1, <2>2
        <3> QED
            BY <3>1, <3>2, <3>3
    <2>4. i + closing - 2 = e - 1 /\ i' - 1 = e
        BY <1>1, <2>2, <2>3
    <2>5. filled = LET n == SubSeq(tmpl, i + 1, e - 1)
                   IN  IF n \in DOMAIN params THEN params[n]
                       ELSE IF visible THEN SubSeq(tmpl, i, e) ELSE <<>>
        BY <2>4 DEF filled, name, visible
    <2> HIDE DEF e
    <2>6. /\ i \in Placeholders(tmpl) /\ ClosedBy(tmpl, e)
          /\ \A p \in i + 1..e : PieceAt(tmpl, p, visible) = <<>>
        BY <1>1, <1>4, <2>1, <2>2, <2>3, FilledPieces
    <2>7. PieceAt(tmpl, i, visible) = filled
        BY <2>2, <2>5, <2>6 DEF PieceAt
    <2>8. firstOf(ss, e) = firstOf(ss, i)
        <3>1. /\ ss \in Seq(Seq(Chars)) /\ Len(ss) = Len(tmpl)
              /\ \A p \in 1..Len(tmpl) : ss[p] = PieceAt(tmpl, p, visible)
            BY <1>1, PiecesAreTexts DEF ss
        <3>2. i \in 0..Len(ss) /\ e \in i..Len(ss)
            BY <1>1, <2>3, <3>1
        <3>3. \A p \in i + 1..e : ss[p] = <<>>
            BY <1>1, <2>3, <2>6, <3>1
        <3> QED
            BY <3>1, <3>2, <3>3, EmptiesVanish
    <2>9. out' = firstOf(ss, e)
        BY <1>3, <1>4, <2>1, <2>7, <2>8
    <2> QED
        BY <1>2, <1>5, <2>1, <2>4, <2>6, <2>9
<1>11. CASE EndScan
    <2>1. /\ UNCHANGED <<tmpl, params, strict, scanner, out>> /\ pc = "scan" /\ pc' = "done"
          /\ i - 1 = Len(tmpl)
        BY <1>1, <1>11 DEF EndScan, scanned, request
    <2> QED
        BY <1>2, <1>3, <1>4, <1>5, <2>1
<1>12. ASSUME NEW n \in Names, NEW v \in Values, Param(n, v) PROVE ScanInv'
    BY <1>12 DEF Param, ScanInv
<1>13. CASE UNCHANGED <<tmpl, params, strict, scanner, pc, i, out>>
    BY <1>2, <1>4, <1>5, <1>13
<1>14. ASSUME NEW l \in Locales, EditInner(l) \/ DropLocale(l)
       PROVE  UNCHANGED <<tmpl, params, strict, scanner, pc, i, out>>
    BY <1>14 DEF EditInner, DropLocale, scanned, request
<1>15. ASSUME UNCHANGED vars PROVE UNCHANGED <<tmpl, params, strict, scanner, pc, i, out>>
    BY <1>15 DEF vars, scanned, request
<1> QED
    BY <1>6, <1>7, <1>8, <1>9, <1>10, <1>11, <1>12, <1>13, <1>14, <1>15 DEF Next, Step

\* Whatever the template and the parameters, what the scan leaves is what the
\* reference reading of the template says: see ScanIsExact.
THEOREM ScansAreExact == Spec => []ScanIsExact
<1>1. Init => ScanInv
    BY DEF Init, ScanInv
<1>2. ScanInv => ScanIsExact
    BY DEF ScanInv, ScanIsExact, PiecesOf, visible
<1> QED
    BY <1>1, <1>2, PlaceInvHolds, StepKeepsScanInv, PTL DEF Spec

-----------------------------------------------------------------------------
(* The header *)

Separators == {Comma, Semicolon}
LanguageRange == [primary : DOMAIN Lower, region : BOOLEAN, weight : BOOLEAN, padded : BOOLEAN]
Tokens == DOMAIN Lower \cup {Space, Dash, Semicolon, Comma, "US", "q"}
regionOf(r) == IF r.region THEN <<Dash, "US">> ELSE <<>>
weightOf(r) == IF r.weight THEN <<Semicolon, "q">> ELSE <<>>
commaAfter(k, n) == IF k < n THEN <<Comma>> ELSE <<>>

\* No separator, space or dash is another's.
LEMMA TokensDiffer ==
    /\ Space \notin {Comma, Semicolon, Dash, "US"}
    /\ Dash \notin {Comma, Semicolon} /\ "US" \notin {Comma, Semicolon}
BY DEF Space, Comma, Semicolon, Dash

\* What before leaves is what stands in front of the first separator.
LEMMA BeforeSeparator ==
    ASSUME NEW S, NEW a \in Seq(S), NEW b \in Seq(S), NEW seps,
           \A k \in 1..Len(a) : a[k] \notin seps, b = <<>> \/ (Len(b) >= 1 /\ b[1] \in seps)
    PROVE  before(a \o b, seps) = a
<1> DEFINE ab == a \o b
           I == {k \in 1..Len(ab) : ab[k] \in seps}
           at == IF I # {} THEN Min(I) ELSE 0
<1>1. /\ ab \in Seq(S) /\ Len(a) \in Nat /\ Len(b) \in Nat /\ Len(ab) = Len(a) + Len(b)
      /\ \A k \in 1..Len(ab) : ab[k] = IF k <= Len(a) THEN a[k] ELSE b[k - Len(a)]
    BY ConcatProperties, LenProperties
<1>2. before(ab, seps) = IF at = 0 THEN ab ELSE SubSeq(ab, 1, at - 1)
    BY DEF before, SelectInSeq
<1> HIDE DEF ab
<1>3. \A k \in I : k \in Nat /\ k > Len(a)
    BY <1>1
<1>4. CASE b = <<>>
    <2>1. Len(b) = 0
        BY <1>4
    <2>2. I = {}
        <3> SUFFICES ASSUME NEW k \in I PROVE FALSE
            OBVIOUS
        <3>1. k \in 1..Len(ab) /\ k > Len(a)
            BY <1>3
        <3> QED
            BY <1>1, <2>1, <3>1
    <2>3. ab = a
        BY <1>4, ConcatEmptySeq DEF ab
    <2> QED
        BY <1>2, <2>2, <2>3 DEF ab
<1>5. CASE Len(b) >= 1 /\ b[1] \in seps
    <2>1. Len(a) + 1 \in I
        <3>1. Len(a) + 1 \in 1..Len(ab) /\ ~(Len(a) + 1 <= Len(a)) /\ (Len(a) + 1) - Len(a) = 1
            BY <1>1, <1>5
        <3>2. ab[Len(a) + 1] = b[1]
            BY <1>1, <3>1
        <3> QED
            BY <1>5, <3>1, <3>2
    <2> HIDE DEF I
    <2>2. \A m \in I : m \in Nat /\ Len(a) + 1 <= m
        BY <1>1, <1>3
    <2>3. ASSUME NEW m \in I, \A k \in I : m <= k PROVE m = Len(a) + 1
        <3>1. m \in Nat /\ m <= Len(a) + 1 /\ Len(a) + 1 <= m
            BY <2>1, <2>2, <2>3
        <3> QED
            BY <1>1, <3>1
    <2>4. Min(I) = Len(a) + 1
        BY <2>1, <2>2, <2>3 DEF Min
    <2>5. at = Len(a) + 1 /\ at # 0 /\ at - 1 = Len(a)
        BY <1>1, <2>1, <2>4
    <2>6. SubSeq(ab, 1, Len(a)) = a
        <3>1. \A k \in 1..Len(a) : ab[k] = a[k] /\ ab[k] \in S
            BY <1>1, ElementOfSeq
        <3>2. /\ SubSeq(ab, 1, Len(a)) \in Seq(S) /\ Len(SubSeq(ab, 1, Len(a))) = Len(a)
              /\ \A k \in 1..Len(a) : SubSeq(ab, 1, Len(a))[k] = ab[k]
            <4>1. /\ SubSeq(ab, 1, Len(a)) \in Seq(S)
                  /\ Len(SubSeq(ab, 1, Len(a))) = IF 1 <= Len(a) THEN Len(a) - 1 + 1 ELSE 0
                  /\ \A k \in 1..Len(a) - 1 + 1 : SubSeq(ab, 1, Len(a))[k] = ab[1 + k - 1]
                BY <1>1, <3>1, SubSeqProperties
            <4>2. /\ (IF 1 <= Len(a) THEN Len(a) - 1 + 1 ELSE 0) = Len(a)
                  /\ Len(a) - 1 + 1 = Len(a) /\ \A k \in 1..Len(a) : 1 + k - 1 = k
                BY <1>1
            <4> QED
                BY <4>1, <4>2
        <3> QED
            BY <3>1, <3>2, SeqEqual
    <2> QED
        BY <1>2, <2>5, <2>6 DEF ab
<1> QED
    BY <1>4, <1>5

\* What trimSpace leaves is what stands between the spaces.
LEMMA BetweenSpaces ==
    ASSUME NEW S, NEW t \in Seq(S), NEW s \in Seq(S), NEW n \in Nat,
           Len(t) >= 1, n + Len(t) <= Len(s),
           \A k \in 1..Len(t) : s[n + k] = t[k] /\ t[k] # Space,
           \A k \in 1..Len(s) : k <= n \/ k > n + Len(t) => s[k] = Space
    PROVE  trimSpace(s) = t
<1> DEFINE solid == {k \in DOMAIN s : s[k] # Space}
           first == n + 1
           last == n + Len(t)
<1>1. Len(t) \in Nat /\ Len(s) \in Nat /\ DOMAIN s = 1..Len(s)
    BY LenProperties
<1>2. trimSpace(s) = IF solid = {} THEN <<>> ELSE SubSeq(s, Min(solid), Max(solid))
    BY DEF trimSpace
<1>3. ASSUME NEW k \in solid PROVE k \in Nat /\ first <= k /\ k <= last
    <2>1. k \in 1..Len(s) /\ ~(k <= n \/ k > n + Len(t))
        BY <1>1
    <2> QED
        BY <1>1, <2>1
<1>4. ASSUME NEW k \in 1..Len(t) PROVE n + k \in solid
    <2>1. n + k \in 1..Len(s)
        BY <1>1
    <2> QED
        BY <1>1, <2>1
<1>5. first \in solid /\ last \in solid
    <2>1. 1 \in 1..Len(t) /\ Len(t) \in 1..Len(t)
        BY <1>1
    <2> QED
        BY <1>4, <2>1
<1>6. first \in Nat /\ last \in Nat
    BY <1>1
<1> HIDE DEF solid, first, last
<1>7. Min(solid) = first
    <2>1. ASSUME NEW m \in solid, \A k \in solid : m <= k PROVE m = first
        <3>1. m \in Nat /\ m <= first /\ first <= m
            BY <1>3, <1>5, <2>1
        <3> QED
            BY <1>6, <3>1
    <2> QED
        BY <1>3, <1>5, <2>1 DEF Min
<1>8. Max(solid) = last
    <2>1. ASSUME NEW m \in solid, \A k \in solid : m >= k PROVE m = last
        <3>1. m \in Nat /\ m >= last /\ last >= m
            BY <1>3, <1>5, <1>6, <2>1
        <3> QED
            BY <1>6, <3>1
    <2>2. \A k \in solid : last >= k
        BY <1>3, <1>6
    <2> QED
        BY <1>5, <2>1, <2>2 DEF Max
<1>9. SubSeq(s, first, last) = t
    <2>1. \A k \in first..last : s[k] \in S
        <3>1. \A k \in first..last : k \in 1..Len(s)
            BY <1>1 DEF first, last
        <3> QED
            BY <3>1, ElementOfSeq
    <2>2. /\ SubSeq(s, first, last) \in Seq(S)
          /\ Len(SubSeq(s, first, last)) = IF first <= last THEN last - first + 1 ELSE 0
          /\ \A k \in 1..last - first + 1 : SubSeq(s, first, last)[k] = s[first + k - 1]
        BY <1>6, <2>1, SubSeqProperties
    <2>3. last - first + 1 = Len(t) /\ first <= last /\ \A k \in 1..Len(t) : first + k - 1 = n + k
        BY <1>1 DEF first, last
    <2>4. /\ Len(SubSeq(s, first, last)) = Len(t)
          /\ \A k \in 1..Len(t) : SubSeq(s, first, last)[k] = t[k]
        BY <2>2, <2>3
    <2> QED
        BY <2>2, <2>4, SeqEqual
<1> QED
    BY <1>2, <1>5, <1>7, <1>8, <1>9

\* What comes first in a flattening, and what comes before the rest.
LEMMA FlattenSplits ==
    ASSUME NEW S, NEW ss \in Seq(Seq(S)), Len(ss) >= 1
    PROVE  \E y \in Seq(S) : FlattenSeq(ss) = ss[1] \o y /\ (Len(ss) = 1 => y = <<>>)
<1> DEFINE Splits(n) == \E y \in Seq(S) : firstOf(ss, n) = ss[1] \o y /\ (n = 1 => y = <<>>)
           T == {n \in 1..Len(ss) : ~Splits(n)}
<1>1. /\ Len(ss) \in Nat /\ \A n \in 1..Len(ss) : ss[n] \in Seq(S)
      /\ firstOf(ss, 0) = <<>> /\ firstOf(ss, Len(ss)) = FlattenSeq(ss)
      /\ \A n \in 1..Len(ss) : firstOf(ss, n) = firstOf(ss, n - 1) \o ss[n]
    BY FlattenOneMore, LenProperties, ElementOfSeq
<1>2. Splits(1)
    <2>1. 1 \in 1..Len(ss) /\ 1 - 1 = 0
        BY <1>1
    <2>2. firstOf(ss, 1) = <<>> \o ss[1]
        BY <1>1, <2>1
    <2>3. firstOf(ss, 1) = ss[1] \o <<>> /\ <<>> \in Seq(S)
        BY <1>1, <2>1, <2>2, ConcatEmptySeq
    <2> QED
        BY <2>3
<1>3. ASSUME NEW n \in Nat, n >= 1, n + 1 <= Len(ss), Splits(n) PROVE Splits(n + 1)
    <2>1. PICK y \in Seq(S) : firstOf(ss, n) = ss[1] \o y
        BY <1>3
    <2>2. n + 1 \in 1..Len(ss) /\ (n + 1) - 1 = n /\ 1 \in 1..Len(ss) /\ n + 1 # 1
        BY <1>1, <1>3
    <2>3. firstOf(ss, n + 1) = (ss[1] \o y) \o ss[n + 1]
        BY <1>1, <2>1, <2>2
    <2>4. ss[1] \in Seq(S) /\ ss[n + 1] \in Seq(S)
        BY <1>1, <2>2
    <2>5. Associative(ss[1], y, ss[n + 1])
        BY <2>4, ConcatIsAssociative
    <2>6. firstOf(ss, n + 1) = ss[1] \o (y \o ss[n + 1])
        BY <2>3, <2>5 DEF Associative
    <2>7. y \o ss[n + 1] \in Seq(S)
        BY <2>4, ConcatProperties
    <2> QED
        BY <2>2, <2>6, <2>7
<1> HIDE DEF Splits
<1>4. T = {}
    <2> SUFFICES ASSUME T # {} PROVE FALSE
        OBVIOUS
    <2>1. T \in SUBSET Nat
        BY <1>1
    <2>2. PICK n \in T : \A k \in T : n <= k
        <3> HIDE DEF T
        <3> QED
            BY <2>1, Least
    <2>3. n \in Nat /\ n >= 1 /\ n <= Len(ss) /\ ~Splits(n)
        BY <1>1
    <2>4. n # 1
        BY <1>2, <2>3
    <2>5. n - 1 \in Nat /\ n - 1 >= 1 /\ (n - 1) + 1 = n /\ n - 1 \in 1..Len(ss) /\ ~(n <= n - 1)
        BY <1>1, <2>3, <2>4
    <2>6. Splits(n - 1)
        BY <2>2, <2>5
    <2> QED
        BY <1>3, <2>3, <2>5, <2>6
<1>5. Splits(Len(ss))
    <2>1. Len(ss) \in 1..Len(ss)
        BY <1>1
    <2> QED
        BY <1>4, <2>1
<1> QED
    BY <1>1, <1>5 DEF Splits

\* The first language of a header, with its region and its spaces, stands in
\* front of its first separator, if there is one.
LEMMA FormatSplits ==
    ASSUME NEW ranges \in Seq(LanguageRange), Len(ranges) >= 1
    PROVE  LET r == ranges[1]
               front == ((spaces(r) \o <<r.primary>>) \o regionOf(r)) \o spaces(r)
           IN  /\ r \in LanguageRange /\ front \in Seq(Tokens)
               /\ \E b \in Seq(Tokens) :
                    /\ Format(ranges) = front \o b
                    /\ b = <<>> \/ (Len(b) >= 1 /\ b[1] \in Separators)
<1> DEFINE r == ranges[1]
           n == Len(ranges)
           frontOf(x) == ((spaces(x) \o <<x.primary>>) \o regionOf(x)) \o spaces(x)
           piece(k) == (frontOf(ranges[k]) \o weightOf(ranges[k])) \o commaAfter(k, n)
           ss == [k \in DOMAIN ranges |-> piece(k)]
<1>1. n \in Nat /\ DOMAIN ranges = 1..n /\ \A k \in 1..n : ranges[k] \in LanguageRange
    BY LenProperties, ElementOfSeq
<1>2. Format(ranges) = FlattenSeq(ss)
    BY DEF Format, regionOf, weightOf, commaAfter
<1>3. ASSUME NEW x \in LanguageRange
      PROVE  /\ spaces(x) \in Seq(Tokens) /\ <<x.primary>> \in Seq(Tokens)
             /\ regionOf(x) \in Seq(Tokens) /\ weightOf(x) \in Seq(Tokens)
    <2>1. x.primary \in Tokens /\ {Space, Dash, Semicolon, "US", "q"} \subseteq Tokens
        BY DEF LanguageRange, Tokens
    <2> QED
        BY <2>1 DEF spaces, regionOf, weightOf
<1>4. \A k \in 1..n : commaAfter(k, n) \in Seq(Tokens)
    <2>1. Comma \in Tokens
        BY DEF Tokens
    <2> QED
        BY <2>1 DEF commaAfter
<1>5. ASSUME NEW x \in LanguageRange PROVE frontOf(x) \in Seq(Tokens)
    <2>1. spaces(x) \o <<x.primary>> \in Seq(Tokens)
        BY <1>3, ConcatProperties
    <2>2. (spaces(x) \o <<x.primary>>) \o regionOf(x) \in Seq(Tokens)
        BY <1>3, <2>1, ConcatProperties
    <2> QED
        BY <1>3, <2>2, ConcatProperties
<1> HIDE DEF frontOf
<1>6. ASSUME NEW k \in 1..n PROVE piece(k) \in Seq(Tokens)
    <2>1. frontOf(ranges[k]) \o weightOf(ranges[k]) \in Seq(Tokens)
        <3>1. frontOf(ranges[k]) \in Seq(Tokens) /\ weightOf(ranges[k]) \in Seq(Tokens)
            BY <1>1, <1>3, <1>5
        <3> QED
            BY <3>1, ConcatProperties
    <2> QED
        BY <1>4, <2>1, ConcatProperties
<1> HIDE DEF piece
<1>7. ss \in Seq(Seq(Tokens)) /\ Len(ss) = n /\ ss[1] = piece(1)
    <2>1. ss \in [1..n -> Seq(Tokens)] /\ 1 \in 1..n
        BY <1>1, <1>6
    <2>2. ss[1] = piece(1)
        BY <1>1, <2>1
    <2>3. ss \in Seq(Seq(Tokens))
        <3>1. n \in Nat /\ ss \in [1..n -> Seq(Tokens)]
            BY <1>1, <2>1
        <3> HIDE DEF n, ss
        <3> QED
            BY <3>1, SeqDef
    <2> HIDE DEF ss
    <2>4. Len(ss) = n
        BY <1>1, <2>1, <2>3, LenProperties
    <2> QED
        BY <2>2, <2>3, <2>4
<1> HIDE DEF ss
<1>8. PICK y \in Seq(Tokens) : FlattenSeq(ss) = ss[1] \o y /\ (n = 1 => y = <<>>)
    BY <1>7, FlattenSplits
<1> DEFINE w == weightOf(r)
           c == commaAfter(1, n)
           b == w \o (c \o y)
<1>9. /\ r \in LanguageRange /\ w \in Seq(Tokens) /\ c \in Seq(Tokens) /\ frontOf(r) \in Seq(Tokens)
      /\ piece(1) = (frontOf(r) \o w) \o c
    BY <1>1, <1>3, <1>4, <1>5 DEF piece
<1>10. w = <<>> \/ w = <<Semicolon, "q">>
    BY DEF weightOf
<1>11. (c = <<>> /\ n = 1) \/ c = <<Comma>>
    BY <1>1 DEF commaAfter
<1> HIDE DEF w, c, r
<1>12. c \o y \in Seq(Tokens) /\ b \in Seq(Tokens) /\ frontOf(r) \o w \in Seq(Tokens)
    <2>1. c \o y \in Seq(Tokens) /\ frontOf(r) \o w \in Seq(Tokens)
        BY <1>9, ConcatProperties
    <2> QED
        BY <1>9, <2>1, ConcatProperties
<1>13. Format(ranges) = frontOf(r) \o b
    <2>1. Associative(frontOf(r) \o w, c, y) /\ Associative(frontOf(r), w, c \o y)
        BY <1>9, <1>12, ConcatIsAssociative
    <2> QED
        BY <1>2, <1>7, <1>8, <1>9, <2>1 DEF Associative
<1>14. ASSUME NEW x \in Seq(Tokens), Len(x) >= 1, NEW z \in Seq(Tokens)
       PROVE  Len(x \o z) >= 1 /\ (x \o z)[1] = x[1]
    <2>1. /\ Len(x) \in Nat /\ Len(z) \in Nat /\ Len(x \o z) = Len(x) + Len(z)
          /\ \A k \in 1..Len(x) + Len(z) : (x \o z)[k] = IF k <= Len(x) THEN x[k] ELSE z[k - Len(x)]
        BY ConcatProperties, LenProperties
    <2>2. 1 \in 1..Len(x) + Len(z)
        BY <1>14, <2>1
    <2> QED
        BY <1>14, <2>1, <2>2
<1>15. b = <<>> \/ (Len(b) >= 1 /\ b[1] \in Separators)
    <2>1. CASE w = <<Semicolon, "q">>
        <3>1. Len(w) >= 1 /\ w[1] = Semicolon
            BY <2>1
        <3>2. Len(b) >= 1 /\ b[1] = w[1]
            BY <1>9, <1>12, <1>14, <3>1
        <3> QED
            BY <3>1, <3>2 DEF Separators
    <2>2. CASE w = <<>>
        <3>1. b = c \o y
            BY <1>12, <2>2, ConcatEmptySeq
        <3>2. CASE c = <<Comma>>
            <4>1. Len(c) >= 1 /\ c[1] = Comma
                BY <3>2
            <4>2. Len(c \o y) >= 1 /\ (c \o y)[1] = c[1]
                BY <1>9, <1>14, <4>1
            <4> QED
                BY <3>1, <4>1, <4>2 DEF Separators
        <3>3. CASE c = <<>> /\ n = 1
            <4>1. y = <<>>
                BY <1>8, <3>3
            <4>2. c \o y = <<>>
                BY <1>8, <3>3, <4>1, ConcatEmptySeq
            <4> QED
                BY <3>1, <4>2
        <3> QED
            BY <1>11, <3>2, <3>3
    <2> QED
        BY <1>10, <2>1, <2>2
<1> HIDE DEF b, n
<1> QED
    BY <1>9, <1>12, <1>13, <1>15 DEF frontOf, r

\* The language of a request, whatever surrounds it.
LEMMA FirstLanguage ==
    ASSUME NEW r \in LanguageRange, NEW b \in Seq(Tokens),
           b = <<>> \/ (Len(b) >= 1 /\ b[1] \in Separators)
    PROVE  LET front == ((spaces(r) \o <<r.primary>>) \o regionOf(r)) \o spaces(r)
           IN  localeFrom(front \o b) = <<Lower[r.primary]>>
<1> DEFINE p == <<r.primary>>
           sp == spaces(r)
           region == regionOf(r)
           t == p \o region
           front == ((sp \o p) \o region) \o sp
<1>1. /\ r.primary \in DOMAIN Lower /\ r.primary \in Tokens
      /\ {Space, Dash, Semicolon, Comma, "US"} \subseteq Tokens
    BY DEF LanguageRange, Tokens
<1>2. r.primary \notin {Space, Dash, Semicolon, Comma}
    BY <1>1, RangesAssumption
<1>3. p \in Seq(Tokens) /\ Len(p) = 1 /\ p[1] = r.primary
    BY <1>1
<1>4. sp \in Seq(Tokens) /\ Len(sp) \in Nat /\ \A k \in 1..Len(sp) : sp[k] = Space
    BY <1>1 DEF spaces
<1>5. /\ region \in Seq(Tokens) /\ Len(region) \in Nat
      /\ \A k \in 1..Len(region) : region[k] \in {Dash, "US"}
      /\ region = <<>> \/ (Len(region) >= 1 /\ region[1] \in {Dash})
    BY <1>1 DEF regionOf
<1> HIDE DEF p, sp, region
<1>6. /\ t \in Seq(Tokens) /\ Len(t) = 1 + Len(region) /\ t[1] = r.primary
      /\ \A k \in 1..Len(t) : t[k] = r.primary \/ t[k] \in {Dash, "US"}
    <2>1. /\ t \in Seq(Tokens) /\ Len(t) = 1 + Len(region)
          /\ \A k \in 1..1 + Len(region) : t[k] = IF k <= 1 THEN p[k] ELSE region[k - 1]
        <3>1. p \in Seq(Tokens) /\ region \in Seq(Tokens)
            BY <1>3, <1>5
        <3>2. /\ t \in Seq(Tokens) /\ Len(t) = Len(p) + Len(region)
              /\ \A k \in 1..Len(p) + Len(region) :
                    t[k] = IF k <= Len(p) THEN p[k] ELSE region[k - Len(p)]
            BY <3>1, ConcatProperties
        <3> QED
            BY <1>3, <3>2
    <2>2. t[1] = r.primary
        BY <1>3, <1>5, <2>1
    <2>3. ASSUME NEW k \in 1..Len(t) PROVE t[k] = r.primary \/ t[k] \in {Dash, "US"}
        <3>1. CASE k <= 1
            <4>1. k = 1
                BY <1>5, <2>1, <3>1
            <4> QED
                BY <2>2, <4>1
        <3>2. CASE ~(k <= 1)
            <4>1. k - 1 \in 1..Len(region) /\ k \in 1..1 + Len(region)
                BY <1>5, <2>1, <3>2
            <4> QED
                BY <1>5, <2>1, <3>2, <4>1
        <3> QED
            BY <3>1, <3>2
    <2> QED
        BY <2>1, <2>2, <2>3
<1> DEFINE spt == sp \o t
<1>7. front = spt \o sp
    <2>1. Associative(sp, p, region)
        BY <1>3, <1>4, <1>5, ConcatIsAssociative
    <2> QED
        BY <2>1 DEF Associative
<1> HIDE DEF t
<1>8. /\ spt \in Seq(Tokens) /\ Len(spt) = Len(sp) + Len(t)
      /\ \A k \in 1..Len(sp) + Len(t) : spt[k] = IF k <= Len(sp) THEN sp[k] ELSE t[k - Len(sp)]
    <2>1. sp \in Seq(Tokens) /\ t \in Seq(Tokens)
        BY <1>4, <1>6
    <2> QED
        BY <2>1, ConcatProperties
<1> HIDE DEF spt, front
<1>9. /\ front \in Seq(Tokens) /\ Len(front) = Len(spt) + Len(sp)
      /\ \A k \in 1..Len(spt) + Len(sp) :
            front[k] = IF k <= Len(spt) THEN spt[k] ELSE sp[k - Len(spt)]
    <2>1. sp \in Seq(Tokens) /\ spt \in Seq(Tokens)
        BY <1>4, <1>8
    <2> QED
        BY <1>7, <2>1, ConcatProperties
<1>10. Len(t) \in Nat /\ Len(t) >= 1 /\ Len(spt) \in Nat
    BY <1>4, <1>5, <1>6, <1>8
<1>11. ASSUME NEW k \in 1..Len(t) PROVE front[Len(sp) + k] = t[k]
    <2>1. /\ Len(sp) + k \in 1..Len(spt) + Len(sp) /\ Len(sp) + k <= Len(spt)
          /\ Len(sp) + k \in 1..Len(sp) + Len(t)
          /\ ~(Len(sp) + k <= Len(sp)) /\ (Len(sp) + k) - Len(sp) = k
        BY <1>4, <1>8, <1>10
    <2>2. front[Len(sp) + k] = spt[Len(sp) + k]
        BY <1>9, <2>1
    <2>3. spt[Len(sp) + k] = t[k]
        BY <1>8, <2>1
    <2> QED
        BY <2>2, <2>3
<1>12. ASSUME NEW k \in 1..Len(front), k <= Len(sp) \/ k > Len(sp) + Len(t)
       PROVE  front[k] = Space
    <2>1. k \in Nat /\ k >= 1 /\ k <= Len(sp) + Len(t) + Len(sp)
        BY <1>4, <1>8, <1>9, <1>10
    <2>2. CASE k <= Len(sp)
        <3>1. k \in 1..Len(sp) /\ k \in 1..Len(sp) + Len(t) /\ k \in 1..Len(spt) + Len(sp)
              /\ k <= Len(spt)
            BY <1>4, <1>8, <1>10, <2>1, <2>2
        <3>2. front[k] = spt[k]
            BY <1>9, <3>1
        <3>3. spt[k] = sp[k]
            BY <1>8, <2>2, <3>1
        <3> QED
            BY <1>4, <3>1, <3>2, <3>3
    <2>3. CASE k > Len(sp) + Len(t)
        <3>1. k - Len(spt) \in 1..Len(sp) /\ k \in 1..Len(spt) + Len(sp) /\ ~(k <= Len(spt))
            BY <1>4, <1>8, <1>10, <2>1, <2>3
        <3>2. front[k] = sp[k - Len(spt)]
            BY <1>9, <3>1
        <3> QED
            BY <1>4, <3>1, <3>2
    <2> QED
        BY <1>12, <2>2, <2>3
<1>13. \A k \in 1..Len(t) : t[k] # Space /\ t[k] \notin Separators
    BY <1>2, <1>6, TokensDiffer DEF Separators
<1>14. before(front \o b, {Comma, Semicolon}) = front
    <2>1. Space \notin {Comma, Semicolon}
        BY TokensDiffer
    <2>2. ASSUME NEW k \in 1..Len(front) PROVE front[k] \notin {Comma, Semicolon}
        <3>1. CASE k <= Len(sp) \/ k > Len(sp) + Len(t)
            BY <1>12, <2>1, <3>1
        <3>2. CASE ~(k <= Len(sp) \/ k > Len(sp) + Len(t))
            <4>1. k - Len(sp) \in 1..Len(t) /\ Len(sp) + (k - Len(sp)) = k
                BY <1>4, <1>8, <1>9, <1>10, <3>2
            <4>2. front[k] = t[k - Len(sp)]
                BY <1>11, <4>1
            <4> QED
                BY <1>13, <4>1, <4>2 DEF Separators
        <3> QED
            BY <3>1, <3>2
    <2> QED
        BY <1>9, <2>2, BeforeSeparator DEF Separators
<1>15. trimSpace(front) = t
    <2>1. Len(sp) + Len(t) <= Len(front)
        BY <1>4, <1>8, <1>9, <1>10
    <2> QED
        BY <1>4, <1>6, <1>9, <1>10, <1>11, <1>12, <1>13, <2>1, BetweenSpaces
<1>16. before(t, {Dash}) = p
    <2>1. \A k \in 1..Len(p) : p[k] \notin {Dash}
        BY <1>2, <1>3
    <2> QED
        BY <1>3, <1>5, <2>1, BeforeSeparator DEF t
<1>17. lower(p) = <<Lower[r.primary]>>
    BY <1>1 DEF lower, p
<1> QED
    BY <1>14, <1>15, <1>16, <1>17 DEF localeFrom, front, sp, p, region

\* A header without a language gives no locale.
LEMMA NoLanguage == localeFrom(Format(<<>>)) = <<>>
<1>1. Format(<<>>) = <<>>
    BY DEF Format, FlattenSeq
<1>2. \A seps : before(<<>>, seps) = <<>>
    BY DEF before, SelectInSeq
<1>3. trimSpace(<<>>) = <<>>
    BY DEF trimSpace
<1>4. lower(<<>>) = <<>>
    BY DEF lower
<1> QED
    BY <1>1, <1>2, <1>3, <1>4 DEF localeFrom

HeaderInv ==
    locale = localeFrom(Format(accept)) /\ accept \in Seq(LanguageRange)

\* For every list of languages, of any length, with any regions, weights and
\* spaces, the locale is the first language's primary subtag in lower case.
THEOREM FirstLanguageIsTaken == Spec => []FirstLanguageWins
<1>1. Init => HeaderInv
    BY RangesAssumption DEF Init, HeaderInv, LanguageRange
<1>2. HeaderInv /\ [Next]_vars => HeaderInv'
    <2> SUFFICES ASSUME HeaderInv, [Next]_vars PROVE HeaderInv'
        OBVIOUS
    <2>1. UNCHANGED request
        BY DEF Next, Step, vars, New, Lookup, CopyByte, CopyTail, Fill, EndScan, Param,
               EditInner, DropLocale
    <2>2. locale' = locale /\ accept' = accept
        BY <2>1 DEF request
    <2> QED
        BY <2>2 DEF HeaderInv
<1>3. HeaderInv => FirstLanguageWins
    <2> SUFFICES ASSUME HeaderInv PROVE FirstLanguageWins
        OBVIOUS
    <2>1. CASE accept = <<>>
        BY <2>1, NoLanguage DEF HeaderInv, FirstLanguageWins
    <2>2. CASE accept # <<>>
        <3>1. accept \in Seq(LanguageRange) /\ Len(accept) >= 1
            BY <2>2, EmptySeq, LenProperties DEF HeaderInv
        <3> DEFINE r == accept[1]
                   front == ((spaces(r) \o <<r.primary>>) \o regionOf(r)) \o spaces(r)
        <3>2. r \in LanguageRange
            BY <3>1, FormatSplits
        <3>3. PICK b \in Seq(Tokens) :
                /\ Format(accept) = front \o b
                /\ b = <<>> \/ (Len(b) >= 1 /\ b[1] \in Separators)
            BY <3>1, FormatSplits
        <3>4. localeFrom(front \o b) = <<Lower[r.primary]>>
            BY <3>2, <3>3, FirstLanguage
        <3> QED
            BY <2>2, <3>3, <3>4 DEF HeaderInv, FirstLanguageWins
    <2> QED
        BY <2>1, <2>2
<1> QED
    BY <1>1, <1>2, <1>3, PTL DEF Spec

-----------------------------------------------------------------------------
(* The logs *)

\* The slice that a record shares with the error it was taken of never gets
\* shorter than the record needs.
SnapInv ==
    /\ fields \in Seq(Keys \X Vals)
    /\ rec # Empty => rec.n \in 0..Len(fields)
    /\ RecordIsASnapshot

\* What Append does behind a prefix does not show in it.
LEMMA AppendKeepsPrefix ==
    ASSUME NEW S, NEW s \in Seq(S), NEW x \in S, NEW n \in 0..Len(s)
    PROVE  /\ n \in 0..Len(Append(s, x))
           /\ SubSeq(Append(s, x), 1, n) = SubSeq(s, 1, n)
<1> DEFINE t == Append(s, x)
<1>1. t \in Seq(S) /\ Len(t) = Len(s) + 1 /\ \A j \in 1..Len(s) : t[j] = s[j]
    BY AppendProperties
<1>2. Len(s) \in Nat
    BY LenProperties
<1> HIDE DEF t
<1>3. /\ SubSeq(t, 1, n) \in Seq(S) /\ SubSeq(s, 1, n) \in Seq(S)
      /\ Len(SubSeq(t, 1, n)) = n /\ Len(SubSeq(s, 1, n)) = n
      /\ \A j \in 1..n : SubSeq(t, 1, n)[j] = t[j] /\ SubSeq(s, 1, n)[j] = s[j]
    BY <1>1, <1>2, SubSeqProperties
<1>4. SubSeq(t, 1, n) = SubSeq(s, 1, n)
    BY <1>1, <1>2, <1>3, SeqEqual
<1> QED
    BY <1>1, <1>2, <1>4 DEF t

\* Every step leaves a record the fields it was taken with.
LEMMA StepKeepsSnapInv == SnapInv /\ [LogNext]_logVars => SnapInv'
<1> SUFFICES ASSUME SnapInv, [LogNext]_logVars PROVE SnapInv'
    OBVIOUS
<1> USE DEF SnapInv, RecordIsASnapshot, fieldsOf
<1>1. CASE UNCHANGED <<fields, logged>>
    BY <1>1 DEF logged
<1>2. /\ \A t : Internal(t) => UNCHANGED <<fields, logged>>
      /\ \A s : Status(s) => UNCHANGED <<fields, logged>>
      /\ \A c : Wrap(c) => UNCHANGED <<fields, logged>>
      /\ \A c, t : BuildOnCause(c, t) => UNCHANGED <<fields, logged>>
    BY DEF Internal, Status, Wrap, BuildOnCause
<1>3. ASSUME NEW k \in Keys, NEW v \in Vals, WithInternal(k, v) PROVE SnapInv'
    <2>1. fields' = Append(fields, <<k, v>>) /\ rec' = rec /\ seen' = seen
        BY <1>3 DEF WithInternal, logged
    <2>2. fields' \in Seq(Keys \X Vals)
        BY <2>1, AppendProperties
    <2>3. ASSUME rec # Empty
          PROVE  rec.n \in 0..Len(fields') /\ SubSeq(fields', 1, rec.n) = SubSeq(fields, 1, rec.n)
        BY <2>1, <2>3, AppendKeepsPrefix
    <2> QED
        BY <2>1, <2>2, <2>3
<1>4. CASE Take
    <2>1. LogRecord.n \in 0..Len(fields)
        BY LenProperties DEF LogRecord, recordOf
    <2> QED
        BY <1>4, <2>1 DEF Take
<1>5. ASSUME NEW a \in Adapters, Log(a) PROVE SnapInv'
    BY <1>5 DEF Log
<1>6. CASE UNCHANGED logVars
    BY <1>6 DEF logVars
<1> QED
    BY <1>1, <1>2, <1>3, <1>4, <1>5, <1>6 DEF LogNext

\* Building on after LogRecord never shows in the fields of the record, for any
\* number of them and however the adapters' writes come in between.
THEOREM RecordsAreSnapshots == LogSpec => []RecordIsASnapshot
<1>1. LogInit => SnapInv
    BY DEF LogInit, SnapInv, RecordIsASnapshot
<1>2. SnapInv => RecordIsASnapshot
    BY DEF SnapInv
<1> QED
    BY <1>1, <1>2, StepKeepsSnapInv, PTL DEF LogSpec

-----------------------------------------------------------------------------
(* What a map makes of pairs *)

\* A set of positions has a last one.
LEMMA LastPosition ==
    ASSUME NEW len \in Nat, NEW T \in SUBSET (1..len), T # {}
    PROVE  \E n \in T : \A m \in T : m <= n
<1> DEFINE U == {len - t : t \in T}
<1>1. U \in SUBSET Nat /\ U # {}
    <2>1. \A t \in T : len - t \in Nat
        OBVIOUS
    <2>2. PICK t \in T : TRUE
        OBVIOUS
    <2>3. len - t \in U
        OBVIOUS
    <2> QED
        BY <2>1, <2>3
<1>2. PICK u \in U : \A w \in U : u <= w
    <2> HIDE DEF U
    <2> QED
        BY <1>1, Least
<1>3. PICK n \in T : u = len - n
    OBVIOUS
<1>4. ASSUME NEW m \in T PROVE m <= n
    <2>1. u <= len - m
        BY <1>2
    <2> QED
        BY <1>3, <2>1
<1> QED
    BY <1>4

keysOf(pairs) == {pairs[p][1] : p \in DOMAIN pairs}

IsLast(pairs, k, p) ==
    /\ p \in 1..Len(pairs) /\ pairs[p][1] = k
    /\ \A q \in p + 1..Len(pairs) : pairs[q][1] # k

\* Every key has a last pair, which is the one that a map keeps.
LEMMA LastPair ==
    ASSUME NEW S, NEW pairs \in Seq(S), NEW k \in keysOf(pairs)
    PROVE  \E p : IsLast(pairs, k, p)
<1> DEFINE T == {p \in 1..Len(pairs) : pairs[p][1] = k}
<1>1. Len(pairs) \in Nat /\ DOMAIN pairs = 1..Len(pairs)
    BY LenProperties
<1>2. T # {} /\ T \in SUBSET (1..Len(pairs))
    BY <1>1 DEF keysOf
<1>3. PICK p \in T : \A q \in T : q <= p
    <2> HIDE DEF T
    <2> QED
        BY <1>1, <1>2, LastPosition
<1>4. ASSUME NEW q \in p + 1..Len(pairs) PROVE pairs[q][1] # k
    <2>1. q \in 1..Len(pairs) /\ p \in Nat /\ ~(q <= p)
        BY <1>1
    <2> QED
        BY <1>3, <2>1
<1> QED
    BY <1>4 DEF IsLast

\* bindings holds each name's last value.
LEMMA BindingsAt ==
    ASSUME NEW S, NEW pairs \in Seq(S)
    PROVE  /\ DOMAIN bindings(pairs) = keysOf(pairs)
           /\ bindings(pairs) = [k \in keysOf(pairs) |-> bindings(pairs)[k]]
           /\ \A k, p : IsLast(pairs, k, p) => bindings(pairs)[k] = pairs[p][2]
<1>1. Len(pairs) \in Nat /\ DOMAIN pairs = 1..Len(pairs)
    BY LenProperties
<1>2. ASSUME NEW k, NEW p, NEW q, IsLast(pairs, k, p), IsLast(pairs, k, q) PROVE p = q
    <2>1. p \in Nat /\ q \in Nat /\ p \in 1..Len(pairs) /\ q \in 1..Len(pairs)
        BY <1>1, <1>2 DEF IsLast
    <2>2. ~(p < q) /\ ~(q < p)
        BY <1>1, <1>2, <2>1 DEF IsLast
    <2> QED
        BY <2>1, <2>2
<1>3. ASSUME NEW k, NEW p, IsLast(pairs, k, p) PROVE bindings(pairs)[k] = pairs[p][2]
    <2> DEFINE c == CHOOSE q \in DOMAIN pairs :
                      pairs[q][1] = k /\ \A j \in q + 1..Len(pairs) : pairs[j][1] # k
    <2>1. k \in keysOf(pairs)
        BY <1>1, <1>3 DEF keysOf, IsLast
    <2>2. bindings(pairs)[k] = pairs[c][2]
        BY <2>1 DEF bindings, keysOf
    <2>3. IsLast(pairs, k, c)
        BY <1>1, <1>3 DEF IsLast
    <2> HIDE DEF c
    <2> QED
        BY <1>2, <1>3, <2>2, <2>3
<1>4. /\ DOMAIN bindings(pairs) = keysOf(pairs)
      /\ bindings(pairs) = [k \in keysOf(pairs) |-> bindings(pairs)[k]]
    BY DEF bindings, keysOf
<1> QED
    BY <1>3, <1>4

\* One more pair is one more assignment.
LEMMA BindingsOfMore ==
    ASSUME NEW S, NEW pairs \in Seq(S), NEW n \in 1..Len(pairs)
    PROVE  bindings(SubSeq(pairs, 1, n)) = put(bindings(SubSeq(pairs, 1, n - 1)), pairs[n])
<1> DEFINE s == SubSeq(pairs, 1, n - 1)
           t == SubSeq(pairs, 1, n)
           c == pairs[n]
<1>1. /\ s \in Seq(S) /\ t \in Seq(S) /\ Len(s) = n - 1 /\ Len(t) = n
      /\ DOMAIN s = 1..n - 1 /\ DOMAIN t = 1..n
      /\ \A p \in 1..n - 1 : s[p] = pairs[p]
      /\ \A p \in 1..n : t[p] = pairs[p]
    <2>1. Len(pairs) \in Nat /\ \A p \in 1..Len(pairs) : pairs[p] \in S
        BY LenProperties, ElementOfSeq
    <2>2. n \in Nat /\ n >= 1 /\ n <= Len(pairs)
        BY <2>1
    <2>3. /\ (\A p \in 1..n - 1 : pairs[p] \in S) /\ n - 1 \in Int
          /\ (IF 1 <= n - 1 THEN n - 1 - 1 + 1 ELSE 0) = n - 1 /\ n - 1 - 1 + 1 = n - 1
          /\ \A p \in 1..n : 1 + p - 1 = p
        BY <2>1, <2>2
    <2>4. s \in Seq(S) /\ Len(s) = n - 1 /\ \A p \in 1..n - 1 : s[p] = pairs[p]
        <3>1. /\ s \in Seq(S) /\ Len(s) = IF 1 <= n - 1 THEN n - 1 - 1 + 1 ELSE 0
              /\ \A p \in 1..n - 1 - 1 + 1 : s[p] = pairs[1 + p - 1]
            BY <2>3, SubSeqProperties
        <3> HIDE DEF s
        <3> QED
            BY <2>2, <2>3, <3>1
    <2>5. t \in Seq(S) /\ Len(t) = n /\ \A p \in 1..n : t[p] = pairs[p]
        <3>1. /\ t \in Seq(S) /\ Len(t) = IF 1 <= n THEN n - 1 + 1 ELSE 0
              /\ \A p \in 1..n - 1 + 1 : t[p] = pairs[1 + p - 1]
            BY <2>1, <2>2, SubSeqProperties
        <3> HIDE DEF t
        <3> QED
            BY <2>2, <3>1
    <2> HIDE DEF s, t
    <2> QED
        BY <2>2, <2>4, <2>5, LenProperties
<1> HIDE DEF s, t
<1>2. n \in Nat /\ n >= 1
    BY LenProperties
<1>3. keysOf(t) = keysOf(s) \cup {c[1]}
    <2>1. /\ DOMAIN t = (1..n - 1) \cup {n} /\ DOMAIN s = 1..n - 1 /\ t[n] = c
          /\ \A p \in 1..n - 1 : t[p] = s[p]
        BY <1>1, <1>2
    <2> HIDE DEF c
    <2>2. \A k \in keysOf(t) : k \in keysOf(s) \cup {c[1]}
        BY <2>1 DEF keysOf
    <2>3. \A k \in keysOf(s) : k \in keysOf(t)
        BY <2>1 DEF keysOf
    <2>4. c[1] \in keysOf(t)
        BY <2>1 DEF keysOf
    <2> QED
        BY <2>2, <2>3, <2>4
<1>4. bindings(t)[c[1]] = c[2]
    <2>1. IsLast(t, c[1], n)
        BY <1>1, <1>2 DEF IsLast
    <2> QED
        BY <1>1, <2>1, BindingsAt
<1>5. ASSUME NEW k \in keysOf(s), k # c[1] PROVE bindings(t)[k] = bindings(s)[k]
    <2>1. PICK p : IsLast(s, k, p)
        BY <1>1, LastPair
    <2>2. IsLast(t, k, p) /\ p \in 1..n - 1
        <3>1. p \in 1..n - 1 /\ s[p][1] = k /\ \A q \in p + 1..n - 1 : s[q][1] # k
            BY <1>1, <2>1 DEF IsLast
        <3>2. p \in 1..n /\ t[p][1] = k
            BY <1>1, <1>2, <3>1
        <3>3. ASSUME NEW q \in p + 1..n PROVE t[q][1] # k
            <4>1. q = n \/ (q \in 1..n - 1 /\ q \in p + 1..n - 1)
                BY <1>2, <3>1
            <4> QED
                BY <1>1, <1>5, <3>1, <4>1
        <3> QED
            BY <1>1, <3>1, <3>2, <3>3 DEF IsLast
    <2>3. bindings(t)[k] = t[p][2] /\ bindings(s)[k] = s[p][2]
        BY <1>1, <2>1, <2>2, BindingsAt
    <2> QED
        BY <1>1, <1>2, <2>2, <2>3
<1>6. /\ DOMAIN bindings(s) = keysOf(s)
      /\ bindings(t) = [k \in keysOf(t) |-> bindings(t)[k]]
    BY <1>1, BindingsAt
<1>7. \A k \in keysOf(t) : bindings(t)[k] = IF k = c[1] THEN c[2] ELSE bindings(s)[k]
    BY <1>3, <1>4, <1>5
<1>8. put(bindings(s), c) =
          [k \in keysOf(t) |-> IF k = c[1] THEN c[2] ELSE bindings(s)[k]]
    BY <1>3, <1>6 DEF put
<1>9. bindings(t) = put(bindings(s), c)
    BY <1>6, <1>7, <1>8
<1> QED
    BY <1>9 DEF s, t

\* Assigning pairs one after the other leaves the last value of every key.
LEMMA LastValueStays ==
    ASSUME NEW S, NEW pairs \in Seq(S)
    PROVE  putAll(pairs) = bindings(pairs)
<1> DEFINE g == [n \in 0..Len(pairs) |-> bindings(SubSeq(pairs, 1, n))]
           IsFold(f) == f = [n \in 0..Len(pairs) |->
                              IF n = 0 THEN [k \in {} |-> Empty] ELSE put(f[n - 1], pairs[n])]
           m == CHOOSE f : IsFold(f)
<1>1. Len(pairs) \in Nat
    BY LenProperties
<1>2. g[0] = [k \in {} |-> Empty]
    <2>1. SubSeq(pairs, 1, 0) = <<>>
        BY SubSeqEmpty
    <2>2. bindings(<<>>) = [k \in {} |-> Empty]
        <3>1. DOMAIN bindings(<<>>) = {} /\ bindings(<<>>) = [k \in {} |-> bindings(<<>>)[k]]
            <4>1. <<>> \in Seq(S) /\ keysOf(<<>>) = {}
                BY DEF keysOf
            <4> QED
                BY <4>1, BindingsAt
        <3> QED
            BY <3>1
    <2>3. g[0] = bindings(SubSeq(pairs, 1, 0))
        <3>1. 0 \in 0..Len(pairs)
            BY <1>1
        <3> QED
            BY <3>1
    <2>4. g[0] = bindings(<<>>)
        BY <2>1, <2>3
    <2> HIDE DEF g
    <2> QED
        BY <2>2, <2>4
<1>3. \A n \in 1..Len(pairs) : g[n] = put(g[n - 1], pairs[n])
    <2> TAKE n \in 1..Len(pairs)
    <2>1. n \in 0..Len(pairs) /\ n - 1 \in 0..Len(pairs)
        BY <1>1
    <2> QED
        BY <2>1, BindingsOfMore
<1>4. g = [n \in 0..Len(pairs) |-> g[n]]
    OBVIOUS
<1>5. g[Len(pairs)] = bindings(pairs)
    <2>1. SubSeq(pairs, 1, Len(pairs)) = pairs /\ Len(pairs) \in 0..Len(pairs)
        BY <1>1, SubSeqFull
    <2>2. g[Len(pairs)] = bindings(SubSeq(pairs, 1, Len(pairs)))
        BY <2>1
    <2> QED
        BY <2>1, <2>2
<1> HIDE DEF g
<1>6. IsFold(g)
    BY <1>1, <1>2, <1>3, <1>4
<1>7. IsFold(m)
    BY <1>6
<1>8. putAll(pairs) = m[Len(pairs)]
    BY DEF putAll
<1> HIDE DEF m
<1>9. /\ m[0] = [k \in {} |-> Empty]
      /\ \A n \in 1..Len(pairs) : m[n] = put(m[n - 1], pairs[n])
    BY <1>1, <1>7
<1> DEFINE T == {n \in 0..Len(pairs) : m[n] # g[n]}
<1>10. T = {}
    <2> SUFFICES ASSUME T # {} PROVE FALSE
        OBVIOUS
    <2>1. T \in SUBSET Nat
        BY <1>1
    <2>2. PICK n \in T : \A q \in T : n <= q
        <3> HIDE DEF T
        <3> QED
            BY <2>1, Least
    <2>3. n \in 1..Len(pairs) /\ n - 1 \in 0..Len(pairs) /\ ~(n <= n - 1)
        BY <1>1, <1>2, <1>9
    <2>4. m[n - 1] = g[n - 1]
        BY <2>2, <2>3
    <2> QED
        BY <1>3, <1>9, <2>3, <2>4
<1>11. m[Len(pairs)] = g[Len(pairs)]
    BY <1>1, <1>10
<1> QED
    BY <1>5, <1>8, <1>11

\* A pair put between those with other names and the rest adds its name and
\* changes no value of the others.
LEMMA OneMoreName ==
    ASSUME NEW S, NEW s \in Seq(S), NEW t \in Seq(S), NEW c \in S,
           c[1] \notin keysOf(s)
    PROVE  LET more == s \o <<c>> \o t
           IN  /\ keysOf(more) = keysOf(s \o t) \cup {c[1]}
               /\ \A k \in keysOf(s \o t) : bindings(more)[k] = bindings(s \o t)[k]
<1> DEFINE more == s \o <<c>> \o t
           less == s \o t
           ls == Len(s)
           lt == Len(t)
<1>1. /\ ls \in Nat /\ lt \in Nat /\ DOMAIN s = 1..ls
      /\ less \in Seq(S) /\ Len(less) = ls + lt /\ DOMAIN less = 1..ls + lt
      /\ \A p \in 1..ls + lt : less[p] = IF p <= ls THEN s[p] ELSE t[p - ls]
    BY ConcatProperties, LenProperties
<1>2. /\ s \o <<c>> \in Seq(S) /\ Len(s \o <<c>>) = ls + 1
      /\ \A p \in 1..ls + 1 : (s \o <<c>>)[p] = IF p <= ls THEN s[p] ELSE c
    <2>1. <<c>> \in Seq(S) /\ Len(<<c>>) = 1 /\ <<c>>[1] = c
        OBVIOUS
    <2>2. /\ s \o <<c>> \in Seq(S) /\ Len(s \o <<c>>) = ls + 1
          /\ \A p \in 1..ls + 1 : (s \o <<c>>)[p] = IF p <= ls THEN s[p] ELSE <<c>>[p - ls]
        BY <2>1, ConcatProperties
    <2>3. \A p \in 1..ls + 1 : ~(p <= ls) => p - ls = 1
        BY <1>1
    <2> QED
        BY <2>1, <2>2, <2>3
<1>3. /\ more \in Seq(S) /\ Len(more) = ls + 1 + lt /\ DOMAIN more = 1..ls + 1 + lt
      /\ \A p \in 1..ls + 1 + lt :
            more[p] = IF p <= ls + 1 THEN (s \o <<c>>)[p] ELSE t[p - (ls + 1)]
    BY <1>2, ConcatProperties, LenProperties
<1>4. \A p \in 1..ls : more[p] = s[p] /\ less[p] = s[p]
    BY <1>1, <1>2, <1>3
<1>5. more[ls + 1] = c
    BY <1>1, <1>2, <1>3
<1>6. \A p \in ls + 1..ls + lt : more[p + 1] = less[p]
    <2> TAKE p \in ls + 1..ls + lt
    <2>1. /\ p + 1 \in 1..ls + 1 + lt /\ ~(p + 1 <= ls + 1) /\ p \in 1..ls + lt /\ ~(p <= ls)
          /\ p + 1 - (ls + 1) = p - ls
        BY <1>1
    <2> QED
        BY <1>1, <1>3, <2>1
<1> HIDE DEF more, less, ls, lt
<1>7. keysOf(more) = keysOf(less) \cup {c[1]}
    <2>1. ASSUME NEW k \in keysOf(more) PROVE k \in keysOf(less) \cup {c[1]}
        <3>1. PICK p \in 1..ls + 1 + lt : k = more[p][1]
            BY <1>3 DEF keysOf
        <3>2. CASE p \in 1..ls
            <4>1. more[p] = less[p] /\ p \in 1..ls + lt
                BY <1>1, <1>4, <3>2
            <4> QED
                BY <1>1, <3>1, <4>1 DEF keysOf
        <3>3. CASE p = ls + 1
            BY <1>5, <3>1, <3>3
        <3>4. CASE p - 1 \in ls + 1..ls + lt
            <4>1. more[p] = less[p - 1] /\ p - 1 \in 1..ls + lt
                BY <1>1, <1>6, <3>1, <3>4
            <4> QED
                BY <1>1, <3>1, <4>1 DEF keysOf
        <3> QED
            BY <1>1, <3>1, <3>2, <3>3, <3>4
    <2>2. ASSUME NEW k \in keysOf(less) PROVE k \in keysOf(more)
        <3>1. PICK p \in 1..ls + lt : k = less[p][1]
            BY <1>1 DEF keysOf
        <3>2. CASE p <= ls
            <4>1. p \in 1..ls /\ p \in 1..ls + 1 + lt
                BY <1>1, <3>1, <3>2
            <4> QED
                BY <1>3, <1>4, <3>1, <4>1 DEF keysOf
        <3>3. CASE ~(p <= ls)
            <4>1. p \in ls + 1..ls + lt /\ p + 1 \in 1..ls + 1 + lt
                BY <1>1, <3>1, <3>3
            <4> QED
                BY <1>3, <1>6, <3>1, <4>1 DEF keysOf
        <3> QED
            BY <3>2, <3>3
    <2>3. c[1] \in keysOf(more)
        <3>1. ls + 1 \in DOMAIN more
            BY <1>1, <1>3
        <3> QED
            BY <1>5, <3>1 DEF keysOf
    <2> QED
        BY <2>1, <2>2, <2>3
<1>8. ASSUME NEW k \in keysOf(less) PROVE bindings(more)[k] = bindings(less)[k]
    <2>1. PICK p : IsLast(less, k, p)
        BY <1>1, LastPair
    <2>2. p \in 1..ls + lt /\ less[p][1] = k /\ \A q \in p + 1..ls + lt : less[q][1] # k
        BY <1>1, <2>1 DEF IsLast
    <2>3. bindings(less)[k] = less[p][2]
        BY <1>1, <2>1, BindingsAt
    <2>4. CASE p <= ls
        <3>0. p \in 1..ls /\ p \in 1..ls + 1 + lt
            BY <1>1, <2>2, <2>4
        <3>1. more[p] = less[p] /\ s[p][1] = k
            BY <1>4, <2>2, <3>0
        <3>2. c[1] # k
            <4>1. k \in keysOf(s)
                BY <1>1, <3>0, <3>1 DEF keysOf
            <4> QED
                BY <4>1
        <3>3. ASSUME NEW q \in p + 1..ls + 1 + lt PROVE more[q][1] # k
            <4>1. CASE q <= ls
                <5>1. q \in 1..ls /\ q \in p + 1..ls + lt
                    BY <1>1, <2>2, <4>1
                <5> QED
                    BY <1>4, <2>2, <5>1
            <4>2. CASE q = ls + 1
                BY <1>5, <3>2, <4>2
            <4>3. CASE q > ls + 1
                <5>1. q - 1 \in ls + 1..ls + lt /\ q - 1 \in p + 1..ls + lt /\ q - 1 + 1 = q
                    BY <1>1, <2>2, <2>4, <4>3
                <5> QED
                    BY <1>6, <2>2, <5>1
            <4> QED
                BY <1>1, <2>2, <4>1, <4>2, <4>3
        <3>4. IsLast(more, k, p)
            BY <1>3, <2>2, <3>0, <3>1, <3>3 DEF IsLast
        <3> QED
            BY <1>3, <2>3, <3>1, <3>4, BindingsAt
    <2>5. CASE ~(p <= ls)
        <3>1. p \in ls + 1..ls + lt /\ p + 1 \in 1..ls + 1 + lt /\ more[p + 1] = less[p]
            BY <1>1, <1>6, <2>2, <2>5
        <3>2. ASSUME NEW q \in p + 1 + 1..ls + 1 + lt PROVE more[q][1] # k
            <4>1. q - 1 \in ls + 1..ls + lt /\ q - 1 \in p + 1..ls + lt /\ q - 1 + 1 = q
                BY <1>1, <2>2, <2>5
            <4> QED
                BY <1>6, <2>2, <4>1
        <3>3. IsLast(more, k, p + 1)
            BY <1>3, <2>2, <3>1, <3>2 DEF IsLast
        <3> QED
            BY <1>3, <2>3, <3>1, <3>3, BindingsAt
    <2> QED
        BY <2>4, <2>5
<1> QED
    BY <1>7, <1>8 DEF more, less

-----------------------------------------------------------------------------
(* The adapters *)

PartNames == {"code", "internal", "trace_id", "status", "cause"}
Written == {rec.code, rec.internal, rec.trace, rec.status, rec.stack}
             \cup {said[a] : a \in Adapters} \cup Vals
Pairs == (PartNames \cup {"stack"} \cup Keys) \X Written

\* What an adapter makes of the record, with the cause as it read then.
pairsFor(a) == parts(rec, said[a]) \o stackPart(rec) \o seen
attributesFor(a) == IF a = "logrus" THEN putAll(pairsFor(a)) ELSE pairsFor(a)

entryFor(a) == [level |-> levelFor(rec.status), message |-> rec.code,
                attributes |-> attributesFor(a)]

\* What has been written is an entry of the record, which is never taken again.
StreamsInv ==
    /\ DOMAIN streams = Adapters /\ DOMAIN wrapped = Adapters /\ DOMAIN said = Adapters
    /\ \A a \in Adapters : wrapped[a] \in DOMAIN Loggers \cup {Nil}
    /\ \A a \in Adapters :
         streams[a] # <<>> => rec # Empty /\ streams[a] = <<entryFor(a)>>

LogInv == SnapInv /\ StreamsInv

\* The fields of a record are those the error had when it was made.
LEMMA RecordedFields ==
    ASSUME SnapInv, rec # Empty
    PROVE  fieldsOf(rec) = seen /\ seen \in Seq(Keys \X Vals)
<1>1. fieldsOf(rec) = seen
    BY DEF SnapInv, RecordIsASnapshot
<1>2. Len(fields) \in Nat /\ \A p \in 1..Len(fields) : fields[p] \in Keys \X Vals
    BY LenProperties, ElementOfSeq DEF SnapInv
<1>3. SubSeq(fields, 1, rec.n) \in Seq(Keys \X Vals)
    <2>1. rec.n \in Int /\ \A p \in 1..rec.n : fields[p] \in Keys \X Vals
        BY <1>2 DEF SnapInv
    <2> QED
        BY <2>1, SubSeqProperties
<1> QED
    BY <1>1, <1>3 DEF fieldsOf

entryOf(list, a) == [level |-> levelFor(rec.status), message |-> rec.code,
                     attributes |-> IF a = "logrus" THEN putAll(list) ELSE list]

\* An adapter writes the one entry of a record, or nothing where its logger does
\* not keep the level.
LEMMA OneEntryOrNone ==
    ASSUME NEW a \in Adapters, SnapInv, rec # Empty, NEW t,
           NEW l \in DOMAIN Loggers \cup {Nil}
    PROVE  \/ written(a, rec, t, l) = <<>>
           \/ /\ written(a, rec, t, l) = <<entryOf(parts(rec, t) \o stackPart(rec) \o seen, a)>>
              /\ l # Nil => levelFor(rec.status) \in Loggers[l]
<1>1. fieldsOf(rec) = seen
    BY RecordedFields
<1> USE DEF written, entryOf, write
<1>2. CASE a = "slog"
    BY <1>1, <1>2 DEF slogLog, slogNew, slogAttrs
<1>3. CASE a = "zap"
    BY <1>1, <1>3 DEF zapLog, zapNew, zapFields
<1>4. CASE a = "zerolog"
    BY <1>1, <1>4 DEF zerologLog, zerologNew, zerologFields
<1>5. CASE a = "logrus"
    BY <1>1, <1>5 DEF logrusLog, logrusNew, logrusFields, levelFor
<1> QED
    BY <1>2, <1>3, <1>4, <1>5 DEF Adapters

\* What a call of Log does to the stream of its adapter, and to no other.
LEMMA LogWrites ==
    ASSUME LogInv, NEW a \in Adapters, Log(a)
    PROVE  /\ UNCHANGED <<wrapped, rec, seen>> /\ rec # Empty
           /\ DOMAIN streams' = Adapters /\ DOMAIN said' = Adapters
           /\ \A b \in Adapters \ {a} :
                streams'[b] = streams[b] /\ entryFor(b)' = entryFor(b)
           /\ \/ streams'[a] = <<>> /\ streams[a] = <<>>
              \/ /\ streams'[a] = <<entryFor(a)'>>
                 /\ wrapped[a] # Nil => levelFor(rec.status) \in Loggers[wrapped[a]]
<1> DEFINE t == causeText(rec)
           w == written(a, rec, t, wrapped[a])
           x == entryOf(parts(rec, t) \o stackPart(rec) \o seen, a)
<1>1. /\ rec # Empty /\ streams[a] = <<>>
      /\ streams' = [streams EXCEPT ![a] = @ \o w] /\ said' = [said EXCEPT ![a] = t]
      /\ UNCHANGED <<wrapped, rec, seen>>
    BY DEF Log
<1>2. \/ w = <<>>
      \/ /\ w = <<x>>
         /\ wrapped[a] # Nil => levelFor(rec.status) \in Loggers[wrapped[a]]
    <2>1. SnapInv /\ wrapped[a] \in DOMAIN Loggers \cup {Nil}
        BY DEF LogInv, StreamsInv
    <2> QED
        BY <1>1, <2>1, OneEntryOrNone
<1> HIDE DEF t
<1>3. /\ DOMAIN streams = Adapters /\ DOMAIN said' = Adapters /\ said'[a] = t
      /\ \A b \in Adapters \ {a} : said'[b] = said[b]
    <2>1. DOMAIN streams = Adapters /\ DOMAIN said = Adapters
        BY DEF LogInv, StreamsInv
    <2> QED
        BY <1>1, <2>1
<1>4. entryFor(a)' = x
    BY <1>1, <1>3
    DEF entryFor, attributesFor, pairsFor, entryOf, parts, causePart, stackPart, part, levelFor
<1>5. \A b \in Adapters \ {a} : entryFor(b)' = entryFor(b)
    BY <1>1, <1>3
    DEF entryFor, attributesFor, pairsFor, parts, causePart, stackPart, part, levelFor
<1> HIDE DEF w, x
<1>6. <<>> \o w = w
    <2>1. w \in Seq({x})
        <3>1. <<>> \in Seq({x}) /\ <<x>> \in Seq({x})
            OBVIOUS
        <3> QED
            BY <1>2, <3>1
    <2> QED
        BY <2>1, ConcatEmptySeq
<1>7. /\ DOMAIN streams' = Adapters /\ streams'[a] = w
      /\ \A b \in Adapters \ {a} : streams'[b] = streams[b]
    BY <1>1, <1>3, <1>6
<1> QED
    BY <1>1, <1>2, <1>3, <1>4, <1>5, <1>7

\* Every step keeps the record and the streams in step.
LEMMA StepKeepsLogInv == LogInv /\ [LogNext]_logVars => LogInv'
<1> SUFFICES ASSUME LogInv, [LogNext]_logVars PROVE LogInv'
    OBVIOUS
<1>1. SnapInv'
    BY StepKeepsSnapInv DEF LogInv
<1> USE DEF LogInv
<1>2. CASE UNCHANGED logged
    <2>1. UNCHANGED <<rec, seen, wrapped, streams, said>>
        BY <1>2 DEF logged
    <2>2. \A a : entryFor(a)' = entryFor(a)
        BY <2>1
        DEF entryFor, attributesFor, pairsFor, parts, causePart, stackPart, part, levelFor
    <2> QED
        BY <1>1, <2>1, <2>2 DEF StreamsInv
<1>3. CASE Take
    <2>1. rec = Empty /\ UNCHANGED <<wrapped, streams, said>>
        BY <1>3 DEF Take
    <2>2. \A a \in Adapters : streams[a] = <<>>
        BY <2>1 DEF StreamsInv
    <2> QED
        BY <1>1, <2>1, <2>2 DEF StreamsInv
<1>4. ASSUME NEW a \in Adapters, Log(a) PROVE LogInv'
    <2>1. /\ UNCHANGED <<wrapped, rec, seen>> /\ rec # Empty
          /\ DOMAIN streams' = Adapters /\ DOMAIN said' = Adapters
          /\ \A b \in Adapters \ {a} :
                streams'[b] = streams[b] /\ entryFor(b)' = entryFor(b)
          /\ streams'[a] = <<>> \/ streams'[a] = <<entryFor(a)'>>
        BY <1>4, LogWrites
    <2>2. \A b \in Adapters :
            streams'[b] # <<>> => rec' # Empty /\ streams'[b] = <<entryFor(b)'>>
        BY <2>1 DEF StreamsInv
    <2> QED
        BY <1>1, <2>1, <2>2 DEF StreamsInv
<1>5. /\ \A t : Internal(t) => UNCHANGED logged
      /\ \A s : Status(s) => UNCHANGED logged
      /\ \A c : Wrap(c) => UNCHANGED logged
      /\ \A c, t : BuildOnCause(c, t) => UNCHANGED logged
      /\ \A k, v : WithInternal(k, v) => UNCHANGED logged
    BY DEF Internal, Status, Wrap, BuildOnCause, WithInternal
<1>6. UNCHANGED logVars => UNCHANGED logged
    BY DEF logVars, logged
<1> QED
    BY <1>2, <1>3, <1>4, <1>5, <1>6 DEF LogNext

\* They are in step from the start.
LEMMA LogInvHolds == LogSpec => []LogInv
<1>1. LogInit => LogInv
    <2> SUFFICES ASSUME LogInit PROVE LogInv
        OBVIOUS
    <2>1. SnapInv
        BY DEF LogInit, SnapInv, RecordIsASnapshot
    <2>2. StreamsInv
        BY DEF LogInit, StreamsInv
    <2> QED
        BY <2>1, <2>2 DEF LogInv
<1> QED
    BY <1>1, StepKeepsLogInv, PTL DEF LogSpec

\* For all loggers and all statuses, a record becomes one entry at most, titled
\* with its code, loud exactly for a server fault, and only on a level that the
\* application's logger keeps.
THEOREM OneEntryEach == LogSpec => OneEntryPerRecord
<1> DEFINE Good(a) ==
             streams'[a] # streams[a] =>
                 /\ Len(streams'[a]) = 1
                 /\ LET x == streams'[a][1]
                    IN  /\ x.message = rec.code
                        /\ x.level = IF rec.status >= 500 THEN "error" ELSE "warn"
                        /\ wrapped[a] # Nil => x.level \in Loggers[wrapped[a]]
<1>1. LogInv /\ [LogNext]_logVars => [\A a \in Adapters : Good(a)]_logVars
    <2> SUFFICES ASSUME LogInv, LogNext, NEW a \in Adapters, streams'[a] # streams[a]
                 PROVE  Good(a)
        OBVIOUS
    <2>1. PICK b \in Adapters : Log(b)
        BY DEF LogNext, Internal, Status, Wrap, BuildOnCause, WithInternal, Take, logged
    <2>2. a = b
        BY <2>1, LogWrites
    <2>3. /\ streams'[a] = <<entryFor(a)'>> /\ rec' = rec
          /\ wrapped[a] # Nil => levelFor(rec.status) \in Loggers[wrapped[a]]
        BY <2>1, <2>2, LogWrites
    <2> QED
        BY <2>3 DEF entryFor, levelFor
<1> QED
    BY <1>1, LogInvHolds, PTL DEF LogSpec, OneEntryPerRecord

\* A part is at most one pair.
LEMMA PartIsSeq ==
    ASSUME NEW k, NEW v, NEW S, <<k, v>> \in S PROVE part(k, v) \in Seq(S)
<1>1. ASSUME NEW e \in S PROVE <<>> \in Seq(S) /\ <<e>> \in Seq(S)
    OBVIOUS
<1> QED
    BY <1>1 DEF part

\* The record's own parts are pairs whose names are none but the five.
LEMMA PartsOfRecord ==
    ASSUME NEW a \in Adapters
    PROVE  /\ parts(rec, said[a]) \in Seq(Pairs) /\ stackPart(rec) \in Seq(Pairs)
           /\ keysOf(parts(rec, said[a])) \subseteq PartNames
<1> DEFINE Own == PartNames \X Written
           P == parts(rec, said[a])
<1>1. ASSUME NEW k \in PartNames, NEW v \in Written PROVE part(k, v) \in Seq(Own)
    <2>1. <<k, v>> \in Own
        OBVIOUS
    <2> HIDE DEF Own
    <2> QED
        BY <2>1, PartIsSeq
<1>2. <<<<"code", rec.code>>>> \in Seq(Own) /\ causePart(rec, said[a]) \in Seq(Own)
    <2>1. <<"code", rec.code>> \in Own /\ <<"cause", said[a]>> \in Own
        BY DEF PartNames, Written
    <2> HIDE DEF Own
    <2> QED
        BY <2>1 DEF causePart
<1>3. /\ part("internal", rec.internal) \in Seq(Own) /\ part("trace_id", rec.trace) \in Seq(Own)
      /\ part("status", rec.status) \in Seq(Own)
    BY <1>1 DEF PartNames, Written
<1> HIDE DEF Own
<1>4. P \in Seq(Own)
    <2>1. <<<<"code", rec.code>>>> \o part("internal", rec.internal) \in Seq(Own)
        BY <1>2, <1>3, ConcatProperties
    <2>2. <<<<"code", rec.code>>>> \o part("internal", rec.internal)
            \o part("trace_id", rec.trace) \in Seq(Own)
        BY <1>3, <2>1, ConcatProperties
    <2>3. <<<<"code", rec.code>>>> \o part("internal", rec.internal)
            \o part("trace_id", rec.trace) \o part("status", rec.status) \in Seq(Own)
        BY <1>3, <2>2, ConcatProperties
    <2> QED
        BY <1>2, <2>3, ConcatProperties DEF parts
<1>5. Own \subseteq Pairs
    BY DEF Own, Pairs
<1> HIDE DEF P
<1>6. P \in Seq(Pairs)
    BY <1>4, <1>5, SeqMonotonic
<1>7. keysOf(P) \subseteq PartNames
    <2>1. ASSUME NEW p \in DOMAIN P PROVE P[p][1] \in PartNames
        <3>1. P[p] \in Own
            BY <1>4, <2>1, LenProperties, ElementOfSeq
        <3> QED
            BY <3>1 DEF Own
    <2> QED
        BY <2>1 DEF keysOf
<1>8. stackPart(rec) \in Seq(Pairs)
    <2>1. <<"stack", rec.stack>> \in Pairs
        BY DEF Pairs, Written
    <2> QED
        BY <2>1, PartIsSeq DEF stackPart
<1> QED
    BY <1>6, <1>7, <1>8 DEF P

\* The entry of an adapter is read as LogFields and Attrs say, and the stack on top.
LEMMA EntryIsAsLogFields ==
    ASSUME LogInv, NEW a \in Adapters, streams[a] # <<>>
    PROVE  AsLogFields(a) /\ reading(streams[a][1], a) = bindings(pairsFor(a))
           /\ pairsFor(a) \in Seq(Pairs)
<1> SUFFICES LET m == reading(streams[a][1], a)
                 own == {seen[j][1] : j \in DOMAIN seen}
                 flat == LogFields(rec, said[a])
             IN  /\ flat = putAll(parts(rec, said[a]) \o seen)
                 /\ flat = bindings(Attrs(rec, said[a]))
                 /\ \A k \in DOMAIN flat : m[k] = flat[k]
                 /\ DOMAIN m \ DOMAIN flat = IF rec.stack # Empty THEN {"stack"} \ own ELSE {}
                 /\ m = bindings(pairsFor(a)) /\ pairsFor(a) \in Seq(Pairs)
    BY DEF AsLogFields
<1> DEFINE P == parts(rec, said[a])
           S == stackPart(rec)
           less == P \o seen
           more == P \o S \o seen
<1>1. /\ rec # Empty /\ streams[a] = <<entryFor(a)>>
      /\ fieldsOf(rec) = seen /\ seen \in Seq(Keys \X Vals)
    BY RecordedFields DEF LogInv, StreamsInv
<1>2. P \in Seq(Pairs) /\ S \in Seq(Pairs) /\ keysOf(P) \subseteq PartNames
    BY PartsOfRecord
<1>3. seen \in Seq(Pairs)
    <2>1. Keys \X Vals \subseteq Pairs
        BY DEF Pairs, Written
    <2> QED
        BY <1>1, <2>1, SeqMonotonic
<1>4. /\ streams[a][1].attributes = IF a = "logrus" THEN putAll(more) ELSE more
      /\ pairsFor(a) = more
    BY <1>1 DEF entryFor, attributesFor, pairsFor
<1>5. LogFields(rec, said[a]) = putAll(less) /\ Attrs(rec, said[a]) = less
    BY <1>1 DEF LogFields, Attrs
<1>6. S = IF rec.stack = Empty THEN <<>> ELSE <<<<"stack", rec.stack>>>>
    BY DEF stackPart, part
<1>7. {seen[j][1] : j \in DOMAIN seen} = keysOf(seen)
    BY DEF keysOf
<1> HIDE DEF P, S
<1>8. less \in Seq(Pairs) /\ P \o S \in Seq(Pairs)
    BY <1>2, <1>3, ConcatProperties
<1>9. more \in Seq(Pairs)
    BY <1>3, <1>8, ConcatProperties
<1>10. keysOf(less) = keysOf(P) \cup keysOf(seen)
    <2>1. /\ Len(P) \in Nat /\ Len(seen) \in Nat
          /\ DOMAIN P = 1..Len(P) /\ DOMAIN seen = 1..Len(seen)
          /\ DOMAIN less = 1..Len(P) + Len(seen)
          /\ \A p \in 1..Len(P) + Len(seen) :
                less[p] = IF p <= Len(P) THEN P[p] ELSE seen[p - Len(P)]
        BY <1>2, <1>3, <1>8, ConcatProperties, LenProperties
    <2> HIDE DEF less
    <2>2. keysOf(less) \subseteq keysOf(P) \cup keysOf(seen)
        <3> SUFFICES ASSUME NEW p \in DOMAIN less
                     PROVE  less[p][1] \in keysOf(P) \cup keysOf(seen)
            BY DEF keysOf
        <3>1. CASE p <= Len(P)
            BY <2>1, <3>1 DEF keysOf
        <3>2. CASE ~(p <= Len(P))
            <4>1. p - Len(P) \in DOMAIN seen
                BY <2>1, <3>2
            <4> QED
                BY <2>1, <3>2, <4>1 DEF keysOf
        <3> QED
            BY <3>1, <3>2
    <2>3. ASSUME NEW p \in DOMAIN P PROVE P[p][1] \in keysOf(less)
        <3>1. p \in DOMAIN less /\ less[p] = P[p]
            BY <2>1
        <3> QED
            BY <3>1 DEF keysOf
    <2>4. ASSUME NEW p \in DOMAIN seen PROVE seen[p][1] \in keysOf(less)
        <3>1. p + Len(P) \in DOMAIN less /\ ~(p + Len(P) <= Len(P)) /\ p + Len(P) - Len(P) = p
            BY <2>1
        <3>2. less[p + Len(P)] = seen[p]
            BY <2>1, <3>1
        <3> QED
            BY <3>1, <3>2 DEF keysOf
    <2> QED
        BY <2>2, <2>3, <2>4 DEF keysOf
<1> HIDE DEF less, more
<1>11. putAll(less) = bindings(less) /\ putAll(more) = bindings(more)
    BY <1>8, <1>9, LastValueStays
<1>12. DOMAIN bindings(less) = keysOf(less) /\ DOMAIN bindings(more) = keysOf(more)
    BY <1>8, <1>9, BindingsAt
<1>13. reading(streams[a][1], a) = bindings(more)
    BY <1>4, <1>11 DEF reading
<1>14. CASE rec.stack = Empty
    <2>1. more = less
        BY <1>2, <1>6, <1>14, ConcatEmptySeq DEF more, less
    <2>2. /\ LogFields(rec, said[a]) = putAll(P \o seen)
          /\ LogFields(rec, said[a]) = bindings(Attrs(rec, said[a]))
        BY <1>5, <1>11 DEF less
    <2> QED
        BY <1>4, <1>5, <1>9, <1>11, <1>12, <1>13, <1>14, <2>1, <2>2 DEF P
<1>15. CASE rec.stack # Empty
    <2> DEFINE c == <<"stack", rec.stack>>
    <2>1. c \in Pairs /\ c[1] = "stack"
        BY DEF Pairs, Written
    <2>2. c[1] \notin keysOf(P)
        BY <1>2, <2>1 DEF PartNames
    <2>3. more = P \o <<c>> \o seen
        BY <1>6, <1>15 DEF more
    <2> HIDE DEF c
    <2>4. /\ keysOf(more) = keysOf(less) \cup {"stack"}
          /\ \A k \in keysOf(less) : bindings(more)[k] = bindings(less)[k]
        BY <1>2, <1>3, <2>1, <2>2, <2>3, OneMoreName DEF less
    <2>5. keysOf(more) \ keysOf(less) = {"stack"} \ keysOf(seen)
        BY <1>10, <2>1, <2>2, <2>4
    <2>6. /\ LogFields(rec, said[a]) = putAll(P \o seen)
          /\ LogFields(rec, said[a]) = bindings(Attrs(rec, said[a]))
        BY <1>5, <1>11 DEF less
    <2> QED
        BY <1>4, <1>5, <1>7, <1>9, <1>11, <1>12, <1>13, <1>15, <2>4, <2>5, <2>6 DEF P
<1> QED
    BY <1>14, <1>15

\* Two lists of pairs that differ in nothing but what they say of the cause.
SameButCause(s, t) ==
    /\ Len(s) = Len(t)
    /\ \A p \in 1..Len(s) : s[p][1] = t[p][1] /\ (s[p] = t[p] \/ s[p][1] = "cause")

\* So do the lists that they are parts of.
LEMMA SameButCauseConcat ==
    ASSUME NEW S, NEW s \in Seq(S), NEW t \in Seq(S), NEW u \in Seq(S), NEW v \in Seq(S),
           SameButCause(s, t), SameButCause(u, v)
    PROVE  SameButCause(s \o u, t \o v)
<1>1. /\ Len(s) \in Nat /\ Len(u) \in Nat /\ Len(t) = Len(s) /\ Len(v) = Len(u)
    BY LenProperties DEF SameButCause
<1>2. /\ Len(s \o u) = Len(s) + Len(u) /\ Len(t \o v) = Len(t) + Len(v)
      /\ \A p \in 1..Len(s) + Len(u) :
            (s \o u)[p] = IF p <= Len(s) THEN s[p] ELSE u[p - Len(s)]
      /\ \A p \in 1..Len(t) + Len(v) :
            (t \o v)[p] = IF p <= Len(t) THEN t[p] ELSE v[p - Len(t)]
    BY ConcatProperties
<1> DEFINE su == s \o u
           tv == t \o v
<1> HIDE DEF su, tv
<1>3. ASSUME NEW p \in 1..Len(su)
      PROVE  su[p][1] = tv[p][1] /\ (su[p] = tv[p] \/ su[p][1] = "cause")
    <2>1. CASE p <= Len(s)
        <3>1. p \in 1..Len(s) /\ su[p] = s[p] /\ tv[p] = t[p]
            BY <1>1, <1>2, <2>1 DEF su, tv
        <3> QED
            BY <3>1 DEF SameButCause
    <2>2. CASE ~(p <= Len(s))
        <3>1. p - Len(s) \in 1..Len(u) /\ su[p] = u[p - Len(s)] /\ tv[p] = v[p - Len(s)]
            BY <1>1, <1>2, <2>2 DEF su, tv
        <3> QED
            BY <3>1 DEF SameButCause
    <2> QED
        BY <2>1, <2>2
<1>4. Len(su) = Len(tv)
    BY <1>1, <1>2 DEF su, tv
<1> QED
    BY <1>3, <1>4 DEF SameButCause, su, tv

\* They are read alike, but for the cause.
LEMMA SameButCauseReads ==
    ASSUME NEW S, NEW s \in Seq(S), NEW t \in Seq(S), SameButCause(s, t)
    PROVE  /\ DOMAIN bindings(s) = DOMAIN bindings(t)
           /\ \A k \in DOMAIN bindings(s) : bindings(s)[k] = bindings(t)[k] \/ k = "cause"
<1>1. /\ Len(s) \in Nat /\ Len(t) = Len(s)
      /\ DOMAIN s = 1..Len(s) /\ DOMAIN t = 1..Len(s)
    BY LenProperties DEF SameButCause
<1>2. keysOf(s) = keysOf(t)
    BY <1>1 DEF SameButCause, keysOf
<1>3. DOMAIN bindings(s) = keysOf(s) /\ DOMAIN bindings(t) = keysOf(t)
    BY BindingsAt
<1>4. ASSUME NEW k \in keysOf(s) PROVE bindings(s)[k] = bindings(t)[k] \/ k = "cause"
    <2>1. PICK p : IsLast(s, k, p)
        BY LastPair
    <2>2. p \in 1..Len(s) /\ s[p][1] = k /\ \A q \in p + 1..Len(s) : s[q][1] # k
        BY <2>1 DEF IsLast
    <2>3. \A q \in p + 1..Len(s) : q \in 1..Len(s)
        BY <1>1, <2>2
    <2>4. IsLast(t, k, p)
        BY <1>1, <2>2, <2>3 DEF IsLast, SameButCause
    <2>5. bindings(s)[k] = s[p][2] /\ bindings(t)[k] = t[p][2]
        BY <2>1, <2>4, BindingsAt
    <2> QED
        BY <2>2, <2>5 DEF SameButCause
<1> QED
    BY <1>2, <1>3, <1>4

\* What two adapters write of a record differs in nothing else.
LEMMA PairsDifferInCause ==
    ASSUME LogInv, rec # Empty, NEW a \in Adapters, NEW b \in Adapters
    PROVE  SameButCause(pairsFor(a), pairsFor(b))
<1> DEFINE T == Pairs \cup ({"code", "internal", "trace_id", "status"} \X
                             {rec.code, rec.internal, rec.trace, rec.status})
           A == <<<<"code", rec.code>>>> \o part("internal", rec.internal)
                   \o part("trace_id", rec.trace) \o part("status", rec.status)
           ca == causePart(rec, said[a])
           cb == causePart(rec, said[b])
<1>1. ASSUME NEW q \in Seq(T) PROVE SameButCause(q, q)
    BY DEF SameButCause
<1>2. A \in Seq(T)
    <2> DEFINE d == <<<<"code", rec.code>>>>
               n == part("internal", rec.internal)
               x == part("trace_id", rec.trace)
               z == part("status", rec.status)
    <2>1. /\ <<"code", rec.code>> \in T /\ <<"internal", rec.internal>> \in T
          /\ <<"trace_id", rec.trace>> \in T /\ <<"status", rec.status>> \in T
        OBVIOUS
    <2> HIDE DEF T
    <2>2. d \in Seq(T)
        BY <2>1
    <2>3. n \in Seq(T) /\ x \in Seq(T) /\ z \in Seq(T)
        BY <2>1, PartIsSeq
    <2> HIDE DEF d, n, x, z
    <2>4. d \o n \in Seq(T)
        BY <2>2, <2>3, ConcatProperties
    <2>5. d \o n \o x \in Seq(T)
        BY <2>3, <2>4, ConcatProperties
    <2>6. d \o n \o x \o z \in Seq(T)
        BY <2>3, <2>5, ConcatProperties
    <2> QED
        BY <2>6 DEF d, n, x, z
<1>3. /\ parts(rec, said[a]) = A \o ca /\ parts(rec, said[b]) = A \o cb
    BY DEF parts
<1>4. ca \in Seq(T) /\ cb \in Seq(T) /\ SameButCause(ca, cb)
    <2> DEFINE ea == <<"cause", said[a]>>
               eb == <<"cause", said[b]>>
    <2>1. ea \in T /\ eb \in T /\ ea[1] = "cause" /\ eb[1] = "cause"
        BY DEF Pairs, Written, PartNames
    <2>2. rec.cause = Empty => ca = <<>> /\ cb = <<>>
        BY DEF causePart
    <2>3. rec.cause # Empty => ca = <<ea>> /\ cb = <<eb>>
        BY DEF causePart
    <2> HIDE DEF T, ca, cb, ea, eb
    <2>4. <<>> \in Seq(T) /\ <<ea>> \in Seq(T) /\ <<eb>> \in Seq(T)
        BY <2>1
    <2>5. SameButCause(<<>>, <<>>) /\ SameButCause(<<ea>>, <<eb>>)
        BY <2>1 DEF SameButCause
    <2> QED
        BY <2>2, <2>3, <2>4, <2>5
<1>5. stackPart(rec) \in Seq(T) /\ seen \in Seq(T)
    <2>1. Pairs \subseteq T /\ Keys \X Vals \subseteq T
        BY DEF Pairs, Written
    <2>2. stackPart(rec) \in Seq(Pairs) /\ seen \in Seq(Keys \X Vals)
        BY PartsOfRecord, RecordedFields DEF LogInv
    <2> HIDE DEF T
    <2> QED
        BY <2>1, <2>2, SeqMonotonic
<1> HIDE DEF T, A, ca, cb
<1> DEFINE st == stackPart(rec)
<1>6. A \o ca \in Seq(T) /\ A \o cb \in Seq(T) /\ SameButCause(A \o ca, A \o cb)
    BY <1>1, <1>2, <1>4, SameButCauseConcat, ConcatProperties
<1> HIDE DEF st
<1>7. st \in Seq(T)
    BY <1>5 DEF st
<1>8. /\ A \o ca \o st \in Seq(T) /\ A \o cb \o st \in Seq(T)
      /\ SameButCause(A \o ca \o st, A \o cb \o st)
    BY <1>1, <1>6, <1>7, SameButCauseConcat, ConcatProperties
<1>9. SameButCause(A \o ca \o st \o seen, A \o cb \o st \o seen)
    BY <1>1, <1>5, <1>8, SameButCauseConcat
<1> QED
    BY <1>3, <1>9 DEF pairsFor, st

\* For every record, with fields of any names, the entry of each adapter says of
\* every key what LogFields and Attrs say of it when it is written, and of the
\* stack besides; and the entries of two adapters differ in the cause alone, where
\* that has been built on in between.
THEOREM AllAdaptersAgree == LogSpec => []AdaptersAgree
<1>1. LogInv => AdaptersAgree
    <2> SUFFICES ASSUME LogInv, NEW a \in Adapters, streams[a] # <<>>
                 PROVE  /\ AsLogFields(a)
                        /\ \A b \in Adapters : streams[b] # <<>> => TellTheSame(a, b)
        BY DEF AdaptersAgree
    <2>1. /\ AsLogFields(a) /\ reading(streams[a][1], a) = bindings(pairsFor(a))
          /\ pairsFor(a) \in Seq(Pairs)
        BY EntryIsAsLogFields
    <2>2. ASSUME NEW b \in Adapters, streams[b] # <<>> PROVE TellTheSame(a, b)
        <3>1. /\ reading(streams[b][1], b) = bindings(pairsFor(b))
              /\ pairsFor(b) \in Seq(Pairs)
            BY <2>2, EntryIsAsLogFields
        <3>2. CASE said[a] = said[b]
            <4>1. pairsFor(a) = pairsFor(b)
                BY <3>2 DEF pairsFor
            <4> QED
                BY <2>1, <3>1, <4>1 DEF TellTheSame
        <3>3. CASE said[a] # said[b]
            <4>1. SameButCause(pairsFor(a), pairsFor(b))
                BY PairsDifferInCause DEF LogInv, StreamsInv
            <4>2. /\ DOMAIN bindings(pairsFor(a)) = DOMAIN bindings(pairsFor(b))
                  /\ \A k \in DOMAIN bindings(pairsFor(a)) :
                        bindings(pairsFor(a))[k] = bindings(pairsFor(b))[k] \/ k = "cause"
                BY <2>1, <3>1, <4>1, SameButCauseReads
            <4> QED
                BY <2>1, <3>1, <3>3, <4>2 DEF TellTheSame
        <3> QED
            BY <3>2, <3>3
    <2> QED
        BY <2>1, <2>2
<1> QED
    BY <1>1, LogInvHolds, PTL
=============================================================================
