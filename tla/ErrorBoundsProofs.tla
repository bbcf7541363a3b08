------------------------- MODULE ErrorBoundsProofs -------------------------
(* What ErrorBounds promises for every value of its constants.               *)
EXTENDS ErrorBounds, SequenceTheorems, FiniteSetTheorems, WellFoundedInduction, TLAPS

(***************************************************************************)
(* The two list operators, on sequences over any set.                      *)
(***************************************************************************)

\* Appending below the cap, marking at the cap and dropping above it keeps a
\* list a bounded view of everything that was ever appended.
LEMMA AppendCappedKeepsView ==
    ASSUME NEW S, NEW out \in Seq(S), NEW all \in Seq(S), NEW x \in S, NEW marker \in S,
           NEW max \in Nat, IsBoundedView(out, all, max, marker)
    PROVE  /\ AppendCapped(out, max, x, marker) \in Seq(S)
           /\ IsBoundedView(AppendCapped(out, max, x, marker), Append(all, x), max, marker)
<1>1. CASE Len(out) < max
    BY <1>1 DEF AppendCapped, IsBoundedView
<1>2. CASE Len(out) = max
    BY <1>2 DEF AppendCapped, IsBoundedView
<1>3. CASE Len(out) > max
    BY <1>3 DEF AppendCapped, IsBoundedView
<1> QED
    BY <1>1, <1>2, <1>3

\* Cutting at render time what was already cut at build time, with more entries
\* behind it, shows the same as cutting once.
LEMMA TruncateTwiceIsOnce ==
    ASSUME NEW S, NEW out \in Seq(S), NEW all \in Seq(S), NEW more \in Seq(S),
           NEW built \in S, NEW marker \in S, NEW max \in Nat,
           IsBoundedView(out, all, max, built)
    PROVE  IsBoundedView(Truncate(out \o more, max, marker), all \o more, max, marker)
<1> DEFINE long == out \o more
           whole == all \o more
<1> SUFFICES IsBoundedView(Truncate(long, max, marker), whole, max, marker)
    OBVIOUS
<1>1. /\ long \in Seq(S) /\ whole \in Seq(S)
      /\ Len(long) = Len(out) + Len(more) /\ Len(whole) = Len(all) + Len(more)
    BY ConcatProperties
<1>2. \A i \in 1..max : i <= Len(long) => long[i] = whole[i]
    BY <1>1, ConcatProperties DEF IsBoundedView
<1>3. Len(long) > max <=> Len(whole) > max
    BY <1>1 DEF IsBoundedView
<1>4. Len(long) <= max => Len(long) = Len(whole)
    BY <1>1 DEF IsBoundedView
<1> HIDE DEF long, whole
<1>5. CASE Len(long) > max
    <2>1. /\ SubSeq(long, 1, max) \in Seq(S)
          /\ Len(SubSeq(long, 1, max)) = max
          /\ \A i \in 1..max : SubSeq(long, 1, max)[i] = long[i]
        BY <1>1, <1>5, SubSeqProperties
    <2>2. Truncate(long, max, marker) = Append(SubSeq(long, 1, max), marker)
        BY <1>5 DEF Truncate
    <2> QED
        BY <1>1, <1>2, <1>3, <1>5, <2>1, <2>2 DEF IsBoundedView
<1>6. CASE ~(Len(long) > max)
    <2>1. Truncate(long, max, marker) = long
        BY <1>6 DEF Truncate
    <2> QED
        BY <1>1, <1>2, <1>3, <1>4, <1>6, <2>1 DEF IsBoundedView
<1> QED
    BY <1>5, <1>6

\* Overlay is the union of the two maps, the second one winning.
LEMMA OverlayProperties ==
    ASSUME NEW m1, NEW m2
    PROVE  /\ DOMAIN Overlay(m1, m2) = DOMAIN m1 \cup DOMAIN m2
           /\ \A k \in DOMAIN m2 : Overlay(m1, m2)[k] = m2[k]
           /\ \A k \in DOMAIN m1 \ DOMAIN m2 : Overlay(m1, m2)[k] = m1[k]
    BY DEF Overlay

-----------------------------------------------------------------------------
(***************************************************************************)
(* Type correctness.                                                       *)
(***************************************************************************)

\* What capValue makes of a value a caller attaches is a text, whole or cut.
LEMMA StoredValueIsText ==
    ASSUME NEW v \in Values
    PROVE  capValue(v) \in Text
    BY DEF capValue, Text

\* A step of putPublic leaves a map from keys, and perhaps the marker, to
\* stored values, and adds at most the key or the marker.
LEMMA PutPublicProperties ==
    ASSUME TypeOK, NEW k \in Keys, NEW v \in Values
    PROVE  /\ DOMAIN putPublic(k, v) \subseteq Keys \cup {"_metadata_truncated"}
           /\ \A m \in DOMAIN putPublic(k, v) : putPublic(k, v)[m] \in Text
<1>1. markerValue \in Text
    BY DEF markerValue, Text
<1>2. capValue(v) \in Text
    BY StoredValueIsText
<1> DEFINE full == k \notin DOMAIN pubMeta /\ Cardinality(DOMAIN pubMeta) >= MaxMeta
           new == IF full THEN [m \in {"_metadata_truncated"} |-> markerValue]
                          ELSE [m \in {k} |-> capValue(v)]
<1>3. putPublic(k, v) = Overlay(pubMeta, new)
    BY DEF putPublic
<1>4. /\ DOMAIN new \subseteq Keys \cup {"_metadata_truncated"}
      /\ \A m \in DOMAIN new : new[m] \in Text
    BY <1>1, <1>2
<1>5. /\ DOMAIN pubMeta \subseteq Keys \cup {"_metadata_truncated"}
      /\ \A m \in DOMAIN pubMeta : pubMeta[m] \in Text
    BY DEF TypeOK
<1> HIDE DEF new
<1>6. /\ DOMAIN Overlay(pubMeta, new) = DOMAIN pubMeta \cup DOMAIN new
      /\ \A m \in DOMAIN new : Overlay(pubMeta, new)[m] = new[m]
      /\ \A m \in DOMAIN pubMeta \ DOMAIN new : Overlay(pubMeta, new)[m] = pubMeta[m]
    BY OverlayProperties
<1> QED
    BY <1>3, <1>4, <1>5, <1>6

\* Appending to a capped list keeps its element type.
LEMMA AppendCappedType ==
    ASSUME NEW S, NEW s \in Seq(S), NEW x \in S, NEW marker \in S, NEW max
    PROVE  AppendCapped(s, max, x, marker) \in Seq(S)
    BY DEF AppendCapped

\* Every state of the builder chain is well typed: each channel stores only
\* what its own calls brought, cut to size, and its own marker.
THEOREM TypeCorrect == Spec => []TypeOK
<1>1. Init => TypeOK
    BY StaticAssumption, CausesAssumption DEF Init, TypeOK, noCause
<1>2. TypeOK /\ [Next]_vars => TypeOK'
    <2> SUFFICES ASSUME TypeOK, [Next]_vars PROVE TypeOK'
        OBVIOUS
    <2>1. ASSUME NEW k \in Keys, NEW v \in Values, WithInternal(k, v) PROVE TypeOK'
        <3>1. [key |-> k, val |-> capValue(v)] \in Field /\ fieldsMarker \in Field
            BY StoredValueIsText DEF Field, fieldsMarker, markerValue, Text
        <3>2. fields' \in Seq(Field)
            BY <2>1, <3>1, AppendCappedType DEF WithInternal, TypeOK
        <3>3. internalCalls' \in Seq([key : Keys, val : Values])
            BY <2>1 DEF WithInternal, TypeOK
        <3> QED
            BY <2>1, <3>2, <3>3 DEF WithInternal, TypeOK
    <2>2. ASSUME NEW k \in Keys, NEW v \in Values, WithPublic(k, v) PROVE TypeOK'
        <3>1. publicCalls' \in Seq([key : Keys, val : Values])
            BY <2>2 DEF WithPublic, TypeOK
        <3> QED
            BY <2>2, <3>1, PutPublicProperties DEF WithPublic, TypeOK
    <2>3. ASSUME NEW t \in Triples, FieldError(t) PROVE TypeOK'
        <3>1. children' \in Seq(Triples \cup {childMarker})
            BY <2>3, AppendCappedType DEF FieldError, TypeOK
        <3> QED
            BY <2>3, <3>1 DEF FieldError, TypeOK
    <2>4. ASSUME NEW c \in Causes, Wrap(c) PROVE TypeOK'
        BY <2>4 DEF Wrap, TypeOK
    <2>5. ASSUME NEW m \in StaticMetadata, Public(m) PROVE TypeOK'
        BY <2>5 DEF Public, TypeOK
    <2>6. CASE UNCHANGED vars
        BY <2>6 DEF vars, TypeOK
    <2> QED
        BY <2>1, <2>2, <2>3, <2>4, <2>5, <2>6 DEF Next
<1> QED
    BY <1>1, <1>2, PTL DEF Spec

-----------------------------------------------------------------------------
(***************************************************************************)
(* The capped lists.  FieldsExact is inductive with the types; errors[]     *)
(* needs in addition what the first of its two caps keeps.                 *)
(***************************************************************************)

ChildrenExact == IsBoundedView(children, childCalls, MaxFieldErrors, childMarker)

ListInv == TypeOK /\ FieldsExact /\ ChildrenExact

\* The two lists that grow by appending are bounded views of the calls that
\* built them, after every builder call.
LEMMA ListInvHolds == Spec => []ListInv
<1>1. Init => FieldsExact /\ ChildrenExact
    BY CapsAssumption DEF Init, FieldsExact, ChildrenExact, IsBoundedView, LoggedCalls
<1>2. ListInv /\ TypeOK' /\ [Next]_vars => FieldsExact' /\ ChildrenExact'
    <2> SUFFICES ASSUME ListInv, TypeOK', [Next]_vars PROVE FieldsExact' /\ ChildrenExact'
        OBVIOUS
    <2>1. ASSUME NEW k \in Keys, NEW v \in Values, WithInternal(k, v)
          PROVE  FieldsExact' /\ ChildrenExact'
        <3> DEFINE x == [key |-> k, val |-> capValue(v)]
        <3>1. x \in Field /\ fieldsMarker \in Field
            BY StoredValueIsText DEF Field, fieldsMarker, markerValue, Text
        <3>2. LoggedCalls \in Seq(Field)
            <4>1. \A i \in 1..Len(internalCalls) :
                    internalCalls[i].key \in Keys /\ internalCalls[i].val \in Values
                <5>1. internalCalls \in Seq([key : Keys, val : Values])
                    BY DEF ListInv, TypeOK
                <5>2. \A i \in 1..Len(internalCalls) :
                        internalCalls[i] \in [key : Keys, val : Values]
                    BY <5>1, ElementOfSeq
                <5> QED
                    BY <5>2
            <4>2. \A i \in 1..Len(internalCalls) :
                    [key |-> internalCalls[i].key,
                     val |-> [text |-> internalCalls[i].val,
                              cut |-> internalCalls[i].val \in Oversized]] \in Field
                BY <4>1 DEF Field, Text
            <4>3. Len(internalCalls) \in Nat
                BY DEF ListInv, TypeOK
            <4> QED
                BY <4>2, <4>3 DEF LoggedCalls
        <3>3. LoggedCalls' = Append(LoggedCalls, x)
            BY <2>1 DEF WithInternal, ListInv, TypeOK, LoggedCalls, capValue
        <3>4. IsBoundedView(fields, LoggedCalls, MaxFields, fieldsMarker)
            BY DEF ListInv, FieldsExact, fieldsMarker, markerValue
        <3>5. IsBoundedView(AppendCapped(fields, MaxFields, x, fieldsMarker),
                            Append(LoggedCalls, x), MaxFields, fieldsMarker)
            <4> HIDE DEF x
            <4> QED
                BY <3>1, <3>2, <3>4, AppendCappedKeepsView, CapsAssumption DEF ListInv, TypeOK
        <3>6. FieldsExact'
            BY <2>1, <3>3, <3>5 DEF WithInternal, FieldsExact, fieldsMarker, markerValue
        <3>7. ChildrenExact'
            BY <2>1 DEF WithInternal, ListInv, ChildrenExact
        <3> QED
            BY <3>6, <3>7
    <2>2. ASSUME NEW t \in Triples, FieldError(t) PROVE FieldsExact' /\ ChildrenExact'
        <3>1. ChildrenExact'
            <4> DEFINE S == Triples \cup {childMarker}
            <4>1. children \in Seq(S) /\ childCalls \in Seq(S) /\ t \in S /\ childMarker \in S
                BY DEF ListInv, TypeOK
            <4>2. IsBoundedView(children, childCalls, MaxFieldErrors, childMarker)
                BY DEF ListInv, ChildrenExact
            <4> HIDE DEF S
            <4>3. IsBoundedView(AppendCapped(children, MaxFieldErrors, t, childMarker),
                                Append(childCalls, t), MaxFieldErrors, childMarker)
                BY <4>1, <4>2, AppendCappedKeepsView, CapsAssumption
            <4> QED
                BY <2>2, <4>3 DEF FieldError, ChildrenExact
        <3>2. FieldsExact'
            BY <2>2 DEF FieldError, ListInv, FieldsExact, LoggedCalls
        <3> QED
            BY <3>1, <3>2
    <2>3. CASE UNCHANGED <<fields, internalCalls, children, childCalls>>
        BY <2>3 DEF ListInv, FieldsExact, ChildrenExact, LoggedCalls
    <2> QED
        BY <2>1, <2>2, <2>3 DEF Next, WithPublic, Wrap, Public, vars
<1> QED
    BY <1>1, <1>2, TypeCorrect, PTL DEF Spec, ListInv

\* The log shows exactly the first MaxFields calls of WithInternal and one
\* marker when it dropped any, whatever else is done to the error in between.
THEOREM FieldsAreExact == Spec => []FieldsExact
    BY ListInvHolds, PTL DEF ListInv

\* An entry is rendered as it deserves.
LEMMA EntryIsShown ==
    ASSUME NEW t \in Triples \cup {EntryOf[m] : m \in HerrMembers}
    PROVE  fieldEntry(t) = Shown(t)
    BY TriplesAssumption DEF fieldEntry, Shown

\* Whatever is promoted, the two caps on errors[] act as one.
LEMMA CapsActAsOne ==
    ASSUME ListInv, NEW R, NEW promotions \in Seq(R)
    PROVE  ErrorsExactFor(promotions)
<1> DEFINE S == R \cup {wireMarker, fieldEntry(childMarker)} \cup {Shown(t) : t \in Triples}
           built == [i \in 1..Len(children) |-> fieldEntry(children[i])]
           asked == [i \in 1..Len(childCalls) |-> Shown(childCalls[i])]
<1>0. /\ Len(children) \in Nat /\ Len(childCalls) \in Nat
      /\ \A i \in 1..Len(children) : children[i] \in Triples \cup {childMarker}
      /\ \A i \in 1..Len(childCalls) : childCalls[i] \in Triples
    BY DEF ListInv, TypeOK
<1>1. built \in Seq(S)
    <2>1. ASSUME NEW i \in 1..Len(children) PROVE fieldEntry(children[i]) \in S
        <3>1. children[i] \in Triples \/ children[i] = childMarker
            BY <1>0
        <3> QED
            BY <3>1, EntryIsShown
    <2> QED
        BY <1>0, <2>1
<1>2. asked \in Seq(S)
    BY <1>0
<1>3. Len(built) = Len(children) /\ Len(asked) = Len(childCalls)
    BY DEF ListInv, TypeOK
<1>4. IsBoundedView(built, asked, MaxFieldErrors, fieldEntry(childMarker))
    <2>1. IsBoundedView(children, childCalls, MaxFieldErrors, childMarker)
        BY DEF ListInv, ChildrenExact
    <2>2. \A i \in 1..Len(children) :
            built[i] = IF i > MaxFieldErrors THEN fieldEntry(childMarker) ELSE asked[i]
        BY <2>1, EntryIsShown, CapsAssumption DEF IsBoundedView, ListInv, TypeOK
    <2> HIDE DEF built, asked
    <2> QED
        BY <1>3, <2>1, <2>2 DEF IsBoundedView
<1>5. promotions \in Seq(S) /\ wireMarker \in S /\ fieldEntry(childMarker) \in S
    OBVIOUS
<1> HIDE DEF S, built, asked
<1>6. IsBoundedView(Truncate(built \o promotions, MaxFieldErrors, wireMarker),
                    asked \o promotions, MaxFieldErrors, wireMarker)
    BY <1>1, <1>2, <1>4, <1>5, TruncateTwiceIsOnce, CapsAssumption
<1> QED
    BY <1>6 DEF ErrorsExactFor, fieldErrorsWith, built, asked

WireEntry == [field : STRING, code : STRING, message : STRING]

\* Whatever the wrapped aggregate promotes, the client sees the first
\* MaxFieldErrors of all explicit and promoted entries, then one bare marker when
\* there are more.
THEOREM TwoCapsActAsOne == Spec => [](\A promotions \in Seq(WireEntry) : ErrorsExactFor(promotions))
<1>1. ListInv => \A promotions \in Seq(WireEntry) : ErrorsExactFor(promotions)
    BY CapsActAsOne
<1> QED
    BY <1>1, ListInvHolds, PTL

-----------------------------------------------------------------------------
(***************************************************************************)
(* What an aggregate promotes.  The loop over its members is a recursive    *)
(* function of how many of them it has seen.                               *)
(***************************************************************************)

\* Induction over the naturals, for sets.
LEMMA SetInduction ==
    ASSUME NEW S, 0 \in S, \A n \in Nat : n \in S => n + 1 \in S
    PROVE  Nat \subseteq S
<1> DEFINE T == Nat \ S
           R == OpToRel(<, Nat)
<1> SUFFICES ASSUME T # {} PROVE FALSE
    OBVIOUS
<1>1. IsWellFoundedOn(R, Nat)
    BY NatLessThanWellFounded
<1>2. \A m, n \in Nat : m < n => <<m, n>> \in R
    BY DEF OpToRel
<1> HIDE DEF R
<1>3. PICK n \in T : \A m \in T : ~(<<m, n>> \in R)
    <2> T \subseteq Nat
        OBVIOUS
    <2> HIDE DEF T
    <2> QED
        BY <1>1, WFMin
<1>4. n - 1 \in Nat /\ n - 1 < n
    OBVIOUS
<1>5. n - 1 \notin T
    BY <1>2, <1>3, <1>4
<1> QED
    BY <1>4, <1>5

\* What the loop has collected of members once it has seen k of them.
Collected(f, k, members) ==
    IF k = 0 THEN <<>>
    ELSE IF members[k] \in HerrMembers
         THEN Append(f[k - 1], fieldEntry(EntryOf[members[k]]))
         ELSE f[k - 1]
Collects(f, n, members) == f = [k \in 0..n |-> Collected(f, k, members)]

\* The loop has a result for every number of members.
LEMMA LoopsEnd ==
    ASSUME NEW members, NEW n \in Nat
    PROVE  \E f : Collects(f, n, members)
<1> DEFINE S == {m \in Nat : \E f : Collects(f, m, members)}
<1>1. 0 \in S
    <2> DEFINE f == [k \in 0..0 |-> <<>>]
    <2>1. Collects(f, 0, members)
        BY DEF Collects, Collected
    <2> QED
        BY <2>1
<1>2. ASSUME NEW m \in Nat, m \in S PROVE m + 1 \in S
    <2>1. PICK f : Collects(f, m, members)
        BY <1>2
    <2> DEFINE g == [k \in 0..m + 1 |-> IF k <= m THEN f[k] ELSE Collected(f, k, members)]
    <2>2. \A k \in 0..m : g[k] = f[k]
        OBVIOUS
    <2>3. \A k \in 0..m : f[k] = Collected(f, k, members)
        BY <2>1 DEF Collects
    <2>4. \A k \in 0..m + 1 : g[k] = Collected(f, k, members)
        BY <2>2, <2>3
    <2>5. DOMAIN g = 0..m + 1 /\ g = [k \in 0..m + 1 |-> g[k]]
        OBVIOUS
    <2> HIDE DEF g
    <2>6. \A k \in 0..m + 1 : Collected(g, k, members) = Collected(f, k, members)
        <3> SUFFICES ASSUME NEW k \in 0..m + 1
                     PROVE  Collected(g, k, members) = Collected(f, k, members)
            OBVIOUS
        <3>1. k = 0 \/ k - 1 \in 0..m
            OBVIOUS
        <3> QED
            BY <2>2, <3>1 DEF Collected
    <2>7. Collects(g, m + 1, members)
        BY <2>4, <2>5, <2>6 DEF Collects
    <2> QED
        BY <2>7
<1> HIDE DEF S
<1>3. Nat \subseteq S
    BY <1>1, <1>2, SetInduction
<1> QED
    BY <1>3 DEF S

\* The first k members that are or wrap a herr error, by position.
HerrUpTo(k, members) == {i \in 1..k : members[i] \in HerrMembers}
Place(i, members) == Cardinality(HerrUpTo(i, members))

\* One more member is at most one more herr error, at the last place.
LEMMA OneMorePlace ==
    ASSUME NEW members, NEW k \in Nat
    PROVE  /\ IsFiniteSet(HerrUpTo(k, members)) /\ Place(k, members) \in Nat
           /\ members[k + 1] \in HerrMembers =>
                /\ HerrUpTo(k + 1, members) = HerrUpTo(k, members) \cup {k + 1}
                /\ Place(k + 1, members) = Place(k, members) + 1
           /\ members[k + 1] \notin HerrMembers =>
                HerrUpTo(k + 1, members) = HerrUpTo(k, members)
<1> DEFINE up(n) == HerrUpTo(n, members)
<1>1. IsFiniteSet(up(k)) /\ Cardinality(up(k)) \in Nat
    <2>1. IsFiniteSet(1..k)
        BY FS_Interval
    <2>2. up(k) \subseteq 1..k
        BY DEF HerrUpTo
    <2> HIDE DEF up
    <2> QED
        BY <2>1, <2>2, FS_Subset, FS_CardinalityType
<1>2. ASSUME members[k + 1] \in HerrMembers
      PROVE  up(k + 1) = up(k) \cup {k + 1} /\ Cardinality(up(k + 1)) = Cardinality(up(k)) + 1
    <2>1. up(k + 1) = up(k) \cup {k + 1} /\ k + 1 \notin up(k)
        BY <1>2 DEF HerrUpTo
    <2> HIDE DEF up
    <2> QED
        BY <1>1, <2>1, FS_AddElement
<1>3. members[k + 1] \notin HerrMembers => up(k + 1) = up(k)
    BY DEF HerrUpTo
<1> QED
    BY <1>1, <1>2, <1>3 DEF Place

Entries == {Shown(EntryOf[m]) : m \in HerrMembers}

\* What the loop has collected of the first k members: the herr errors among
\* them, every one at its place, and something at every place.
RightUpTo(f, k, members) ==
    /\ f[k] \in Seq(Entries) /\ Len(f[k]) = Place(k, members)
    /\ \A i \in HerrUpTo(k, members) :
         /\ Place(i, members) \in 1..Place(k, members)
         /\ f[k][Place(i, members)] = Shown(EntryOf[members[i]])
    /\ \A p \in 1..Place(k, members) : \E i \in HerrUpTo(k, members) : Place(i, members) = p

\* It stays so with every member.
LEMMA LoopIsRight ==
    ASSUME NEW members, NEW n \in Nat, NEW f, Collects(f, n, members)
    PROVE  \A k \in 0..n : RightUpTo(f, k, members)
<1> DEFINE S == {k \in Nat : k <= n => RightUpTo(f, k, members)}
<1>0. \A k \in 0..n : f[k] = Collected(f, k, members)
    BY DEF Collects
<1>1. 0 \in S
    <2>1. f[0] = <<>>
        BY <1>0 DEF Collected
    <2>2. HerrUpTo(0, members) = {} /\ Place(0, members) = 0
        BY FS_EmptySet DEF HerrUpTo, Place
    <2>3. <<>> \in Seq(Entries) /\ Len(<<>>) = 0 /\ 1..0 = {}
        OBVIOUS
    <2> QED
        BY <2>1, <2>2, <2>3 DEF RightUpTo
<1>2. ASSUME NEW k \in Nat, k \in S PROVE k + 1 \in S
    <2> SUFFICES ASSUME k + 1 <= n PROVE RightUpTo(f, k + 1, members)
        OBVIOUS
    <2>1. /\ f[k] \in Seq(Entries) /\ Len(f[k]) = Place(k, members)
          /\ \A i \in HerrUpTo(k, members) :
               /\ Place(i, members) \in 1..Place(k, members)
               /\ f[k][Place(i, members)] = Shown(EntryOf[members[i]])
          /\ \A p \in 1..Place(k, members) : \E i \in HerrUpTo(k, members) : Place(i, members) = p
        BY <1>2 DEF RightUpTo
    <2>2. f[k + 1] = IF members[k + 1] \in HerrMembers
                     THEN Append(f[k], fieldEntry(EntryOf[members[k + 1]])) ELSE f[k]
        BY <1>0 DEF Collected
    <2>3. CASE members[k + 1] \in HerrMembers
        <3> DEFINE x == Shown(EntryOf[members[k + 1]])
        <3>1. x \in Entries /\ f[k + 1] = Append(f[k], x)
            BY <2>2, <2>3, EntryIsShown DEF Entries
        <3>2. /\ HerrUpTo(k + 1, members) = HerrUpTo(k, members) \cup {k + 1}
              /\ Place(k + 1, members) = Place(k, members) + 1 /\ Place(k, members) \in Nat
            BY <2>3, OneMorePlace
        <3> HIDE DEF x
        <3>3. /\ f[k + 1] \in Seq(Entries) /\ Len(f[k + 1]) = Place(k + 1, members)
              /\ \A p \in 1..Place(k, members) : f[k + 1][p] = f[k][p]
              /\ f[k + 1][Place(k + 1, members)] = x
            BY <2>1, <3>1, <3>2
        <3>4. ASSUME NEW i \in HerrUpTo(k + 1, members)
              PROVE  /\ Place(i, members) \in 1..Place(k + 1, members)
                     /\ f[k + 1][Place(i, members)] = Shown(EntryOf[members[i]])
            <4>1. CASE i \in HerrUpTo(k, members)
                BY <2>1, <3>2, <3>3, <4>1
            <4>2. CASE i = k + 1
                BY <3>2, <3>3, <4>2 DEF x
            <4> QED
                BY <3>2, <4>1, <4>2
        <3>5. ASSUME NEW p \in 1..Place(k + 1, members)
              PROVE  \E i \in HerrUpTo(k + 1, members) : Place(i, members) = p
            <4>1. p \in 1..Place(k, members) \/ p = Place(k + 1, members)
                BY <3>2
            <4> QED
                BY <2>1, <3>2, <4>1
        <3> QED
            BY <3>3, <3>4, <3>5 DEF RightUpTo
    <2>4. CASE members[k + 1] \notin HerrMembers
        <3>1. HerrUpTo(k + 1, members) = HerrUpTo(k, members)
            BY <2>4, OneMorePlace
        <3>2. Place(k + 1, members) = Place(k, members) /\ f[k + 1] = f[k]
            BY <2>2, <2>4, <3>1 DEF Place
        <3> QED
            BY <2>1, <3>1, <3>2 DEF RightUpTo
    <2> QED
        BY <2>3, <2>4
<1> HIDE DEF S
<1>3. Nat \subseteq S
    BY <1>1, <1>2, SetInduction
<1> QED
    BY <1>3 DEF S

\* What an aggregate promotes is what its herr members deserve, in their order.
LEMMA PromotionsAreExpected ==
    ASSUME TypeOK
    PROVE  promoted(cause) = ExpectedPromotions /\ ExpectedPromotions \in Seq(Entries)
<1> DEFINE members == aggregateChildren(cause)
           n == Len(members)
           out == CHOOSE f : f = [k \in 0..n |-> Collected(f, k, members)]
           at == {i \in 1..Len(cause.members) : cause.aggregate /\ cause.members[i] \in HerrMembers}
           nth(p) == CHOOSE i \in at : Cardinality({j \in at : j <= i}) = p
<1>1. n \in Nat /\ cause.aggregate \in BOOLEAN /\ cause.members \in Seq(Members)
    BY CausesAssumption DEF TypeOK, aggregateChildren
<1>2. promoted(cause) = out[n]
    BY DEF promoted, Collected
<1>3. at = HerrUpTo(n, members) /\ \A i \in at : cause.members[i] = members[i]
    BY <1>1 DEF HerrUpTo, aggregateChildren
<1> HIDE DEF members
<1>4. RightUpTo(out, n, members)
    <2>1. Collects(out, n, members)
        BY <1>1, LoopsEnd DEF Collects
    <2> HIDE DEF out, n
    <2> QED
        BY <1>1, <2>1, LoopIsRight
<1>5. \A i \in at : Cardinality({j \in at : j <= i}) = Place(i, members)
    <2> SUFFICES ASSUME NEW i \in at PROVE {j \in at : j <= i} = HerrUpTo(i, members)
        BY DEF Place
    <2> QED
        BY <1>1, <1>3 DEF HerrUpTo
<1>6. Cardinality(at) = Place(n, members) /\ Place(n, members) \in Nat
    BY <1>1, <1>3, OneMorePlace DEF Place
<1> HIDE DEF at, n, out
<1>7. ASSUME NEW p \in 1..Cardinality(at)
      PROVE  out[n][p] = Shown(EntryOf[cause.members[nth(p)]])
    <2>1. \E i \in at : Cardinality({j \in at : j <= i}) = p
        BY <1>3, <1>4, <1>5, <1>6 DEF RightUpTo
    <2>2. nth(p) \in at /\ Cardinality({j \in at : j <= nth(p)}) = p
        BY <2>1
    <2> HIDE DEF nth
    <2> QED
        BY <1>3, <1>4, <1>5, <2>2 DEF RightUpTo
<1>8. ExpectedPromotions = [p \in 1..Cardinality(at) |-> Shown(EntryOf[cause.members[nth(p)]])]
    BY DEF ExpectedPromotions, at
<1>9. out[n] \in Seq(Entries) /\ Len(out[n]) = Cardinality(at)
    BY <1>4, <1>6 DEF RightUpTo
<1> HIDE DEF nth
<1>10. out[n] = [p \in 1..Cardinality(at) |-> Shown(EntryOf[cause.members[nth(p)]])]
    BY <1>7, <1>9
<1> QED
    BY <1>2, <1>8, <1>9, <1>10

\* The wire errors[] is every FieldError call and then every herr member of the
\* aggregate that was wrapped last, in order, cut once, for every cap, every
\* aggregate and every chain.
THEOREM ErrorsAreExact == Spec => []ErrorsExact
<1>1. ListInv => ErrorsExact
    BY PromotionsAreExpected, CapsActAsOne DEF ListInv, ErrorsExact
<1> QED
    BY <1>1, ListInvHolds, PTL

-----------------------------------------------------------------------------
(***************************************************************************)
(* The metadata map.  A marker in it means that the map is past its cap,   *)
(* which is what keeps every later new key out.                            *)
(***************************************************************************)

MetaInv ==
    /\ IsFiniteSet(DOMAIN pubMeta)
    /\ "_metadata_truncated" \in DOMAIN pubMeta => Cardinality(DOMAIN pubMeta) >= MaxMeta

\* The keys of the map after one call of WithPublic.
LEMMA PutPublicDomain ==
    ASSUME NEW k, NEW v
    PROVE  DOMAIN putPublic(k, v) = DOMAIN pubMeta \cup
             (IF k \notin DOMAIN pubMeta /\ Cardinality(DOMAIN pubMeta) >= MaxMeta
              THEN {"_metadata_truncated"} ELSE {k})
    BY OverlayProperties DEF putPublic

\* The map of WithPublic stays finite, and its marker comes only at the cap.
LEMMA MetaInvHolds == Spec => []MetaInv
<1>1. Init => MetaInv
    BY FS_EmptySet DEF Init, MetaInv
<1>2. TypeOK /\ MetaInv /\ [Next]_vars => MetaInv'
    <2> SUFFICES ASSUME TypeOK, MetaInv, [Next]_vars PROVE MetaInv'
        OBVIOUS
    <2>1. ASSUME NEW k \in Keys, NEW v \in Values, WithPublic(k, v) PROVE MetaInv'
        <3> DEFINE new == IF k \notin DOMAIN pubMeta /\ Cardinality(DOMAIN pubMeta) >= MaxMeta
                          THEN "_metadata_truncated" ELSE k
        <3>1. DOMAIN pubMeta' = DOMAIN pubMeta \cup {new}
            BY <2>1, PutPublicDomain DEF WithPublic
        <3>2. /\ Cardinality(DOMAIN pubMeta) \in Nat
              /\ IsFiniteSet(DOMAIN pubMeta \cup {new})
              /\ Cardinality(DOMAIN pubMeta \cup {new}) \in Nat
              /\ Cardinality(DOMAIN pubMeta \cup {new}) >= Cardinality(DOMAIN pubMeta)
            <4> HIDE DEF new
            <4>1. Cardinality(DOMAIN pubMeta) \in Nat
                BY FS_CardinalityType DEF MetaInv
            <4>2. /\ IsFiniteSet(DOMAIN pubMeta \cup {new})
                  /\ Cardinality(DOMAIN pubMeta \cup {new}) =
                       IF new \in DOMAIN pubMeta THEN Cardinality(DOMAIN pubMeta)
                       ELSE Cardinality(DOMAIN pubMeta) + 1
                BY FS_AddElement DEF MetaInv
            <4> QED
                BY <4>1, <4>2
        <3>3. CASE new = "_metadata_truncated"
            <4>1. Cardinality(DOMAIN pubMeta) >= MaxMeta
                BY <3>3, MarkersAreReserved
            <4> QED
                BY <3>1, <3>2, <4>1, CapsAssumption DEF MetaInv
        <3>4. CASE new # "_metadata_truncated"
            <4>1. "_metadata_truncated" \in DOMAIN pubMeta' =>
                    Cardinality(DOMAIN pubMeta) >= MaxMeta
                BY <3>1, <3>4 DEF MetaInv
            <4> QED
                BY <3>1, <3>2, <4>1, CapsAssumption DEF MetaInv
        <3> QED
            BY <3>3, <3>4
    <2>2. CASE UNCHANGED pubMeta
        BY <2>2 DEF MetaInv
    <2> QED
        BY <2>1, <2>2 DEF Next, WithInternal, FieldError, Wrap, Public, vars
<1> QED
    BY <1>1, <1>2, TypeCorrect, PTL DEF Spec

\* No later call of the builder chain displaces a truncation marker or changes
\* what was recorded before it, on any of the three channels.
THEOREM MarkersStayFinal == Spec => MarkersAreFinal
<1> DEFINE Final ==
      /\ Len(fields) > MaxFields => fields' = fields
      /\ Len(children) > MaxFieldErrors => children' = children
      /\ "_metadata_truncated" \in DOMAIN pubMeta => DOMAIN pubMeta' = DOMAIN pubMeta
<1>1. TypeOK /\ MetaInv /\ [Next]_vars => [Final]_vars
    <2> SUFFICES ASSUME TypeOK, MetaInv, Next PROVE Final
        OBVIOUS
    <2>1. Len(fields) \in Nat /\ Len(children) \in Nat
        BY DEF TypeOK
    <2>2. ASSUME NEW k \in Keys, NEW v \in Values, WithInternal(k, v) PROVE Final
        BY <2>1, <2>2, CapsAssumption DEF WithInternal, AppendCapped
    <2>3. ASSUME NEW k \in Keys, NEW v \in Values, WithPublic(k, v) PROVE Final
        <3>1. DOMAIN pubMeta' = DOMAIN pubMeta \cup
                (IF k \notin DOMAIN pubMeta /\ Cardinality(DOMAIN pubMeta) >= MaxMeta
                 THEN {"_metadata_truncated"} ELSE {k})
            BY <2>3, PutPublicDomain DEF WithPublic
        <3>2. "_metadata_truncated" \in DOMAIN pubMeta => DOMAIN pubMeta' = DOMAIN pubMeta
            BY <3>1 DEF MetaInv
        <3> QED
            BY <2>3, <3>2 DEF WithPublic
    <2>4. ASSUME NEW t \in Triples, FieldError(t) PROVE Final
        BY <2>1, <2>4, CapsAssumption DEF FieldError, AppendCapped
    <2>5. ASSUME NEW c \in Causes, Wrap(c) PROVE Final
        BY <2>5 DEF Wrap
    <2>6. ASSUME NEW m \in StaticMetadata, Public(m) PROVE Final
        BY <2>6 DEF Public
    <2> QED
        BY <2>2, <2>3, <2>4, <2>5, <2>6 DEF Next
<1> QED
    BY <1>1, TypeCorrect, MetaInvHolds, PTL DEF Spec, MarkersAreFinal

(***************************************************************************)
(* MetadataExact.  The map of WithPublic against the calls: which keys were *)
(* among the first MaxMeta distinct ones, and which call of a key is last.  *)
(***************************************************************************)

Marker == "_metadata_truncated"
PublicCall == [key : Keys, val : Values]

KeysIn(calls, i) == {calls[j].key : j \in 1..i}
KeptOf(calls) ==
    {calls[i].key : i \in {j \in 1..Len(calls) : Cardinality(KeysIn(calls, j)) <= MaxMeta}}
IsLast(calls, k, i) ==
    /\ i \in 1..Len(calls) /\ calls[i].key = k
    /\ \A j \in i+1..Len(calls) : calls[j].key # k

\* The map holds the kept keys, each with the value of its last call, and the
\* marker iff a key found no room.
KeptInv ==
    LET keys == KeysIn(publicCalls, Len(publicCalls))
        kept == KeptOf(publicCalls)
    IN  /\ IsFiniteSet(keys)
        /\ DOMAIN pubMeta \ {Marker} = kept
        /\ Marker \notin DOMAIN pubMeta => kept = keys /\ Cardinality(keys) <= MaxMeta
        /\ Marker \in DOMAIN pubMeta =>
             Cardinality(keys) > MaxMeta /\ \E k \in keys : k \notin kept
        /\ \A k \in kept : \E i \in 1..Len(publicCalls) :
             IsLast(publicCalls, k, i) /\ pubMeta[k] = capValue(publicCalls[i].val)

\* One more call: which keys there are, which of them are kept, and which call is last.
LEMMA OneMoreCall ==
    ASSUME NEW calls \in Seq(PublicCall), NEW c \in PublicCall
    PROVE  LET n    == Len(calls)
               more == Append(calls, c)
               keys == KeysIn(calls, n)
           IN  /\ Len(more) = n + 1 /\ n \in Nat
               /\ KeysIn(more, Len(more)) = keys \cup {c.key}
               /\ KeptOf(more) = KeptOf(calls) \cup
                    (IF Cardinality(keys \cup {c.key}) <= MaxMeta THEN {c.key} ELSE {})
               /\ more[n + 1] = c /\ IsLast(more, c.key, n + 1)
               /\ \A k, i : IsLast(calls, k, i) /\ k # c.key =>
                    IsLast(more, k, i) /\ more[i] = calls[i]
<1> DEFINE n == Len(calls)
           more == Append(calls, c)
           keys == KeysIn(calls, n)
<1>1. /\ n \in Nat /\ Len(more) = n + 1 /\ more[n + 1] = c
      /\ \A i \in 1..n : more[i] = calls[i]
    BY LenProperties, AppendProperties
<1> HIDE DEF more, n
<1>2. \A i \in 0..n : KeysIn(more, i) = KeysIn(calls, i)
    BY <1>1 DEF KeysIn
<1>3. KeysIn(more, n + 1) = keys \cup {c.key}
    <2>1. ASSUME NEW j \in 1..(n + 1) PROVE more[j].key \in keys \cup {c.key}
        <3>1. CASE j = n + 1
            BY <1>1, <3>1
        <3>2. CASE j # n + 1
            <4>1. j \in 1..n
                BY <1>1, <3>2
            <4> QED
                BY <1>1, <4>1 DEF KeysIn
        <3> QED
            BY <3>1, <3>2
    <2>2. ASSUME NEW j \in 1..n PROVE calls[j].key \in KeysIn(more, n + 1)
        <3>1. j \in 1..(n + 1)
            BY <1>1
        <3> QED
            BY <1>1, <3>1 DEF KeysIn
    <2>3. c.key \in KeysIn(more, n + 1)
        <3>1. n + 1 \in 1..(n + 1)
            BY <1>1
        <3> QED
            BY <1>1, <3>1 DEF KeysIn
    <2> QED
        BY <2>1, <2>2, <2>3 DEF KeysIn
<1>4. KeptOf(more) = KeptOf(calls) \cup
        (IF Cardinality(keys \cup {c.key}) <= MaxMeta THEN {c.key} ELSE {})
    <2> DEFINE fits(i) == Cardinality(KeysIn(more, i)) <= MaxMeta
    <2>1. \A i \in 1..n : fits(i) <=> Cardinality(KeysIn(calls, i)) <= MaxMeta
        BY <1>1, <1>2
    <2>2. fits(n + 1) <=> Cardinality(keys \cup {c.key}) <= MaxMeta
        BY <1>3
    <2>3. KeptOf(more) = {more[i].key : i \in {j \in 1..(n + 1) : fits(j)}}
        BY <1>1 DEF KeptOf
    <2>4. KeptOf(calls) = {calls[i].key : i \in {j \in 1..n : fits(j)}}
        BY <2>1 DEF KeptOf, n
    <2> HIDE DEF fits, keys
    <2>5. \A i : i \in 1..(n + 1) <=> i \in 1..n \/ i = n + 1
        BY <1>1
    <2>6. {more[i].key : i \in {j \in 1..(n + 1) : fits(j)}}
            = {calls[i].key : i \in {j \in 1..n : fits(j)}}
                \cup (IF fits(n + 1) THEN {c.key} ELSE {})
        BY <1>1, <2>5, Zenon
    <2> QED
        BY <2>2, <2>3, <2>4, <2>6
<1>5. IsLast(more, c.key, n + 1)
    BY <1>1 DEF IsLast
<1>6. ASSUME NEW k, NEW i, IsLast(calls, k, i), k # c.key
      PROVE  IsLast(more, k, i) /\ more[i] = calls[i]
    <2>1. i \in 1..n /\ calls[i].key = k /\ \A j \in i+1..n : calls[j].key # k
        BY <1>6 DEF IsLast, n
    <2>2. ASSUME NEW j \in i+1..(n + 1) PROVE more[j].key # k
        <3>1. CASE j = n + 1
            BY <1>1, <1>6, <3>1
        <3>2. CASE j # n + 1
            <4>1. j \in i+1..n /\ j \in 1..n
                BY <1>1, <2>1, <3>2
            <4> QED
                BY <1>1, <2>1, <4>1
        <3> QED
            BY <3>1, <3>2
    <2>3. i \in 1..(n + 1)
        BY <1>1, <2>1
    <2> QED
        BY <1>1, <2>1, <2>2, <2>3 DEF IsLast
<1> QED
    BY <1>1, <1>3, <1>4, <1>5, <1>6 DEF more, n

\* The marker comes exactly with the first key that finds no room, and from
\* then on the kept keys are fixed and only their values change.
LEMMA KeptInvHolds == Spec => []KeptInv
<1>1. Init => KeptInv
    <2> SUFFICES ASSUME Init PROVE KeptInv
        OBVIOUS
    <2>1. publicCalls = <<>> /\ DOMAIN pubMeta = {}
        BY DEF Init
    <2>2. KeysIn(publicCalls, Len(publicCalls)) = {} /\ KeptOf(publicCalls) = {}
        BY <2>1 DEF KeysIn, KeptOf
    <2> QED
        BY <2>1, <2>2, FS_EmptySet, CapsAssumption DEF KeptInv
<1>2. TypeOK /\ MetaInv /\ KeptInv /\ [Next]_vars => KeptInv'
    <2> SUFFICES ASSUME TypeOK, MetaInv, KeptInv, [Next]_vars PROVE KeptInv'
        OBVIOUS
    <2>1. ASSUME NEW k \in Keys, NEW v \in Values, WithPublic(k, v) PROVE KeptInv'
        <3> DEFINE call  == [key |-> k, val |-> v]
                   n     == Len(publicCalls)
                   keys  == KeysIn(publicCalls, n)
                   kept  == KeptOf(publicCalls)
                   keys2 == KeysIn(publicCalls', Len(publicCalls'))
                   kept2 == KeptOf(publicCalls')
                   D     == DOMAIN pubMeta
                   full  == k \notin D /\ Cardinality(D) >= MaxMeta
                   new   == IF full THEN [m \in {Marker} |-> markerValue]
                                    ELSE [m \in {k} |-> capValue(v)]
        <3>1. publicCalls' = Append(publicCalls, call) /\ pubMeta' = Overlay(pubMeta, new)
            BY <2>1 DEF WithPublic, putPublic, Marker
        <3>2. publicCalls \in Seq(PublicCall) /\ call \in PublicCall
            BY DEF TypeOK, PublicCall
        <3>3. /\ keys2 = keys \cup {k}
              /\ kept2 = kept \cup (IF Cardinality(keys2) <= MaxMeta THEN {k} ELSE {})
              /\ Len(publicCalls') = n + 1 /\ n \in Nat
              /\ publicCalls'[n + 1] = call /\ IsLast(publicCalls', k, n + 1)
              /\ \A q, i : IsLast(publicCalls, q, i) /\ q # k =>
                   IsLast(publicCalls', q, i) /\ publicCalls'[i] = publicCalls[i]
            <4>1. call.key = k
                OBVIOUS
            <4> HIDE DEF call
            <4> DEFINE more == Append(publicCalls, call)
            <4>2. /\ KeysIn(more, Len(more)) = KeysIn(publicCalls, n) \cup {call.key}
                  /\ KeptOf(more) = KeptOf(publicCalls) \cup
                       (IF Cardinality(KeysIn(publicCalls, n) \cup {call.key}) <= MaxMeta
                        THEN {call.key} ELSE {})
                  /\ Len(more) = n + 1 /\ n \in Nat
                  /\ more[n + 1] = call /\ IsLast(more, call.key, n + 1)
                  /\ \A q, i : IsLast(publicCalls, q, i) /\ q # call.key =>
                       IsLast(more, q, i) /\ more[i] = publicCalls[i]
                BY <3>2, OneMoreCall
            <4>3. publicCalls' = more
                BY <3>1
            <4> HIDE DEF more, n
            <4> QED
                BY <4>1, <4>2, <4>3
        <3>4. /\ DOMAIN pubMeta' = D \cup (IF full THEN {Marker} ELSE {k})
              /\ ~full => pubMeta'[k] = capValue(v)
              /\ \A q \in D \ {Marker, k} : pubMeta'[q] = pubMeta[q]
            <4>1. /\ DOMAIN new = IF full THEN {Marker} ELSE {k}
                  /\ ~full => new[k] = capValue(v)
                OBVIOUS
            <4> HIDE DEF new, full
            <4>2. /\ DOMAIN pubMeta' = D \cup DOMAIN new
                  /\ \A q \in DOMAIN new : pubMeta'[q] = new[q]
                  /\ \A q \in D \ DOMAIN new : pubMeta'[q] = pubMeta[q]
                <5>1. /\ DOMAIN Overlay(pubMeta, new) = DOMAIN pubMeta \cup DOMAIN new
                      /\ \A q \in DOMAIN new : Overlay(pubMeta, new)[q] = new[q]
                      /\ \A q \in DOMAIN pubMeta \ DOMAIN new :
                           Overlay(pubMeta, new)[q] = pubMeta[q]
                    BY OverlayProperties
                <5> QED
                    BY <3>1, <5>1
            <4> QED
                BY <4>1, <4>2
        <3>5. k # Marker
            BY MarkersAreReserved DEF Marker
        <3>6. /\ IsFiniteSet(keys)
              /\ D \ {Marker} = kept
              /\ Marker \notin D => kept = keys /\ Cardinality(keys) <= MaxMeta
              /\ Marker \in D => Cardinality(keys) > MaxMeta /\ \E q \in keys : q \notin kept
              /\ Marker \in D => Cardinality(D) >= MaxMeta
              /\ \A q \in kept : \E i \in 1..n :
                   IsLast(publicCalls, q, i) /\ pubMeta[q] = capValue(publicCalls[i].val)
            BY DEF KeptInv, MetaInv, Marker
        <3> HIDE DEF keys, kept, keys2, kept2, D, n, call
        <3>7. /\ IsFiniteSet(keys2) /\ Cardinality(keys) \in Nat
              /\ Cardinality(keys2) = IF k \in keys THEN Cardinality(keys)
                                                    ELSE Cardinality(keys) + 1
            BY <3>3, <3>6, FS_AddElement, FS_CardinalityType
        <3> HIDE DEF full
        <3>8. /\ DOMAIN pubMeta' \ {Marker} = kept2
              /\ Marker \notin DOMAIN pubMeta' => kept2 = keys2 /\ Cardinality(keys2) <= MaxMeta
              /\ Marker \in DOMAIN pubMeta' =>
                   Cardinality(keys2) > MaxMeta /\ \E q \in keys2 : q \notin kept2
              /\ full => k \notin kept2
            <4>1. CASE Marker \notin D
                <5>1. D = keys /\ kept = keys
                    BY <3>6, <4>1
                <5>2. full <=> k \notin keys /\ Cardinality(keys) >= MaxMeta
                    BY <5>1 DEF full
                <5>3. CASE full
                    <6>1. Cardinality(keys2) > MaxMeta /\ kept2 = keys /\ k \notin keys
                        <7>1. k \notin keys /\ Cardinality(keys2) > MaxMeta
                            BY <3>7, <5>2, <5>3, CapsAssumption
                        <7>2. ~(Cardinality(keys2) <= MaxMeta)
                            BY <3>7, <7>1, CapsAssumption
                        <7> QED
                            BY <3>3, <5>1, <7>1, <7>2
                    <6> QED
                        BY <3>3, <3>4, <4>1, <5>1, <5>3, <6>1
                <5>4. CASE ~full
                    <6>1. Cardinality(keys2) <= MaxMeta
                        BY <3>6, <3>7, <4>1, <5>2, <5>4, CapsAssumption
                    <6>2. kept2 = keys \cup {k} /\ DOMAIN pubMeta' = keys \cup {k}
                        BY <3>3, <3>4, <5>1, <5>4, <6>1
                    <6> QED
                        BY <3>3, <3>5, <4>1, <5>1, <5>4, <6>1, <6>2
                <5> QED
                    BY <5>3, <5>4
            <4>2. CASE Marker \in D
                <5>1. Cardinality(keys2) > MaxMeta
                    BY <3>6, <3>7, <4>2, CapsAssumption
                <5>2. kept2 = kept
                    BY <3>3, <5>1, <3>7, CapsAssumption
                <5>3. full <=> k \notin D
                    BY <3>6, <4>2 DEF full
                <5>4. DOMAIN pubMeta' = D
                    BY <3>4, <4>2, <5>3
                <5> QED
                    BY <3>3, <3>6, <4>2, <5>1, <5>2, <5>3, <5>4
            <4> QED
                BY <4>1, <4>2
        <3>9. ASSUME NEW q \in kept2
              PROVE  \E i \in 1..Len(publicCalls') :
                       IsLast(publicCalls', q, i) /\ pubMeta'[q] = capValue(publicCalls'[i].val)
            <4>1. CASE q = k
                <5>1. ~full
                    BY <3>8, <3>9, <4>1
                <5>2. n + 1 \in 1..Len(publicCalls') /\ publicCalls'[n + 1].val = v
                    BY <3>3 DEF call
                <5> QED
                    BY <3>3, <3>4, <4>1, <5>1, <5>2
            <4>2. CASE q # k
                <5>1. q \in kept
                    BY <3>3, <3>9, <4>2
                <5>2. PICK i \in 1..n : /\ IsLast(publicCalls, q, i)
                                        /\ pubMeta[q] = capValue(publicCalls[i].val)
                    BY <3>6, <5>1
                <5>3. IsLast(publicCalls', q, i) /\ publicCalls'[i] = publicCalls[i]
                    BY <3>3, <4>2, <5>2
                <5>4. q \in D \ {Marker, k}
                    BY <3>6, <4>2, <5>1
                <5>5. i \in 1..Len(publicCalls')
                    BY <3>3
                <5> QED
                    BY <3>4, <5>2, <5>3, <5>4, <5>5
            <4> QED
                BY <4>1, <4>2
        <3> QED
            BY <3>7, <3>8, <3>9 DEF KeptInv, keys2, kept2
    <2>2. CASE UNCHANGED <<pubMeta, publicCalls>>
        BY <2>2 DEF KeptInv
    <2> QED
        BY <2>1, <2>2 DEF Next, WithInternal, FieldError, Wrap, Public, vars
<1> QED
    BY <1>1, <1>2, TypeCorrect, MetaInvHolds, PTL DEF Spec

\* Rendered metadata is the first MaxMeta distinct keys of the calls, each with
\* its last value, over the static metadata, and the marker iff a key found no room.
THEOREM MetadataIsExact == Spec => []MetadataExact
<1>1. TypeOK /\ KeptInv => MetadataExact
    <2> SUFFICES ASSUME TypeOK, KeptInv PROVE MetadataExact
        OBVIOUS
    <2> DEFINE n       == Len(publicCalls)
               keys    == KeysIn(publicCalls, n)
               kept    == KeptOf(publicCalls)
               lastOf(k) == CHOOSE i \in 1..n :
                              /\ publicCalls[i].key = k
                              /\ \A j \in i+1..n : publicCalls[j].key # k
               static  == [k \in DOMAIN metadata |-> [text |-> metadata[k], cut |-> FALSE]]
    <2>1. /\ DOMAIN mergedMetadata = DOMAIN metadata \cup DOMAIN pubMeta
          /\ \A k \in DOMAIN pubMeta : mergedMetadata[k] = pubMeta[k]
          /\ \A k \in DOMAIN metadata \ DOMAIN pubMeta : mergedMetadata[k] = static[k]
        <3>1. mergedMetadata = Overlay(static, pubMeta) /\ DOMAIN static = DOMAIN metadata
            BY DEF mergedMetadata
        <3> HIDE DEF static
        <3>2. /\ DOMAIN Overlay(static, pubMeta) = DOMAIN static \cup DOMAIN pubMeta
              /\ \A k \in DOMAIN pubMeta : Overlay(static, pubMeta)[k] = pubMeta[k]
              /\ \A k \in DOMAIN static \ DOMAIN pubMeta : Overlay(static, pubMeta)[k] = static[k]
            BY OverlayProperties
        <3> QED
            BY <3>1, <3>2
    <2>2. Marker \notin DOMAIN metadata
        BY StaticAssumption, MarkersAreReserved DEF TypeOK, Marker
    <2>3. n \in Nat
        BY DEF TypeOK
    <2>4. /\ DOMAIN pubMeta \ {Marker} = kept
          /\ Marker \in DOMAIN pubMeta <=> keys # kept
          /\ \A k \in kept : \E i \in 1..n :
               IsLast(publicCalls, k, i) /\ pubMeta[k] = capValue(publicCalls[i].val)
        BY DEF KeptInv
    <2>5. ASSUME NEW k \in kept
          PROVE  mergedMetadata[k] = [text |-> publicCalls[lastOf(k)].val,
                                      cut |-> publicCalls[lastOf(k)].val \in Oversized]
        <3>1. PICK i \in 1..n : /\ IsLast(publicCalls, k, i)
                                /\ pubMeta[k] = capValue(publicCalls[i].val)
            BY <2>4
        <3>2. IsLast(publicCalls, k, lastOf(k)) /\ lastOf(k) \in 1..n
            BY <3>1 DEF IsLast
        <3> HIDE DEF lastOf
        <3>3. lastOf(k) = i
            <4>1. ~(lastOf(k) < i) /\ ~(i < lastOf(k))
                BY <2>3, <3>1, <3>2 DEF IsLast
            <4> QED
                BY <2>3, <3>2, <4>1
        <3>4. k \in DOMAIN pubMeta
            BY <2>4
        <3> QED
            BY <2>1, <3>1, <3>3, <3>4 DEF capValue
    <2>6. DOMAIN mergedMetadata = kept \cup DOMAIN metadata
                 \cup (IF keys # kept THEN {Marker} ELSE {})
        BY <2>1, <2>4
    <2>7. ASSUME NEW k \in DOMAIN metadata \ kept
          PROVE  mergedMetadata[k] = [text |-> metadata[k], cut |-> FALSE]
        BY <2>1, <2>2, <2>4
    <2> QED
        BY <2>5, <2>6, <2>7 DEF MetadataExact, KeysIn, KeptOf, Marker
<1> QED
    BY <1>1, TypeCorrect, KeptInvHolds, PTL

=============================================================================
