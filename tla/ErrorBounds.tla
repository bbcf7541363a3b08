---------------------------- MODULE ErrorBounds ----------------------------
(***************************************************************************)
(* One *Error between its construction and its rendering: the builder      *)
(* calls that make it grow (WithInternal, WithPublic, FieldError), the two *)
(* that replace a part of it (Wrap, Public), and what wire() then shows of *)
(* its metadata and of its errors[] array.  Every growing part is capped,  *)
(* and the caps are where the code is delicate: three channels, three      *)
(* different ways to count, and for errors[] a cap that is applied twice,  *)
(* once while building and once while rendering.                           *)
(*                                                                         *)
(* A *Error is confined to one goroutine while it is built, so the module  *)
(* is sequential: a behaviour is a builder chain.                          *)
(***************************************************************************)
EXTENDS Integers, Sequences, FiniteSets

CONSTANTS
    MaxFields,      \* maxFields: entries kept by WithInternal
    MaxMeta,        \* maxMeta: distinct keys kept by WithPublic
    MaxFieldErrors, \* maxFieldErrors: entries of the wire errors[]
    Keys,           \* keys a caller passes to WithInternal and WithPublic
    Values,         \* values a caller attaches
    Oversized,      \* the values that are strings longer than maxValueLen
    Triples,        \* arguments of FieldError: [field, code, message]
    Members,        \* members of a wrapped aggregate
    EntryOf,        \* EntryOf[m]: the triple of the herr error m is or wraps
    Causes,         \* what a caller passes to Wrap: [aggregate, members]
    StaticMetadata, \* Metadata maps a class or a call of Public brings
    MaxCalls        \* bound on the length of the builder chain (model only)

NoMessage == "no message"
Floor     == "floor of unprocessable"
Text      == [text : Values \cup {"true"}, cut : BOOLEAN]
Field     == [key : Keys \cup {"_fields_truncated"}, val : Text]
HerrMembers == DOMAIN EntryOf

ASSUME CapsAssumption == MaxFields \in Nat /\ MaxMeta \in Nat /\ MaxFieldErrors \in Nat
ASSUME CallsAssumption == MaxCalls \in Nat
ASSUME ValuesAssumption == Oversized \subseteq Values
\* The markers are reserved: no caller uses them as a key of its own.
ASSUME MarkersAreReserved ==
    "_fields_truncated" \notin Keys /\ "_metadata_truncated" \notin Keys
ASSUME TriplesAssumption ==
    \A t \in Triples \cup {EntryOf[m] : m \in HerrMembers} :
        t = [field |-> t.field, code |-> t.code, message |-> t.message]
ASSUME CausesAssumption ==
    /\ HerrMembers \subseteq Members
    /\ \A c \in Causes : c = [aggregate |-> c.aggregate, members |-> c.members]
    /\ \A c \in Causes : c.aggregate \in BOOLEAN /\ c.members \in Seq(Members)
    /\ [aggregate |-> FALSE, members |-> <<>>] \in Causes
ASSUME StaticAssumption ==
    \A m \in StaticMetadata : DOMAIN m \subseteq Keys /\ \A k \in DOMAIN m : m[k] \in Values

VARIABLES
    fields,         \* e.fields
    pubMeta,        \* e.pubMeta
    metadata,       \* e.public.Metadata
    children,       \* e.children, each [field, code, message]
    cause,          \* e.cause
    internalCalls,  \* history: the arguments of every WithInternal, in order
    publicCalls,    \* history: the arguments of every WithPublic, in order
    childCalls      \* history: the arguments of every FieldError, in order

vars == <<fields, pubMeta, metadata, children, cause, internalCalls, publicCalls, childCalls>>

noCause == [aggregate |-> FALSE, members |-> <<>>]

-----------------------------------------------------------------------------
(* Operators of the code *)

\* A string value longer than the cap keeps its head and gains truncMarker;
\* every other value is stored as it is.
capValue(v) == [text |-> v, cut |-> v \in Oversized]

\* The boolean true a truncation marker carries.
markerValue    == [text |-> "true", cut |-> FALSE]

\* Mistake: the marker of another channel.
metadataMarkerInFields == [key |-> "_metadata_truncated", val |-> [text |-> "true", cut |-> FALSE]]

fieldsMarker   == [key |-> "_fields_truncated", val |-> markerValue]
childMarker    == [field |-> "", code |-> "_errors_truncated", message |-> NoMessage]
wireMarker     == [field |-> "", code |-> "_errors_truncated", message |-> ""]

\* Mistakes: a marker for every dropped call; the last call in the marker's place.
appendRepeatsMarker(s, max, x, marker) ==
    IF Len(s) < max THEN Append(s, x) ELSE Append(s, marker)
appendOverwritesMarker(s, max, x, marker) ==
    IF Len(s) < max THEN Append(s, x)
    ELSE IF Len(s) = max THEN Append(s, marker)
    ELSE [s EXCEPT ![Len(s)] = x]

\* The common shape of WithInternal and FieldError: below the cap append, at
\* the cap append the marker, above it drop.
AppendCapped(s, max, x, marker) ==
    IF Len(s) < max THEN Append(s, x)
    ELSE IF Len(s) = max THEN Append(s, marker)
    ELSE s

\* Mistake: a list that is exactly full counts as truncated.
truncateFullToo(s, max, marker) ==
    IF Len(s) >= max THEN Append(SubSeq(s, 1, max), marker) ELSE s

\* What a rendered list keeps: max entries and then the marker.
Truncate(s, max, marker) ==
    IF Len(s) > max THEN Append(SubSeq(s, 1, max), marker) ELSE s

\* m1 with the entries of m2 put on top, as two range loops fill a fresh map.
Overlay(m1, m2) ==
    [k \in DOMAIN m1 \cup DOMAIN m2 |-> IF k \in DOMAIN m2 THEN m2[k] ELSE m1[k]]

\* The rendered form of a child: its public triple, with the floor message of
\* its Kind when it has none of its own.
fieldEntry(t) ==
    [field |-> t.field, code |-> t.code,
     message |-> IF t.message = NoMessage THEN Floor ELSE t.message]

\* aggregateChildren: only an error that unwraps to a list has children.
aggregateChildren(c) == IF c.aggregate THEN c.members ELSE <<>>

\* The members of the aggregate in which errors.As finds a herr error, rendered
\* one after the other.
promoted(c) ==
    LET members == aggregateChildren(c)
        out[n \in 0..Len(members)] ==
            IF n = 0 THEN <<>>
            ELSE IF members[n] \in HerrMembers
                 THEN Append(out[n - 1], fieldEntry(EntryOf[members[n]]))
                 ELSE out[n - 1]
    IN  out[Len(members)]

\* errors[]: the explicit children, then what was promoted, cut once more.
fieldErrorsWith(promotions) ==
    Truncate([i \in 1..Len(children) |-> fieldEntry(children[i])] \o promotions,
             MaxFieldErrors, wireMarker)

fieldErrors == fieldErrorsWith(promoted(cause))

mergedMetadata ==
    Overlay([k \in DOMAIN metadata |-> [text |-> metadata[k], cut |-> FALSE]], pubMeta)

-----------------------------------------------------------------------------
(* The builder chain *)

Calls == Len(internalCalls) + Len(publicCalls) + Len(childCalls)

Init ==
    /\ fields = <<>>
    /\ pubMeta = <<>>
    /\ metadata \in StaticMetadata
    /\ children = <<>>
    /\ cause = noCause
    /\ internalCalls = <<>> /\ publicCalls = <<>> /\ childCalls = <<>>

WithInternal(k, v) ==
    /\ Calls < MaxCalls
    /\ fields' = AppendCapped(fields, MaxFields, [key |-> k, val |-> capValue(v)], fieldsMarker)
    /\ internalCalls' = Append(internalCalls, [key |-> k, val |-> v])
    /\ UNCHANGED <<pubMeta, metadata, children, cause, publicCalls, childCalls>>

\* Mistake: the cap also keeps an existing key from being overwritten.
putRefusesOverwrite(k, v) ==
    IF Cardinality(DOMAIN pubMeta) >= MaxMeta
    THEN Overlay(pubMeta, [m \in {"_metadata_truncated"} |-> markerValue])
    ELSE Overlay(pubMeta, [m \in {k} |-> capValue(v)])

\* Overwriting a key never grows the map, so only a new key meets the cap; the
\* marker itself is one more key of the map.
putPublic(k, v) ==
    IF k \notin DOMAIN pubMeta /\ Cardinality(DOMAIN pubMeta) >= MaxMeta
    THEN Overlay(pubMeta, [m \in {"_metadata_truncated"} |-> markerValue])
    ELSE Overlay(pubMeta, [m \in {k} |-> capValue(v)])

WithPublic(k, v) ==
    /\ Calls < MaxCalls
    /\ pubMeta' = putPublic(k, v)
    /\ publicCalls' = Append(publicCalls, [key |-> k, val |-> v])
    /\ UNCHANGED <<fields, metadata, children, cause, internalCalls, childCalls>>

FieldError(t) ==
    /\ Calls < MaxCalls
    /\ children' = AppendCapped(children, MaxFieldErrors, t, childMarker)
    /\ childCalls' = Append(childCalls, t)
    /\ UNCHANGED <<fields, pubMeta, metadata, cause, internalCalls, publicCalls>>

\* A later Wrap replaces the earlier cause, and with it what is promoted.
Wrap(c) ==
    /\ cause' = c
    /\ UNCHANGED <<fields, pubMeta, metadata, children, internalCalls, publicCalls, childCalls>>

\* Public replaces the static surface and leaves what WithPublic collected.
Public(m) ==
    /\ metadata' = m
    /\ UNCHANGED <<fields, pubMeta, children, cause, internalCalls, publicCalls, childCalls>>

Next ==
    \/ \E k \in Keys, v \in Values : WithInternal(k, v)
    \/ \E k \in Keys, v \in Values : WithPublic(k, v)
    \/ \E t \in Triples : FieldError(t)
    \/ \E c \in Causes : Wrap(c)
    \/ \E m \in StaticMetadata : Public(m)

Spec == Init /\ [][Next]_vars

-----------------------------------------------------------------------------
(* Properties *)

\* Every channel stores only what its own calls brought, cut to size, and the
\* marker of that channel.
TypeOK ==
    /\ fields \in Seq(Field)
    /\ DOMAIN pubMeta \subseteq Keys \cup {"_metadata_truncated"}
    /\ \A k \in DOMAIN pubMeta : pubMeta[k] \in Text
    /\ metadata \in StaticMetadata
    /\ children \in Seq(Triples \cup {childMarker})
    /\ cause \in Causes
    /\ internalCalls \in Seq([key : Keys, val : Values])
    /\ publicCalls \in Seq([key : Keys, val : Values])
    /\ childCalls \in Seq(Triples)

\* out shows the first max elements of all and, when there are more, one marker.
IsBoundedView(out, all, max, marker) ==
    /\ Len(out) = IF Len(all) > max THEN max + 1 ELSE Len(all)
    /\ \A i \in 1..Len(out) : out[i] = IF i > max THEN marker ELSE all[i]

\* What each call of WithInternal deserves to leave in the log.
LoggedCalls ==
    [i \in 1..Len(internalCalls) |->
       [key |-> internalCalls[i].key,
        val |-> [text |-> internalCalls[i].val, cut |-> internalCalls[i].val \in Oversized]]]

\* The log fields are the first MaxFields calls of WithInternal, in call order
\* and with only oversized values cut, then exactly one marker iff a call was
\* dropped (fields.go: "a one-time truncation marker is recorded so the loss is
\* visible rather than silent").
FieldsExact ==
    IsBoundedView(fields,
                  LoggedCalls,
                  MaxFields,
                  [key |-> "_fields_truncated", val |-> [text |-> "true", cut |-> FALSE]])

\* The entry a triple deserves, told apart from how fieldEntry computes it.
Shown(t) == [t EXCEPT !.message = IF @ = NoMessage THEN Floor ELSE @]

\* The entries the members of the wrapped aggregate deserve, by position: the
\* n-th is the n-th member that is or wraps a herr error.
ExpectedPromotions ==
    LET at == {i \in 1..Len(cause.members) : cause.aggregate /\ cause.members[i] \in HerrMembers}
        nth(n) == CHOOSE i \in at : Cardinality({j \in at : j <= i}) = n
    IN  [n \in 1..Cardinality(at) |-> Shown(EntryOf[cause.members[nth(n)]])]

ErrorsExactFor(promotions) ==
    IsBoundedView(fieldErrorsWith(promotions),
                  [i \in 1..Len(childCalls) |-> Shown(childCalls[i])] \o promotions,
                  MaxFieldErrors, wireMarker)

\* The wire errors[] shows every FieldError call and then every herr member of
\* a wrapped aggregate, cut once at MaxFieldErrors: the two caps (one at build
\* time, one at render time) act as one, never two markers, never a marker with
\* a made-up message, never an entry for a member that is not a herr error.
ErrorsExact ==
    /\ promoted(cause) = ExpectedPromotions
    /\ ErrorsExactFor(ExpectedPromotions)

\* Rendered metadata: of the keys passed to WithPublic the first MaxMeta
\* distinct ones, each with its LAST value, over the static metadata; the
\* marker is there iff some key found no room, and then the static value of
\* that key, if it has one, still shows.
MetadataExact ==
    LET keysUpTo(i) == {publicCalls[j].key : j \in 1..i}
        kept == {publicCalls[i].key : i \in {j \in 1..Len(publicCalls) :
                                               Cardinality(keysUpTo(j)) <= MaxMeta}}
        lastOf(k) == CHOOSE i \in 1..Len(publicCalls) :
                        /\ publicCalls[i].key = k
                        /\ \A j \in i+1..Len(publicCalls) : publicCalls[j].key # k
        dropped == keysUpTo(Len(publicCalls)) # kept
    IN  /\ DOMAIN mergedMetadata = kept \cup DOMAIN metadata
                 \cup (IF dropped THEN {"_metadata_truncated"} ELSE {})
        /\ \A k \in kept : LET v == publicCalls[lastOf(k)].val
                           IN  mergedMetadata[k] = [text |-> v, cut |-> v \in Oversized]
        /\ \A k \in DOMAIN metadata \ kept : mergedMetadata[k] = [text |-> metadata[k], cut |-> FALSE]

\* A truncation marker, once recorded on any of the three channels, is never
\* removed or displaced by a later builder call, and nothing recorded before it
\* changes: only WithPublic may rewrite, and only the value of a kept key.
MarkersAreFinal ==
    [][ /\ Len(fields) > MaxFields => fields' = fields
        /\ Len(children) > MaxFieldErrors => children' = children
        /\ "_metadata_truncated" \in DOMAIN pubMeta => DOMAIN pubMeta' = DOMAIN pubMeta ]_vars

=============================================================================
