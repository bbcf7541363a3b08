--------------------------- MODULE IsolatedErrors ---------------------------
(***************************************************************************)
(* What the catalog promises, with no memory in it: a class is a value     *)
(* fixed when it is defined, an error is a value of its own from the       *)
(* moment it is stamped out, and a response body is the error's base       *)
(* metadata with the error's own additions on top.                         *)
(***************************************************************************)
CONSTANTS Classes, Requests, Scalars, Keys, Values, None

Metadata == UNION {[ks -> Values] : ks \in SUBSET Keys}
Surface  == [scalar : Scalars, metadata : Metadata]

VARIABLES
    defined,    \* per class: its surface, None before Define
    base,       \* per request: the surface its error started from, None before New
    added,      \* per request: the metadata it added
    body        \* per request: the last body rendered, None before

avars == <<defined, base, added, body>>

put(m, k, v) == [x \in DOMAIN m \cup {k} |-> IF x = k THEN v ELSE m[x]]
over(m1, m2) == [x \in DOMAIN m1 \cup DOMAIN m2 |-> IF x \in DOMAIN m2 THEN m2[x] ELSE m1[x]]

Init ==
    /\ defined = [c \in Classes |-> None]
    /\ base = [r \in Requests |-> None]
    /\ added = [r \in Requests |-> [k \in {} |-> None]]
    /\ body = [r \in Requests |-> None]

\* A class is defined once, with any surface.
Define(c) ==
    /\ defined[c] = None
    /\ \E s \in Surface : defined' = [defined EXCEPT ![c] = s]
    /\ UNCHANGED <<base, added, body>>

New(r, c) ==
    /\ defined[c] # None /\ base[r] = None
    /\ base' = [base EXCEPT ![r] = defined[c]]
    /\ UNCHANGED <<defined, added, body>>

\* The request gives its own error another public surface.
Public(r) ==
    /\ base[r] # None
    /\ \E m \in Metadata : base' = [base EXCEPT ![r].metadata = m]
    /\ UNCHANGED <<defined, added, body>>

Add(r) ==
    /\ base[r] # None
    /\ \E k \in Keys, v \in Values : added' = [added EXCEPT ![r] = put(@, k, v)]
    /\ UNCHANGED <<defined, base, body>>

Render(r) ==
    /\ base[r] # None
    /\ body' = [body EXCEPT ![r] = [scalar |-> base[r].scalar,
                                    metadata |-> over(base[r].metadata, added[r])]]
    /\ UNCHANGED <<defined, base, added>>

Next ==
    \/ \E c \in Classes : Define(c)
    \/ \E r \in Requests : \/ \E c \in Classes : New(r, c)
                           \/ Public(r) \/ Add(r) \/ Render(r)

Spec == Init /\ [][Next]_avars
=============================================================================
