------------------------------ MODULE Catalog ------------------------------
(***************************************************************************)
(* The catalog and the maps behind it.  Define copies a Class struct, New  *)
(* copies it again into every *Error, but a Go map inside a struct is a     *)
(* reference: a class, the literal it was defined from and every error      *)
(* stamped out of it share one Metadata map.  Many goroutines stamp out,    *)
(* extend and render errors of the same class at once, without a lock.      *)
(*                                                                         *)
(* Maps live in a heap; an access to a map has a beginning and an end, so   *)
(* that two accesses can overlap.  What an unsynchronised overlap does in   *)
(* Go is undefined; NoDataRace says that there is none.                     *)
(* The cap of WithPublic is the business of ErrorBounds: Keys here are      *)
(* fewer than maxMeta.                                                      *)
(***************************************************************************)
EXTENDS FiniteSets

CONSTANTS
    Classes,        \* package-level classes
    Requests,       \* goroutines, each with an error of its own
    CallerMaps,     \* Metadata maps the application makes
    Scalars,        \* contents of the scalar fields of a Class
    Keys, Values,
    None,
    CallerReuses    \* whether the application edits a map it gave to Define

ASSUME DistinctMaps == CallerMaps \cap Requests = {}
ASSUME ReuseAssumption == CallerReuses \in BOOLEAN
Metadata == UNION {[ks -> Values] : ks \in SUBSET Keys}
ClassCopy == [scalar : Scalars, meta : CallerMaps]
Instance  == [scalar : Scalars, meta : CallerMaps, own : BOOLEAN]

ASSUME NoneAssumption ==
    /\ None \notin CallerMaps \cup Requests \cup ClassCopy \cup Instance
    /\ None \notin [scalar : Scalars, metadata : Metadata]

VARIABLES
    heap,       \* contents of every map; the pubMeta map of request r is at r
    literal,    \* the Class literal in the application's hands
    class,      \* per class: the copy Define made, None before
    inst,       \* per request: its *Error [scalar, meta, own], None before New
    pc,         \* per request: what it is in the middle of
    pending,    \* per request: the entry WithPublic is writing
    out,        \* per request: the fresh map mergedMetadata fills
    body,       \* per request: the last body rendered
    editing,    \* the map the application is in the middle of editing, or None
    promised,   \* history, per request: base surface when New or Public ran
    added       \* history, per request: what it asked WithPublic to add

vars == <<heap, literal, class, inst, pc, pending, out, body, editing, promised, added>>

Maps == CallerMaps \cup Requests
Empty == [k \in {} |-> None]
Put(m, k, v) == [x \in DOMAIN m \cup {k} |-> IF x = k THEN v ELSE m[x]]
Overlay(m1, m2) ==
    [x \in DOMAIN m1 \cup DOMAIN m2 |-> IF x \in DOMAIN m2 THEN m2[x] ELSE m1[x]]

Init ==
    /\ heap = [m \in Maps |-> Empty]
    /\ literal \in ClassCopy
    /\ class = [c \in Classes |-> None]
    /\ inst = [r \in Requests |-> None]
    /\ pc = [r \in Requests |-> "idle"]
    /\ pending = [r \in Requests |-> None]
    /\ out = [r \in Requests |-> Empty]
    /\ body = [r \in Requests |-> None]
    /\ editing = None
    /\ promised = [r \in Requests |-> None]
    /\ added = [r \in Requests |-> Empty]

-----------------------------------------------------------------------------
(* The application *)

\* A map somebody else may be reading: it belongs to a class or to an error.
Shared(m) ==
    \/ \E c \in Classes : class[c] # None /\ class[c].meta = m
    \/ \E r \in Requests : inst[r] # None /\ inst[r].meta = m

BeginEdit(m) ==
    /\ editing = None
    /\ CallerReuses \/ ~Shared(m)
    /\ editing' = m
    /\ UNCHANGED <<heap, literal, class, inst, pc, pending, out, body, promised, added>>

EndEdit(k, v) ==
    /\ editing # None
    /\ heap' = [heap EXCEPT ![editing] = Put(@, k, v)]
    /\ editing' = None
    /\ UNCHANGED <<literal, class, inst, pc, pending, out, body, promised, added>>

\* The literal is a variable like another: it is reused for the next Define.
Reassign(s, m) ==
    /\ literal' = [scalar |-> s, meta |-> m]
    /\ UNCHANGED <<heap, class, inst, pc, pending, out, body, editing, promised, added>>

\* Define runs in the goroutine that edits, so never inside an edit.
Define(c) ==
    /\ class[c] = None /\ editing = None
    /\ class' = [class EXCEPT ![c] = literal]
    /\ UNCHANGED <<heap, literal, inst, pc, pending, out, body, editing, promised, added>>

-----------------------------------------------------------------------------
(* A request and its error *)

Surface(e) == [scalar |-> e.scalar, metadata |-> heap[e.meta]]

New(r, c) ==
    /\ pc[r] = "idle" /\ class[c] # None
    /\ inst' = [inst EXCEPT ![r] = [scalar |-> class[c].scalar, meta |-> class[c].meta,
                                    own |-> FALSE]]
    /\ pc' = [pc EXCEPT ![r] = "building"]
    /\ promised' = [promised EXCEPT ![r] = Surface(class[c])]
    /\ UNCHANGED <<heap, literal, class, pending, out, body, editing, added>>

\* Public replaces the error's surface by one whose Metadata map was made
\* elsewhere and may be shared by every request that passes here.
Public(r, m) ==
    /\ pc[r] = "building"
    /\ CallerReuses \/ editing # m
    /\ inst' = [inst EXCEPT ![r].meta = m]
    /\ promised' = [promised EXCEPT ![r].metadata = heap[m]]
    /\ UNCHANGED <<heap, literal, class, pc, pending, out, body, editing, added>>

\* Mistake: the addition goes into the metadata shared with the class.
writeIntoShared(r) == inst[r].meta

\* The map WithPublic writes to: e.pubMeta, never e.public.Metadata.
putTarget(r) == r

\* Mistake: the map is written without having been made.
beginWithoutMake(r, k, v) ==
    /\ pc[r] = "building"
    /\ pending' = [pending EXCEPT ![r] = [key |-> k, val |-> v]]
    /\ pc' = [pc EXCEPT ![r] = "writing"]
    /\ added' = [added EXCEPT ![r] = Put(@, k, v)]
    /\ UNCHANGED <<heap, literal, class, inst, out, body, editing, promised>>

BeginWithPublic(r, k, v) ==
    /\ pc[r] = "building"
    /\ inst' = [inst EXCEPT ![r].own = TRUE]
    /\ pending' = [pending EXCEPT ![r] = [key |-> k, val |-> v]]
    /\ pc' = [pc EXCEPT ![r] = "writing"]
    /\ added' = [added EXCEPT ![r] = Put(@, k, v)]
    /\ UNCHANGED <<heap, literal, class, out, body, editing, promised>>

EndWithPublic(r) ==
    /\ pc[r] = "writing"
    /\ heap' = [heap EXCEPT ![putTarget(r)] = Put(@, pending[r].key, pending[r].val)]
    /\ pending' = [pending EXCEPT ![r] = None]
    /\ pc' = [pc EXCEPT ![r] = "building"]
    /\ UNCHANGED <<literal, class, inst, out, body, editing, promised, added>>

\* mergedMetadata: both maps empty or nil, and there is nothing to merge;
\* otherwise a fresh map is filled from one source and then from the other.
BeginRender(r) ==
    /\ pc[r] = "building"
    /\ out' = [out EXCEPT ![r] = Empty]
    /\ IF heap[inst[r].meta] = Empty /\ heap[r] = Empty
       THEN /\ body' = [body EXCEPT ![r] = [scalar |-> inst[r].scalar, metadata |-> Empty]]
            /\ UNCHANGED pc
       ELSE /\ pc' = [pc EXCEPT ![r] = "copying static"]
            /\ UNCHANGED body
    /\ UNCHANGED <<heap, literal, class, inst, pending, editing, promised, added>>

CopyStatic(r) ==
    /\ pc[r] = "copying static"
    /\ out' = [out EXCEPT ![r] = Overlay(@, heap[inst[r].meta])]
    /\ pc' = [pc EXCEPT ![r] = "copying own"]
    /\ UNCHANGED <<heap, literal, class, inst, pending, body, editing, promised, added>>

\* Mistakes: the additions are merged into the shared map; the wrong map wins.
mergeInPlace(r) ==
    /\ pc[r] = "copying own"
    /\ heap' = [heap EXCEPT ![inst[r].meta] = Overlay(@, heap[r])]
    /\ body' = [body EXCEPT ![r] = [scalar |-> inst[r].scalar, metadata |-> heap'[inst[r].meta]]]
    /\ pc' = [pc EXCEPT ![r] = "building"]
    /\ UNCHANGED <<literal, class, inst, pending, out, editing, promised, added>>
staticWins(r) ==
    /\ pc[r] = "copying own"
    /\ out' = [out EXCEPT ![r] = Empty]
    /\ body' = [body EXCEPT ![r] = [scalar |-> inst[r].scalar,
                                    metadata |-> Overlay(heap[r], out[r])]]
    /\ pc' = [pc EXCEPT ![r] = "building"]
    /\ UNCHANGED <<heap, literal, class, inst, pending, editing, promised, added>>

CopyOwn(r) ==
    /\ pc[r] = "copying own"
    /\ out' = [out EXCEPT ![r] = Empty]
    /\ body' = [body EXCEPT ![r] = [scalar |-> inst[r].scalar,
                                    metadata |-> Overlay(out[r], heap[r])]]
    /\ pc' = [pc EXCEPT ![r] = "building"]
    /\ UNCHANGED <<heap, literal, class, inst, pending, editing, promised, added>>

Request(r) ==
    \/ \E c \in Classes : New(r, c)
    \/ \E m \in CallerMaps : Public(r, m)
    \/ \E k \in Keys, v \in Values : BeginWithPublic(r, k, v)
    \/ EndWithPublic(r)
    \/ BeginRender(r) \/ CopyStatic(r) \/ CopyOwn(r)

Application ==
    \/ \E m \in CallerMaps : BeginEdit(m)
    \/ \E k \in Keys, v \in Values : EndEdit(k, v)
    \/ \E s \in Scalars, m \in CallerMaps : Reassign(s, m)
    \/ \E c \in Classes : Define(c)

Next == Application \/ \E r \in Requests : Request(r)

Spec == Init /\ [][Next]_vars

-----------------------------------------------------------------------------
(* Properties *)

\* Every reference is to a map of its own side: classes and errors point to
\* maps the application made, and a request has a map of its own only after
\* WithPublic made one.
TypeOK ==
    /\ heap \in [Maps -> Metadata]
    /\ literal \in ClassCopy
    /\ class \in [Classes -> ClassCopy \cup {None}]
    /\ inst \in [Requests -> Instance \cup {None}]
    /\ \A r \in Requests : heap[r] # Empty => inst[r] # None /\ inst[r].own
    /\ pc \in [Requests -> {"idle", "building", "writing", "copying static", "copying own"}]
    /\ pending \in [Requests -> [key : Keys, val : Values] \cup {None}]
    /\ out \in [Requests -> Metadata]
    /\ body \in [Requests -> [scalar : Scalars, metadata : Metadata] \cup {None}]
    /\ editing \in CallerMaps \cup {None}
    /\ promised \in [Requests -> [scalar : Scalars, metadata : Metadata] \cup {None}]
    /\ added \in [Requests -> Metadata]

\* Who is inside map m, writing and reading.
Writers(m) ==
    {r \in Requests : pc[r] = "writing" /\ putTarget(r) = m}
      \cup (IF editing = m THEN {"application"} ELSE {})
Readers(m) ==
    {r \in Requests : \/ pc[r] = "copying static" /\ inst[r].meta = m
                      \/ pc[r] = "copying own" /\ r = m}

\* No two goroutines are ever inside one map with one of them writing, although
\* nothing in the code takes a lock (catalog.go: "many goroutines can New()/
\* build/render from one Class concurrently with no locking").
NoDataRace ==
    \A m \in Maps : \A w \in Writers(m) : Writers(m) \cup Readers(m) = {w}

\* Between two calls on it, an error is exactly the surface it was stamped out
\* with (or given by Public) and the additions this request asked for: nothing
\* another request or a later edit did has reached it (catalog.go: "instances
\* are fully isolated from each other and from the class").
Isolation ==
    \A r \in Requests :
        inst[r] # None /\ pc[r] # "writing" =>
            Surface(inst[r]) = promised[r] /\ heap[r] = added[r]

\* Once Define has returned, what the class would stamp out never changes
\* (catalog.go: the caller's literal "cannot later be mutated to affect
\* already-defined errors").
ClassFrozen ==
    [][\A c \in Classes : class[c] # None =>
          class'[c] = class[c] /\ heap'[class[c].meta] = heap[class[c].meta]]_vars

\* The heap with its references is one way to build the errors of
\* IsolatedErrors: the maps behind classes and errors read as values.
Isolated == INSTANCE IsolatedErrors WITH
    defined <- [c \in Classes |-> IF class[c] = None THEN None ELSE Surface(class[c])],
    base    <- [r \in Requests |-> IF inst[r] = None THEN None ELSE Surface(inst[r])],
    added   <- [r \in Requests |-> heap[r]],
    body    <- body

ImplementsIsolated == Isolated!Spec
=============================================================================
