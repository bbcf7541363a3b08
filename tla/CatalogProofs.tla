--------------------------- MODULE CatalogProofs ---------------------------
(***************************************************************************)
(* The isolation of errors, for any number of classes, requests, maps,      *)
(* keys and values, under the one thing the package asks of the            *)
(* application: that it does not edit a map it has handed over.            *)
(***************************************************************************)
EXTENDS Catalog, TLAPS

\* The shape of the state, as far as the argument needs it.
Shape ==
    /\ DOMAIN heap = Maps
    /\ literal \in ClassCopy
    /\ class \in [Classes -> ClassCopy \cup {None}]
    /\ inst \in [Requests -> Instance \cup {None}]
    /\ DOMAIN pc = Requests /\ DOMAIN pending = Requests
    /\ DOMAIN promised = Requests /\ DOMAIN added = Requests
    /\ editing \in CallerMaps \cup {None}

\* The application is never inside a map that a class or an error refers to.
NoSharedEdit == editing # None => ~Shared(editing)

\* An error exists exactly when its request is past New.
Started(r) == pc[r] = "idle" <=> inst[r] = None

\* What an error shows is what it was given; its own map is what was added,
\* the entry being written aside.
Own(r) ==
    IF pc[r] = "writing" THEN Put(heap[r], pending[r].key, pending[r].val) ELSE heap[r]

Faithful(r) ==
    /\ inst[r] # None => Surface(inst[r]) = promised[r]
    /\ added[r] = Own(r)

CatalogInv ==
    /\ Shape
    /\ NoSharedEdit
    /\ \A r \in Requests : Started(r) /\ Faithful(r)

-----------------------------------------------------------------------------
\* Only the requests' own maps are written while somebody may be reading: the
\* invariant, action by action.
LEMMA CatalogInvHolds ==
    ASSUME CallerReuses = FALSE
    PROVE  Spec => []CatalogInv
<1>1. Init => CatalogInv
    <2> SUFFICES ASSUME Init PROVE CatalogInv
        OBVIOUS
    <2>1. Shape
        BY DEF Init, Shape
    <2>2. NoSharedEdit
        BY DEF Init, NoSharedEdit
    <2>3. \A r \in Requests : Started(r) /\ Faithful(r)
        BY DEF Init, Started, Faithful, Own, Maps
    <2> QED
        BY <2>1, <2>2, <2>3 DEF CatalogInv
<1>2. CatalogInv /\ [Next]_vars => CatalogInv'
    <2> SUFFICES ASSUME CatalogInv, [Next]_vars PROVE CatalogInv'
        OBVIOUS
    <2> USE DEF CatalogInv
    <2>1. ASSUME NEW m \in CallerMaps, BeginEdit(m) PROVE CatalogInv'
        <3>1. Shape'
            BY <2>1 DEF BeginEdit, Shape
        <3>2. NoSharedEdit'
            BY <2>1 DEF BeginEdit, NoSharedEdit, Shared
        <3>3. \A r \in Requests : Started(r)' /\ Faithful(r)'
            BY <2>1 DEF BeginEdit, Started, Faithful, Own, Surface
        <3> QED
            BY <3>1, <3>2, <3>3
    <2>2. ASSUME NEW k \in Keys, NEW v \in Values, EndEdit(k, v) PROVE CatalogInv'
        <3>1. Shape'
            BY <2>2 DEF EndEdit, Shape
        <3>2. NoSharedEdit'
            BY <2>2 DEF EndEdit, NoSharedEdit
        <3>3. \A r \in Requests : Started(r)'
            BY <2>2 DEF EndEdit, Started
        <3>4. \A m \in Maps : m # editing => heap'[m] = heap[m]
            BY <2>2 DEF EndEdit, Shape
        <3>5. ASSUME NEW r \in Requests PROVE Faithful(r)'
            <4>1. r # editing /\ heap'[r] = heap[r]
                BY <3>4, DistinctMaps, NoneAssumption, <2>2 DEF EndEdit, Shape, Maps
            <4>2. inst[r] # None => heap'[inst[r].meta] = heap[inst[r].meta]
                BY <3>4, <2>2 DEF EndEdit, Shape, NoSharedEdit, Shared, Maps, Instance
            <4> QED
                BY <2>2, <4>1, <4>2 DEF EndEdit, Faithful, Own, Surface
        <3> QED
            BY <3>1, <3>2, <3>3, <3>5
    <2>3. ASSUME NEW s \in Scalars, NEW m \in CallerMaps, Reassign(s, m) PROVE CatalogInv'
        BY <2>3 DEF Reassign, Shape, NoSharedEdit, Shared, Started, Faithful, Own, Surface, ClassCopy
    <2>4. ASSUME NEW c \in Classes, Define(c) PROVE CatalogInv'
        <3>1. Shape'
            BY <2>4 DEF Define, Shape
        <3>2. NoSharedEdit'
            BY <2>4 DEF Define, NoSharedEdit
        <3>3. \A r \in Requests : Started(r)' /\ Faithful(r)'
            BY <2>4 DEF Define, Started, Faithful, Own, Surface
        <3> QED
            BY <3>1, <3>2, <3>3
    <2>5. ASSUME NEW r \in Requests, NEW c \in Classes, New(r, c) PROVE CatalogInv'
        <3>1. class[c] \in ClassCopy
            BY <2>5 DEF New, Shape
        <3> DEFINE e == [scalar |-> class[c].scalar, meta |-> class[c].meta, own |-> FALSE]
        <3>2. e \in Instance /\ e # None
            <4>1. class[c].scalar \in Scalars /\ class[c].meta \in CallerMaps
                BY <3>1 DEF ClassCopy
            <4>2. e \in Instance
                BY <4>1 DEF Instance
            <4> QED
                BY <4>2, NoneAssumption
        <3>3. /\ inst' = [inst EXCEPT ![r] = e] /\ pc' = [pc EXCEPT ![r] = "building"]
              /\ promised' = [promised EXCEPT ![r] = Surface(class[c])]
              /\ UNCHANGED <<heap, literal, class, pending, editing, added>>
            BY <2>5 DEF New
        <3>4. Shape'
            BY <3>2, <3>3 DEF Shape
        <3>5. NoSharedEdit'
            <4>1. Shared(e.meta)
                BY <2>5 DEF New, Shared
            <4> QED
                BY <3>3, <4>1 DEF NoSharedEdit, Shared, Shape
        <3>6. \A q \in Requests : Started(q)'
            BY <3>2, <3>3 DEF Started, Shape
        <3>7. \A q \in Requests : Faithful(q)'
            BY <2>5, <3>2, <3>3 DEF New, Faithful, Own, Surface, Shape
        <3> QED
            BY <3>4, <3>5, <3>6, <3>7
    <2>6. ASSUME NEW r \in Requests, NEW m \in CallerMaps, Public(r, m) PROVE CatalogInv'
        <3>1. inst[r] \in Instance
            BY <2>6 DEF Public, Shape, Started
        <3> DEFINE e == [inst[r] EXCEPT !.meta = m]
        <3>2. e \in Instance /\ e # None /\ e.meta = m /\ e.scalar = inst[r].scalar
            BY <3>1, NoneAssumption DEF Instance
        <3>3. /\ inst' = [inst EXCEPT ![r] = e]
              /\ promised' = [promised EXCEPT ![r] = [@ EXCEPT !.metadata = heap[m]]]
              /\ UNCHANGED <<heap, literal, class, pc, pending, editing, added>>
            BY <2>6 DEF Public
        <3> HIDE DEF e
        <3>4. Shape'
            BY <3>2, <3>3 DEF Shape
        <3>5. NoSharedEdit'
            BY <2>6, <3>2, <3>3 DEF Public, NoSharedEdit, Shared, Shape
        <3>6. \A q \in Requests : Started(q)'
            BY <2>6, <3>2, <3>3 DEF Public, Started, Shape
        <3>7. \A q \in Requests : Faithful(q)'
            <4>1. promised[r] = [scalar |-> inst[r].scalar, metadata |-> heap[inst[r].meta]]
                BY <3>1, NoneAssumption DEF Faithful, Surface
            <4>2. promised'[r] = [scalar |-> e.scalar, metadata |-> heap[e.meta]]
                BY <3>2, <3>3, <4>1 DEF Shape
            <4> QED
                BY <3>3, <4>2 DEF Faithful, Own, Surface, Shape
        <3> QED
            BY <3>4, <3>5, <3>6, <3>7
    <2>7. ASSUME NEW r \in Requests, NEW k \in Keys, NEW v \in Values, BeginWithPublic(r, k, v)
          PROVE  CatalogInv'
        <3>1. inst[r] \in Instance
            BY <2>7 DEF BeginWithPublic, Shape, Started
        <3> DEFINE e == [inst[r] EXCEPT !.own = TRUE]
        <3>2. /\ e \in Instance /\ e # None
              /\ e.meta = inst[r].meta /\ e.scalar = inst[r].scalar
            BY <3>1, NoneAssumption DEF Instance
        <3>3. /\ inst' = [inst EXCEPT ![r] = e] /\ pc' = [pc EXCEPT ![r] = "writing"]
              /\ pending' = [pending EXCEPT ![r] = [key |-> k, val |-> v]]
              /\ added' = [added EXCEPT ![r] = Put(added[r], k, v)]
              /\ UNCHANGED <<heap, literal, class, editing, promised>>
            BY <2>7 DEF BeginWithPublic
        <3> HIDE DEF e
        <3>4. Shape'
            BY <3>2, <3>3 DEF Shape
        <3>5. NoSharedEdit'
            BY <3>1, <3>2, <3>3, NoneAssumption DEF NoSharedEdit, Shared, Shape
        <3>6. \A q \in Requests : Started(q)'
            BY <2>7, <3>2, <3>3 DEF BeginWithPublic, Started, Shape
        <3>7. \A q \in Requests : Faithful(q)'
            <4>1. added[r] = heap[r]
                BY <2>7 DEF BeginWithPublic, Faithful, Own
            <4>2. pending'[r].key = k /\ pending'[r].val = v
                BY <3>3 DEF Shape
            <4>3. added'[r] = Own(r)'
                BY <3>3, <4>1, <4>2 DEF Own, Shape
            <4>4. (inst[r] # None => Surface(inst[r]) = promised[r])'
                BY <3>1, <3>2, <3>3, NoneAssumption DEF Faithful, Surface, Shape
            <4>5. ASSUME NEW q \in Requests, q # r PROVE Faithful(q)'
                BY <3>3, <4>5 DEF Faithful, Own, Surface, Shape
            <4> QED
                BY <4>3, <4>4, <4>5 DEF Faithful
        <3> QED
            BY <3>4, <3>5, <3>6, <3>7
    <2>8. ASSUME NEW r \in Requests, EndWithPublic(r) PROVE CatalogInv'
        <3>1. /\ heap' = [heap EXCEPT ![r] = Put(heap[r], pending[r].key, pending[r].val)]
              /\ pending' = [pending EXCEPT ![r] = None] /\ pc' = [pc EXCEPT ![r] = "building"]
              /\ UNCHANGED <<literal, class, inst, editing, promised, added>>
            BY <2>8 DEF EndWithPublic, putTarget
        <3>2. Shape'
            BY <3>1 DEF Shape
        <3>3. NoSharedEdit'
            BY <3>1 DEF NoSharedEdit, Shared
        <3>4. \A q \in Requests : Started(q)'
            BY <2>8, <3>1 DEF EndWithPublic, Started, Shape
        <3>5. \A m \in Maps : m # r => heap'[m] = heap[m]
            BY <3>1 DEF Shape
        <3>6. ASSUME NEW q \in Requests PROVE Faithful(q)'
            <4>1. added'[q] = Own(q)'
                BY <2>8, <3>1, <3>5 DEF EndWithPublic, Faithful, Own, Shape, Maps
            <4>2. inst[q] # None => heap'[inst[q].meta] = heap[inst[q].meta]
                BY <3>5, DistinctMaps DEF Shape, Maps, Instance
            <4> QED
                BY <3>1, <4>1, <4>2 DEF Faithful, Surface
        <3> QED
            BY <3>2, <3>3, <3>4, <3>6
    <2>9. ASSUME NEW r \in Requests, BeginRender(r) \/ CopyStatic(r) \/ CopyOwn(r)
          PROVE  CatalogInv'
        <3>1. /\ UNCHANGED <<heap, literal, class, inst, pending, editing, promised, added>>
              /\ pc[r] \notin {"idle", "writing"}
              /\ \E p \in {"building", "copying static", "copying own"} : pc' = [pc EXCEPT ![r] = p]
                   \/ pc' = pc
            BY <2>9 DEF BeginRender, CopyStatic, CopyOwn
        <3>2. /\ DOMAIN pc' = Requests
              /\ \A q \in Requests : (pc'[q] = "idle" <=> pc[q] = "idle")
                                  /\ (pc'[q] = "writing" <=> pc[q] = "writing")
            BY <3>1 DEF Shape
        <3> QED
            BY <3>1, <3>2 DEF Shape, NoSharedEdit, Shared, Started, Faithful, Own, Surface
    <2>10. CASE UNCHANGED vars
        BY <2>10 DEF vars, Shape, NoSharedEdit, Shared, Started, Faithful, Own, Surface
    <2> QED
        BY <2>1, <2>2, <2>3, <2>4, <2>5, <2>6, <2>7, <2>8, <2>9, <2>10
           DEF Next, Application, Request
<1> QED
    BY <1>1, <1>2, PTL DEF Spec

-----------------------------------------------------------------------------
\* Between two calls an error is what it was given and what its own request
\* added, whatever the other requests and the application do meanwhile.
THEOREM ErrorsAreIsolated ==
    ASSUME CallerReuses = FALSE
    PROVE  Spec => []Isolation
<1>1. CatalogInv => Isolation
    BY DEF CatalogInv, Faithful, Own, Isolation
<1> QED
    BY <1>1, CatalogInvHolds, PTL

\* No map is ever written while another goroutine is inside it, without a lock:
\* a request writes its own map only, and the maps that are shared are only read.
THEOREM NoRaceOnAnyMap ==
    ASSUME CallerReuses = FALSE
    PROVE  Spec => []NoDataRace
<1>1. CatalogInv => NoDataRace
    <2> SUFFICES ASSUME CatalogInv, NEW m \in Maps, NEW w \in Writers(m)
                 PROVE  Writers(m) \cup Readers(m) = {w}
        BY DEF NoDataRace
    <2>1. \A r \in Requests : inst[r] # None => inst[r].meta \in CallerMaps
        BY DEF CatalogInv, Shape, Instance
    <2>2. \A r \in Requests : pc[r] # "idle" => inst[r] # None
        BY DEF CatalogInv, Started
    <2>3. CASE m \in Requests
        <3>1. editing # m
            BY <2>3, DistinctMaps, NoneAssumption DEF CatalogInv, Shape, Maps
        <3>2. Writers(m) \subseteq {m}
            BY <3>1 DEF Writers, putTarget
        <3>3. pc[m] = "writing"
            BY <3>1 DEF Writers, putTarget
        <3>4. Readers(m) = {}
            BY <2>1, <2>2, <2>3, <3>3, DistinctMaps DEF Readers
        <3> QED
            BY <3>2, <3>4
    <2>4. CASE m \in CallerMaps
        <3>1. Writers(m) \subseteq {"application"} /\ editing = m
            BY <2>4, DistinctMaps DEF Writers, putTarget
        <3>2. ~Shared(m)
            BY <3>1, <2>4, NoneAssumption DEF CatalogInv, NoSharedEdit
        <3>3. Readers(m) = {}
            BY <2>2, <2>4, <3>2, DistinctMaps DEF Readers, Shared
        <3> QED
            BY <3>1, <3>3
    <2> QED
        BY <2>3, <2>4 DEF Maps
<1> QED
    BY <1>1, CatalogInvHolds, PTL

\* What a class stamps out is fixed from its definition on.
THEOREM ClassesStayFrozen ==
    ASSUME CallerReuses = FALSE
    PROVE  Spec => ClassFrozen
<1> DEFINE Frozen == \A c \in Classes : class[c] # None =>
                        class'[c] = class[c] /\ heap'[class[c].meta] = heap[class[c].meta]
<1>1. CatalogInv /\ [Next]_vars => [Frozen]_vars
    <2> SUFFICES ASSUME CatalogInv, Next, NEW c \in Classes, class[c] # None
                 PROVE  class'[c] = class[c] /\ heap'[class[c].meta] = heap[class[c].meta]
        OBVIOUS
    <2>1. class[c].meta \in CallerMaps /\ DOMAIN heap = Maps /\ class \in [Classes -> ClassCopy \cup {None}]
        BY DEF CatalogInv, Shape, ClassCopy
    <2>2. ASSUME NEW k \in Keys, NEW v \in Values, EndEdit(k, v)
          PROVE  class' = class /\ heap'[class[c].meta] = heap[class[c].meta]
        <3>1. editing # class[c].meta
            BY <2>2 DEF EndEdit, CatalogInv, NoSharedEdit, Shared
        <3> QED
            BY <2>1, <2>2, <3>1 DEF EndEdit, Maps
    <2>3. ASSUME NEW r \in Requests, EndWithPublic(r)
          PROVE  class' = class /\ heap'[class[c].meta] = heap[class[c].meta]
        BY <2>1, <2>3, DistinctMaps DEF EndWithPublic, putTarget, Maps
    <2>4. ASSUME NEW d \in Classes, Define(d)
          PROVE  class'[c] = class[c] /\ heap' = heap
        BY <2>1, <2>4 DEF Define
    <2> QED
        BY <2>2, <2>3, <2>4 DEF Next, Application, Request, BeginEdit, Reassign, New, Public,
           BeginWithPublic, BeginRender, CopyStatic, CopyOwn
<1> QED
    BY <1>1, CatalogInvHolds, PTL DEF Spec, ClassFrozen

-----------------------------------------------------------------------------
(* The heap of maps implements the errors that are values *)

\* Maps hold metadata, and a render under way has copied what the error shows.
CopyInv ==
    /\ heap \in [Maps -> Metadata]
    /\ DOMAIN out = Requests /\ body = [r \in Requests |-> body[r]]
    /\ \A r \in Requests :
         /\ pc[r] = "writing" => pending[r].key \in Keys /\ pending[r].val \in Values
         /\ pc[r] = "copying static" => out[r] = Empty
         /\ pc[r] = "copying own" => out[r] = heap[inst[r].meta]

\* One more entry keeps metadata metadata.
LEMMA PutIsMetadata ==
    ASSUME NEW m \in Metadata, NEW k \in Keys, NEW v \in Values
    PROVE  Put(m, k, v) \in Metadata
<1>1. PICK ks \in SUBSET Keys : m \in [ks -> Values]
    BY DEF Metadata
<1>2. Put(m, k, v) \in [ks \cup {k} -> Values]
    BY <1>1 DEF Put
<1> QED
    BY <1>2 DEF Metadata

\* A copy into a fresh map is the map, also when there is nothing to copy.
LEMMA CopyIsEqual ==
    ASSUME NEW m \in Metadata
    PROVE  Overlay(Empty, m) = m /\ Empty \in Metadata
<1>1. PICK ks \in SUBSET Keys : m \in [ks -> Values]
    BY DEF Metadata
<1>2. Overlay(Empty, m) = m
    BY <1>1 DEF Overlay, Empty
<1>3. Empty \in [{} -> Values]
    BY DEF Empty
<1> QED
    BY <1>2, <1>3 DEF Metadata

\* A map that a class or an error refers to is not touched by any step.
LEMMA ReferredStay ==
    ASSUME CatalogInv, CopyInv, [Next]_vars
    PROVE  /\ \A c \in Classes : class[c] # None => heap'[class[c].meta] = heap[class[c].meta]
           /\ \A r \in Requests : inst[r] # None => heap'[inst[r].meta] = heap[inst[r].meta]
<1>1. /\ \A c \in Classes : class[c] # None => class[c].meta \in CallerMaps
      /\ \A r \in Requests : inst[r] # None => inst[r].meta \in CallerMaps
    BY DEF CatalogInv, Shape, ClassCopy, Instance
<1>2. CASE \E k \in Keys, v \in Values : EndEdit(k, v)
    <2>1. \A m \in Maps : m # editing => heap'[m] = heap[m]
        BY <1>2 DEF EndEdit, CatalogInv, Shape
    <2>2. editing # None
        BY <1>2 DEF EndEdit
    <2> QED
        BY <1>1, <2>1, <2>2 DEF CatalogInv, NoSharedEdit, Shared, Maps
<1>3. CASE \E r \in Requests : EndWithPublic(r)
    <2>1. PICK r \in Requests : EndWithPublic(r)
        BY <1>3
    <2>2. \A m \in CallerMaps : m # r /\ heap'[m] = heap[m]
        BY <2>1, DistinctMaps DEF EndWithPublic, putTarget, CopyInv, Maps
    <2>3. class' = class /\ inst' = inst
        BY <2>1 DEF EndWithPublic
    <2> QED
        BY <1>1, <2>2, <2>3
<1>4. CASE heap' = heap
    BY <1>4
<1> QED
    BY <1>2, <1>3, <1>4 DEF Next, vars, Application, Request, BeginEdit, Reassign, Define, New, Public,
       BeginWithPublic, BeginRender, CopyStatic, CopyOwn

\* Every step keeps the copies of the renders under way.
LEMMA StepKeepsCopyInv ==
    ASSUME CatalogInv, CopyInv, [Next]_vars PROVE CopyInv'
<1>1. heap' \in [Maps -> Metadata]
    <2>1. ASSUME NEW k \in Keys, NEW v \in Values, EndEdit(k, v) PROVE heap' \in [Maps -> Metadata]
        <3>1. editing \in Maps
            BY <2>1 DEF EndEdit, CatalogInv, Shape, Maps
        <3>2. Put(heap[editing], k, v) \in Metadata
            BY <3>1, PutIsMetadata DEF CopyInv
        <3> QED
            BY <2>1, <3>1, <3>2 DEF EndEdit, CopyInv
    <2>2. ASSUME NEW r \in Requests, EndWithPublic(r) PROVE heap' \in [Maps -> Metadata]
        <3>1. r \in Maps
            BY DEF Maps
        <3>2. Put(heap[r], pending[r].key, pending[r].val) \in Metadata
            BY <2>2, <3>1, PutIsMetadata DEF EndWithPublic, CopyInv
        <3> QED
            BY <2>2, <3>1, <3>2 DEF EndWithPublic, putTarget, CopyInv
    <2>3. CASE heap' = heap
        BY <2>3 DEF CopyInv
    <2> QED
        BY <2>1, <2>2, <2>3 DEF Next, vars, Application, Request, BeginEdit, Reassign, Define, New, Public,
           BeginWithPublic, BeginRender, CopyStatic, CopyOwn
<1>2. ASSUME NEW r \in Requests, Request(r) PROVE CopyInv'
    <2> USE DEF CopyInv
    <2>1. ASSUME NEW c \in Classes, New(r, c) PROVE CopyInv'
        BY <1>1, <2>1 DEF New, CatalogInv, Shape
    <2>2. ASSUME NEW m \in CallerMaps, Public(r, m) PROVE CopyInv'
        BY <1>1, <2>2 DEF Public, CatalogInv, Shape
    <2>3. ASSUME NEW k \in Keys, NEW v \in Values, BeginWithPublic(r, k, v) PROVE CopyInv'
        <3>1. \A q \in Requests \ {r} : inst'[q] = inst[q] /\ pc'[q] = pc[q] /\ pending'[q] = pending[q]
            BY <2>3 DEF BeginWithPublic, CatalogInv, Shape
        <3>2. /\ pc'[r] = "writing" /\ pending'[r].key = k /\ pending'[r].val = v
              /\ UNCHANGED <<heap, out, body>>
            BY <2>3 DEF BeginWithPublic, CatalogInv, Shape
        <3>3. ASSUME NEW q \in Requests
              PROVE  /\ pc'[q] = "writing" => pending'[q].key \in Keys /\ pending'[q].val \in Values
                     /\ pc'[q] = "copying static" => out'[q] = Empty
                     /\ pc'[q] = "copying own" => out'[q] = heap'[inst'[q].meta]
            <4>1. CASE q = r
                BY <3>2, <4>1
            <4>2. CASE q # r
                BY <3>1, <3>2, <4>2
            <4> QED
                BY <4>1, <4>2
        <3>4. DOMAIN out' = Requests /\ body' = [q \in Requests |-> body'[q]]
            BY <3>2
        <3> QED
            BY <1>1, <3>3, <3>4
    <2>4. CASE EndWithPublic(r)
        <3>1. \A q \in Requests \ {r} : pc'[q] = pc[q] /\ pending'[q] = pending[q]
            BY <2>4 DEF EndWithPublic, CatalogInv, Shape
        <3>2. pc'[r] = "building" /\ UNCHANGED <<inst, out, body>>
            BY <2>4 DEF EndWithPublic, CatalogInv, Shape
        <3>3. \A q \in Requests : pc[q] = "copying own" => heap'[inst[q].meta] = heap[inst[q].meta]
            BY <1>2, ReferredStay DEF Next, CatalogInv, Started
        <3>4. ASSUME NEW q \in Requests
              PROVE  /\ pc'[q] = "writing" => pending'[q].key \in Keys /\ pending'[q].val \in Values
                     /\ pc'[q] = "copying static" => out'[q] = Empty
                     /\ pc'[q] = "copying own" => out'[q] = heap'[inst'[q].meta]
            <4>1. CASE q = r
                BY <3>2, <4>1
            <4>2. CASE q # r
                BY <3>1, <3>2, <3>3, <4>2
            <4> QED
                BY <4>1, <4>2
        <3>5. DOMAIN out' = Requests /\ body' = [q \in Requests |-> body'[q]]
            BY <3>2
        <3> QED
            BY <1>1, <3>4, <3>5
    <2>5. CASE BeginRender(r)
        BY <1>1, <2>5 DEF BeginRender, CatalogInv, Shape
    <2>6. CASE CopyStatic(r)
        <3>1. heap[inst[r].meta] \in Metadata
            BY <2>6 DEF CopyStatic, CatalogInv, Shape, Started, Instance, Maps
        <3>2. out'[r] = heap[inst[r].meta]
            BY <2>6, <3>1, CopyIsEqual DEF CopyStatic
        <3> QED
            BY <1>1, <2>6, <3>2 DEF CopyStatic, CatalogInv, Shape
    <2>7. CASE CopyOwn(r)
        BY <1>1, <2>7 DEF CopyOwn, CatalogInv, Shape
    <2> QED
        BY <1>2, <2>1, <2>2, <2>3, <2>4, <2>5, <2>6, <2>7 DEF Request
<1>3. CASE Application \/ UNCHANGED vars
    <2>1. UNCHANGED <<inst, pc, pending, out, body>>
        BY <1>3 DEF Application, BeginEdit, EndEdit, Reassign, Define, vars
    <2>2. \A q \in Requests : pc[q] = "copying own" => heap'[inst[q].meta] = heap[inst[q].meta]
        BY ReferredStay DEF CatalogInv, Started
    <2> QED
        BY <1>1, <2>1, <2>2 DEF CopyInv
<1> QED
    BY <1>2, <1>3 DEF Next

\* A step that changes nothing an error or a class shows changes no value.
LEMMA Stutters ==
    ASSUME class' = class, body' = body,
           \A c \in Classes : class[c] # None => heap'[class[c].meta] = heap[class[c].meta],
           \A r \in Requests : /\ heap'[r] = heap[r]
                               /\ inst'[r] = None <=> inst[r] = None
                               /\ inst[r] # None => Surface(inst[r])' = Surface(inst[r])
    PROVE  UNCHANGED Isolated!avars
BY DEF Isolated!avars, Surface

\* What an error or a class shows is a value, and not None.
LEMMA SurfacesAreValues ==
    ASSUME CatalogInv, CopyInv
    PROVE  /\ \A c \in Classes : class[c] # None =>
                Surface(class[c]) \in [scalar : Scalars, metadata : Metadata] /\ Surface(class[c]) # None
           /\ \A r \in Requests : inst[r] # None =>
                Surface(inst[r]) \in [scalar : Scalars, metadata : Metadata] /\ Surface(inst[r]) # None
           /\ literal # None
           /\ Surface(literal) \in [scalar : Scalars, metadata : Metadata] /\ Surface(literal) # None
<1>1. ASSUME NEW e, e.scalar \in Scalars, e.meta \in CallerMaps
      PROVE  Surface(e) \in [scalar : Scalars, metadata : Metadata] /\ Surface(e) # None
    <2>1. heap[e.meta] \in Metadata
        BY <1>1 DEF CopyInv, Maps
    <2>2. Surface(e) \in [scalar : Scalars, metadata : Metadata]
        BY <1>1, <2>1 DEF Surface
    <2> QED
        BY <2>2, NoneAssumption
<1>2. ASSUME NEW c \in Classes, class[c] # None PROVE class[c].scalar \in Scalars /\ class[c].meta \in CallerMaps
    BY <1>2 DEF CatalogInv, Shape, ClassCopy
<1>3. ASSUME NEW r \in Requests, inst[r] # None PROVE inst[r].scalar \in Scalars /\ inst[r].meta \in CallerMaps
    BY <1>3 DEF CatalogInv, Shape, Instance
<1>4. literal \in ClassCopy /\ literal.scalar \in Scalars /\ literal.meta \in CallerMaps
    BY DEF CatalogInv, Shape, ClassCopy
<1>5. literal # None
    BY <1>4, NoneAssumption
<1> HIDE DEF Surface
<1> QED
    BY <1>1, <1>2, <1>3, <1>4, <1>5

\* The application's own steps show in no error and no class, until it defines one.
LEMMA ApplicationRefines ==
    ASSUME CatalogInv, CopyInv, [Next]_vars, Application
    PROVE  [Isolated!Next]_Isolated!avars
<1>1. /\ \A c \in Classes : class[c] # None => heap'[class[c].meta] = heap[class[c].meta]
      /\ \A r \in Requests : inst[r] # None => heap'[inst[r].meta] = heap[inst[r].meta]
    BY ReferredStay
<1>2. UNCHANGED <<inst, body>>
    BY DEF Application, BeginEdit, EndEdit, Reassign, Define
<1>3. \A r \in Requests : heap'[r] = heap[r]
    <2>1. ASSUME NEW k \in Keys, NEW v \in Values, EndEdit(k, v), NEW r \in Requests
          PROVE  heap'[r] = heap[r]
        <3>1. editing \in CallerMaps /\ editing # r
            BY <2>1, DistinctMaps DEF EndEdit, CatalogInv, Shape
        <3> QED
            BY <2>1, <3>1 DEF EndEdit, CopyInv, Maps
    <2> QED
        BY <2>1 DEF Application, BeginEdit, Reassign, Define
<1>4. \A r \in Requests : inst[r] # None => Surface(inst[r])' = Surface(inst[r])
    BY <1>1, <1>2 DEF Surface
<1>5. CASE class' = class
    BY <1>1, <1>2, <1>3, <1>4, <1>5, Stutters
<1>6. ASSUME NEW c \in Classes, Define(c) PROVE Isolated!Next
    <2>1. /\ class[c] = None /\ class' = [class EXCEPT ![c] = literal]
          /\ UNCHANGED <<heap, inst, body>>
        BY <1>6 DEF Define
    <2>2. Isolated!Define(c)
        <3>1. Surface(literal) \in Isolated!Surface /\ literal # None
            BY SurfacesAreValues DEF Isolated!Surface, Isolated!Metadata, Metadata
        <3>2. [d \in Classes |-> IF class'[d] = None THEN None ELSE Surface(class'[d])]
              = [[d \in Classes |-> IF class[d] = None THEN None ELSE Surface(class[d])]
                   EXCEPT ![c] = Surface(literal)]
            BY <2>1, <3>1 DEF CatalogInv, Shape
        <3> QED
            BY <2>1, <3>1, <3>2 DEF Isolated!Define, Surface
    <2> QED
        BY <2>2 DEF Isolated!Next
<1> QED
    BY <1>5, <1>6 DEF Application, BeginEdit, EndEdit, Reassign

\* A step of a request is a step of its error, or copies for one.
LEMMA RequestRefines ==
    ASSUME CatalogInv, CopyInv, [Next]_vars, NEW r \in Requests, Request(r)
    PROVE  [Isolated!Next]_Isolated!avars
<1> DEFINE base == [q \in Requests |-> IF inst[q] = None THEN None ELSE Surface(inst[q])]
           mine == [q \in Requests |-> heap[q]]
<1>1. /\ pc[r] # "idle" => inst[r] # None /\ base[r] = Surface(inst[r]) /\ base[r] # None
      /\ pc[r] = "idle" => inst[r] = None /\ base[r] = None
    BY SurfacesAreValues DEF CatalogInv, Started
<1>2. \A q \in Requests : heap[q] \in Metadata
    BY DEF CopyInv, Maps
<1>3. ASSUME NEW c \in Classes, New(r, c) PROVE Isolated!New(r, c)
    <2> DEFINE e == [scalar |-> class[c].scalar, meta |-> class[c].meta, own |-> FALSE]
    <2>1. class[c] # None /\ Surface(class[c]) # None /\ pc[r] = "idle"
        BY <1>3, SurfacesAreValues DEF New
    <2>2. e # None /\ Surface(e) = Surface(class[c])
        <3>1. class[c].scalar \in Scalars /\ class[c].meta \in CallerMaps
            BY <2>1 DEF CatalogInv, Shape, ClassCopy
        <3>2. e \in Instance
            BY <3>1 DEF Instance
        <3> QED
            BY <3>2, NoneAssumption DEF Surface
    <2>3. inst' = [inst EXCEPT ![r] = e] /\ UNCHANGED <<heap, class, body>>
        BY <1>3 DEF New
    <2> HIDE DEF e
    <2>4. [q \in Requests |-> IF inst'[q] = None THEN None ELSE Surface(inst'[q])]
            = [base EXCEPT ![r] = Surface(class[c])]
        BY <2>2, <2>3 DEF CatalogInv, Shape
    <2> QED
        BY <1>1, <2>1, <2>3, <2>4 DEF Isolated!New, Surface
<1>4. ASSUME NEW m \in CallerMaps, Public(r, m) PROVE Isolated!Public(r)
    <2> DEFINE e == [inst[r] EXCEPT !.meta = m]
    <2>1. inst[r] \in Instance /\ pc[r] = "building"
        BY <1>1, <1>4 DEF Public, CatalogInv, Shape
    <2>2. e # None /\ e.scalar = inst[r].scalar /\ e.meta = m
        <3>1. e \in Instance /\ e.scalar = inst[r].scalar /\ e.meta = m
            BY <2>1 DEF Instance
        <3> QED
            BY <3>1, NoneAssumption
    <2>3. inst' = [inst EXCEPT ![r] = e] /\ UNCHANGED <<heap, class, body>>
        BY <1>4 DEF Public
    <2> HIDE DEF e
    <2>4. base[r] = [scalar |-> inst[r].scalar, metadata |-> heap[inst[r].meta]]
        BY <1>1, <2>1 DEF Surface
    <2>5. Surface(e) = [base[r] EXCEPT !.metadata = heap[m]]
        BY <2>2, <2>4 DEF Surface
    <2>6. [q \in Requests |-> IF inst'[q] = None THEN None ELSE Surface(inst'[q])]
            = [base EXCEPT ![r] = [base[r] EXCEPT !.metadata = heap[m]]]
        BY <2>2, <2>3, <2>5 DEF CatalogInv, Shape
    <2>7. heap[m] \in Metadata /\ Isolated!Metadata = Metadata
        <3>1. m \in Maps
            BY DEF Maps
        <3> QED
            BY <3>1 DEF CopyInv, Metadata, Isolated!Metadata
    <2>8. [base EXCEPT ![r].metadata = heap[m]]
            = [base EXCEPT ![r] = [base[r] EXCEPT !.metadata = heap[m]]]
        OBVIOUS
    <2>9. UNCHANGED <<[c \in Classes |-> IF class[c] = None THEN None ELSE Surface(class[c])],
                      mine, body>>
        BY <2>3 DEF Surface
    <2>10. base' = [base EXCEPT ![r].metadata = heap[m]]
        <3>1. base' = [q \in Requests |-> IF inst'[q] = None THEN None ELSE Surface(inst'[q])]
            BY <2>3 DEF Surface
        <3> HIDE DEF base
        <3> QED
            BY <3>1, <2>6, <2>8
    <2>11. base[r] # None
        BY <1>1, <2>1
    <2> HIDE DEF base
    <2>12. \E w \in Metadata : base' = [base EXCEPT ![r].metadata = w]
        BY <2>7, <2>10
    <2> USE DEF base
    <2> QED
        BY <2>7, <2>9, <2>11, <2>12 DEF Isolated!Public
<1>5. ASSUME NEW k \in Keys, NEW v \in Values, BeginWithPublic(r, k, v)
      PROVE  UNCHANGED Isolated!avars
    <2> DEFINE e == [inst[r] EXCEPT !.own = TRUE]
    <2>1. inst[r] \in Instance
        BY <1>1, <1>5 DEF BeginWithPublic, CatalogInv, Shape
    <2>2. e # None /\ e.scalar = inst[r].scalar /\ e.meta = inst[r].meta
        <3>1. e \in Instance /\ e.scalar = inst[r].scalar /\ e.meta = inst[r].meta
            BY <2>1 DEF Instance
        <3> QED
            BY <3>1, NoneAssumption
    <2>3. inst' = [inst EXCEPT ![r] = e] /\ UNCHANGED <<heap, class, body>>
        BY <1>5 DEF BeginWithPublic
    <2> HIDE DEF e
    <2>4. ASSUME NEW q \in Requests
          PROVE  /\ inst'[q] = None <=> inst[q] = None
                 /\ inst[q] # None => Surface(inst[q])' = Surface(inst[q])
        BY <2>1, <2>2, <2>3, NoneAssumption DEF CatalogInv, Shape, Surface
    <2> QED
        BY <2>3, <2>4, Stutters
<1>6. CASE EndWithPublic(r)
    <2> DEFINE k == pending[r].key
               v == pending[r].val
    <2>1. k \in Keys /\ v \in Values /\ pc[r] = "writing"
        BY <1>6 DEF EndWithPublic, CopyInv
    <2>2. heap' = [heap EXCEPT ![r] = Put(heap[r], k, v)] /\ UNCHANGED <<class, inst, body>>
        BY <1>6 DEF EndWithPublic, putTarget
    <2> HIDE DEF k, v
    <2>3. [q \in Requests |-> heap'[q]] = [mine EXCEPT ![r] = Isolated!put(mine[r], k, v)]
        BY <2>2 DEF CopyInv, Maps, Put, Isolated!put
    <2>4. /\ \A c \in Classes : class[c] # None => heap'[class[c].meta] = heap[class[c].meta]
          /\ \A q \in Requests : inst[q] # None => heap'[inst[q].meta] = heap[inst[q].meta]
        BY ReferredStay
    <2>5. base' = base
        BY <2>2, <2>4 DEF Surface
    <2>6. [c \in Classes |-> IF class'[c] = None THEN None ELSE Surface(class[c])']
            = [c \in Classes |-> IF class[c] = None THEN None ELSE Surface(class[c])]
        BY <2>2, <2>4 DEF Surface
    <2>7. base[r] # None
        BY <1>1, <2>1
    <2>8. Isolated!Add(r)
        BY <2>1, <2>2, <2>3, <2>5, <2>6, <2>7 DEF Isolated!Add
    <2> QED
        BY <2>8 DEF Isolated!Next
<1>7. CASE (BeginRender(r) /\ body' = body) \/ CopyStatic(r)
    <2>1. UNCHANGED <<heap, class, inst, body>>
        BY <1>7 DEF BeginRender, CopyStatic
    <2> QED
        BY <2>1, Stutters DEF Surface
<1>8. ASSUME pc[r] # "idle", UNCHANGED <<heap, class, inst>>,
             body' = [body EXCEPT ![r] = [scalar |-> inst[r].scalar,
                                          metadata |-> Overlay(heap[inst[r].meta], heap[r])]]
      PROVE  Isolated!Render(r)
    <2>1. /\ base[r].scalar = inst[r].scalar /\ base[r].metadata = heap[inst[r].meta]
        BY <1>1, <1>8 DEF Surface
    <2>2. body' = [body EXCEPT ![r] = [scalar |-> base[r].scalar,
                                       metadata |-> Isolated!over(base[r].metadata, mine[r])]]
        BY <1>8, <2>1 DEF Overlay, Isolated!over
    <2> QED
        BY <1>1, <1>8, <2>2 DEF Isolated!Render, Surface
<1>9. CASE BeginRender(r) /\ body' # body
    <2>1. /\ heap[inst[r].meta] = Empty /\ heap[r] = Empty /\ pc[r] # "idle"
          /\ body' = [body EXCEPT ![r] = [scalar |-> inst[r].scalar, metadata |-> Empty]]
          /\ UNCHANGED <<heap, class, inst>>
        BY <1>9 DEF BeginRender
    <2>2. Overlay(Empty, Empty) = Empty
        BY CopyIsEqual DEF Overlay, Empty
    <2>3. Isolated!Render(r)
        BY <1>8, <2>1, <2>2
    <2> QED
        BY <2>3 DEF Isolated!Next
<1>10. CASE CopyOwn(r)
    <2>1. Isolated!Render(r)
        BY <1>8, <1>10 DEF CopyOwn, CopyInv
    <2> QED
        BY <2>1 DEF Isolated!Next
<1>11. ASSUME NEW c \in Classes, New(r, c) PROVE Isolated!Next
    BY <1>3, <1>11 DEF Isolated!Next
<1>12. ASSUME NEW m \in CallerMaps, Public(r, m) PROVE Isolated!Next
    BY <1>4, <1>12 DEF Isolated!Next
<1> QED
    BY <1>5, <1>6, <1>7, <1>9, <1>10, <1>11, <1>12 DEF Request

\* The catalog, whose errors and classes share their maps, implements errors and
\* classes that are values: what is rendered is what the error's own class,
\* its own calls of Public and its own additions make of it.
THEOREM CatalogImplementsValues ==
    ASSUME CallerReuses = FALSE
    PROVE  Spec => ImplementsIsolated
<1>1. Init => Isolated!Init
    BY DEF Init, Isolated!Init, Empty, Maps
<1>2. Init => CopyInv
    <2> SUFFICES ASSUME Init PROVE CopyInv
        OBVIOUS
    <2>1. Empty \in [{} -> Values]
        BY DEF Empty
    <2>2. Empty \in Metadata
        BY <2>1 DEF Metadata
    <2> QED
        BY <2>2 DEF Init, CopyInv
<1>3. CatalogInv /\ CopyInv /\ [Next]_vars => CopyInv'
    BY StepKeepsCopyInv
<1>4. CatalogInv /\ CopyInv /\ [Next]_vars => [Isolated!Next]_Isolated!avars
    <2> SUFFICES ASSUME CatalogInv, CopyInv, [Next]_vars PROVE [Isolated!Next]_Isolated!avars
        OBVIOUS
    <2>1. CASE UNCHANGED vars
        BY <2>1, Stutters DEF vars, Surface
    <2> QED
        BY <2>1, ApplicationRefines, RequestRefines DEF Next
<1> QED
    BY <1>1, <1>2, <1>3, <1>4, CatalogInvHolds, PTL DEF Spec, ImplementsIsolated, Isolated!Spec

-----------------------------------------------------------------------------
(* The types, whether or not the application edits what it has handed over *)

\* An error exists exactly when its request is past New, has been promised a
\* surface then, and has a map of its own before an entry is written to it.
Stage(r) ==
    /\ pc[r] = "idle" <=> inst[r] = None
    /\ pc[r] # "idle" => promised[r] \in [scalar : Scalars, metadata : Metadata]
    /\ pc[r] = "writing" => pending[r] \in [key : Keys, val : Values] /\ inst[r].own

TypesInv == TypeOK /\ \A r \in Requests : Stage(r)

\* A copy of two maps of metadata is one.
LEMMA OverlayIsMetadata ==
    ASSUME NEW m \in Metadata, NEW n \in Metadata
    PROVE  Overlay(m, n) \in Metadata
<1>1. PICK ks \in SUBSET Keys : m \in [ks -> Values]
    BY DEF Metadata
<1>2. PICK ls \in SUBSET Keys : n \in [ls -> Values]
    BY DEF Metadata
<1>3. Overlay(m, n) \in [ks \cup ls -> Values]
    BY <1>1, <1>2 DEF Overlay
<1> QED
    BY <1>3 DEF Metadata

\* An empty map is one of metadata.
LEMMA EmptyIsMetadata == Empty \in Metadata
<1>1. Empty \in [{} -> Values]
    BY DEF Empty
<1> QED
    BY <1>1 DEF Metadata

\* What a reference of a class or an error reads is a surface.
LEMMA SurfaceIsTyped ==
    ASSUME heap \in [Maps -> Metadata], NEW e \in ClassCopy \cup Instance
    PROVE  Surface(e) \in [scalar : Scalars, metadata : Metadata]
<1>1. e.meta \in Maps /\ e.scalar \in Scalars
    BY DEF ClassCopy, Instance, Maps
<1> QED
    BY <1>1 DEF Surface

\* What New stamps out is an instance, and no instance is None.
LEMMA StampIsInstance ==
    ASSUME NEW k \in ClassCopy
    PROVE  [scalar |-> k.scalar, meta |-> k.meta, own |-> FALSE] \in Instance
BY DEF ClassCopy, Instance

\* An instance stays one when it is given another map, or a map of its own.
LEMMA InstanceUpdates ==
    ASSUME NEW e \in Instance, NEW m \in CallerMaps
    PROVE  /\ [e EXCEPT !.meta = m] \in Instance /\ [e EXCEPT !.meta = m].own = e.own
           /\ [e EXCEPT !.own = TRUE] \in Instance /\ [e EXCEPT !.own = TRUE].own
BY DEF Instance

\* The steps of the application, which leave every request where it is.
LEMMA ApplicationKeepsTypes ==
    ASSUME TypesInv, Application PROVE TypesInv'
<1> USE DEF TypesInv, TypeOK
<1>1. ASSUME NEW m \in CallerMaps, BeginEdit(m) PROVE TypesInv'
    BY <1>1 DEF BeginEdit, Stage
<1>2. ASSUME NEW k \in Keys, NEW v \in Values, EndEdit(k, v) PROVE TypesInv'
    <2>1. /\ editing \in CallerMaps /\ editing \in Maps
          /\ heap' = [heap EXCEPT ![editing] = Put(heap[editing], k, v)] /\ editing' = None
          /\ UNCHANGED <<literal, class, inst, pc, pending, out, body, promised, added>>
        BY <1>2 DEF EndEdit, Maps
    <2>2. Put(heap[editing], k, v) \in Metadata
        BY <2>1, PutIsMetadata
    <2>3. heap' \in [Maps -> Metadata]
        BY <2>1, <2>2
    <2>4. \A r \in Requests : heap'[r] = heap[r]
        BY <2>1, DistinctMaps DEF Maps
    <2> QED
        BY <2>1, <2>3, <2>4 DEF Stage
<1>3. ASSUME NEW s \in Scalars, NEW m \in CallerMaps, Reassign(s, m) PROVE TypesInv'
    BY <1>3 DEF Reassign, Stage, ClassCopy
<1>4. ASSUME NEW c \in Classes, Define(c) PROVE TypesInv'
    BY <1>4 DEF Define, Stage
<1> QED
    BY <1>1, <1>2, <1>3, <1>4 DEF Application

\* The steps of a request.
LEMMA RequestKeepsTypes ==
    ASSUME TypesInv, NEW r \in Requests, Request(r) PROVE TypesInv'
<1> USE DEF TypesInv, TypeOK
<1>1. /\ r \in Maps /\ heap[r] \in Metadata /\ Stage(r)
      /\ inst[r] # None => inst[r] \in Instance /\ inst[r].meta \in Maps
    BY DEF Maps, Instance
<1>2. ASSUME NEW c \in Classes, New(r, c) PROVE TypesInv'
    <2> DEFINE e == [scalar |-> class[c].scalar, meta |-> class[c].meta, own |-> FALSE]
               p == Surface(class[c])
    <2>1. /\ pc[r] = "idle" /\ class[c] \in ClassCopy
          /\ inst' = [inst EXCEPT ![r] = e] /\ pc' = [pc EXCEPT ![r] = "building"]
          /\ promised' = [promised EXCEPT ![r] = p]
          /\ UNCHANGED <<heap, literal, class, pending, out, body, editing, added>>
        BY <1>2 DEF New
    <2>2. e \in Instance /\ e # None
        BY <2>1, StampIsInstance, NoneAssumption
    <2>3. p \in [scalar : Scalars, metadata : Metadata]
        BY <2>1, SurfaceIsTyped
    <2>4. heap[r] = Empty
        BY <1>1, <2>1 DEF Stage
    <2> HIDE DEF e, p
    <2>5. inst'[r] = e /\ pc'[r] = "building" /\ promised'[r] = p
        BY <2>1
    <2>6. \A q \in Requests \ {r} : inst'[q] = inst[q] /\ pc'[q] = pc[q] /\ promised'[q] = promised[q]
        BY <2>1
    <2>7. \A q \in Requests : Stage(q)'
        BY <2>1, <2>2, <2>3, <2>5, <2>6 DEF Stage
    <2>8. \A q \in Requests : heap'[q] # Empty => inst'[q] # None /\ inst'[q].own
        BY <2>1, <2>4, <2>6
    <2> QED
        BY <2>1, <2>2, <2>3, <2>7, <2>8
<1>3. ASSUME NEW m \in CallerMaps, Public(r, m) PROVE TypesInv'
    <2>1. /\ pc[r] = "building" /\ m \in Maps
          /\ inst' = [inst EXCEPT ![r].meta = m]
          /\ promised' = [promised EXCEPT ![r].metadata = heap[m]]
          /\ UNCHANGED <<heap, literal, class, pc, pending, out, body, editing, added>>
        BY <1>3 DEF Public, Maps
    <2>2. inst[r] \in Instance /\ promised[r] \in [scalar : Scalars, metadata : Metadata]
        BY <1>1, <2>1 DEF Stage
    <2>3. inst'[r] \in Instance /\ inst'[r].own = inst[r].own /\ inst'[r] # None
        <3> DEFINE e == [inst[r] EXCEPT !.meta = m]
        <3>1. inst'[r] = e
            BY <2>1
        <3>2. e \in Instance /\ e.own = inst[r].own
            BY <2>2, InstanceUpdates
        <3> HIDE DEF e
        <3> QED
            BY <3>1, <3>2, NoneAssumption
    <2>4. promised'[r] \in [scalar : Scalars, metadata : Metadata]
        <3>1. promised'[r] = [promised[r] EXCEPT !.metadata = heap[m]]
            BY <2>1
        <3>2. heap[m] \in Metadata
            BY <2>1
        <3> QED
            BY <2>2, <3>1, <3>2
    <2>5. \A q \in Requests \ {r} : inst'[q] = inst[q] /\ promised'[q] = promised[q]
        BY <2>1
    <2>6. inst' \in [Requests -> Instance \cup {None}]
        BY <2>1, <2>3, <2>5
    <2>7. promised' \in [Requests -> [scalar : Scalars, metadata : Metadata] \cup {None}]
        BY <2>1, <2>4, <2>5
    <2>8. \A q \in Requests : Stage(q)'
        BY <2>1, <2>3, <2>4, <2>5 DEF Stage
    <2>9. \A q \in Requests : heap'[q] # Empty => inst'[q] # None /\ inst'[q].own
        BY <2>1, <2>3, <2>5
    <2> QED
        BY <2>1, <2>6, <2>7, <2>8, <2>9
<1>4. ASSUME NEW k \in Keys, NEW v \in Values, BeginWithPublic(r, k, v) PROVE TypesInv'
    <2> DEFINE entry == [key |-> k, val |-> v]
    <2>1. /\ pc[r] = "building" /\ inst' = [inst EXCEPT ![r].own = TRUE]
          /\ pending' = [pending EXCEPT ![r] = entry] /\ pc' = [pc EXCEPT ![r] = "writing"]
          /\ added' = [added EXCEPT ![r] = Put(added[r], k, v)]
          /\ UNCHANGED <<heap, literal, class, out, body, editing, promised>>
        BY <1>4 DEF BeginWithPublic
    <2>2. inst[r] \in Instance
        BY <1>1, <2>1 DEF Stage
    <2>3. inst'[r] \in Instance /\ inst'[r].own /\ inst'[r] # None
        <3>1. inst'[r] = [inst[r] EXCEPT !.own = TRUE]
            BY <2>1
        <3>2. CallerMaps # {}
            BY <2>2 DEF Instance
        <3>3. [inst[r] EXCEPT !.own = TRUE] \in Instance /\ [inst[r] EXCEPT !.own = TRUE].own
            BY <2>2, <3>2, InstanceUpdates
        <3> QED
            BY <3>1, <3>3, NoneAssumption
    <2>4. entry \in [key : Keys, val : Values]
        OBVIOUS
    <2>5. Put(added[r], k, v) \in Metadata
        BY PutIsMetadata
    <2> HIDE DEF entry
    <2>6. \A q \in Requests \ {r} : inst'[q] = inst[q] /\ pc'[q] = pc[q] /\ pending'[q] = pending[q]
        BY <2>1
    <2>7. inst' \in [Requests -> Instance \cup {None}]
        BY <2>1, <2>3, <2>6
    <2>8. \A q \in Requests : Stage(q)'
        <3>1. inst'[r] # None /\ inst'[r].own /\ pc'[r] = "writing" /\ pending'[r] = entry
            BY <2>1, <2>3
        <3>2. promised'[r] \in [scalar : Scalars, metadata : Metadata]
            BY <1>1, <2>1 DEF Stage
        <3>3. Stage(r)'
            BY <2>4, <3>1, <3>2 DEF Stage
        <3>4. ASSUME NEW q \in Requests \ {r} PROVE Stage(q)'
            BY <2>1, <2>6 DEF Stage
        <3> QED
            BY <3>3, <3>4
    <2>9. \A q \in Requests : heap'[q] # Empty => inst'[q] # None /\ inst'[q].own
        BY <2>1, <2>3, <2>6
    <2> QED
        BY <2>1, <2>4, <2>5, <2>7, <2>8, <2>9
<1>5. CASE EndWithPublic(r)
    <2>1. /\ pc[r] = "writing"
          /\ heap' = [heap EXCEPT ![r] = Put(heap[r], pending[r].key, pending[r].val)]
          /\ pending' = [pending EXCEPT ![r] = None] /\ pc' = [pc EXCEPT ![r] = "building"]
          /\ UNCHANGED <<literal, class, inst, out, body, editing, promised, added>>
        BY <1>5 DEF EndWithPublic, putTarget
    <2>2. pending[r] \in [key : Keys, val : Values] /\ inst[r] # None /\ inst[r].own
        BY <1>1, <2>1 DEF Stage
    <2>3. Put(heap[r], pending[r].key, pending[r].val) \in Metadata
        <3>1. pending[r].key \in Keys /\ pending[r].val \in Values
            BY <2>2
        <3> QED
            BY <1>1, <3>1, PutIsMetadata
    <2>4. heap' \in [Maps -> Metadata]
        <3> DEFINE written == Put(heap[r], pending[r].key, pending[r].val)
        <3>1. heap' = [heap EXCEPT ![r] = written] /\ written \in Metadata
            BY <2>1, <2>3
        <3> HIDE DEF written
        <3> QED
            BY <1>1, <3>1
    <2>5. \A q \in Requests \ {r} : heap'[q] = heap[q] /\ pc'[q] = pc[q] /\ pending'[q] = pending[q]
        BY <2>1 DEF Maps
    <2>6. \A q \in Requests : Stage(q)'
        <3>1. inst'[r] # None /\ pc'[r] = "building"
            BY <2>1, <2>2
        <3>2. promised'[r] \in [scalar : Scalars, metadata : Metadata]
            BY <1>1, <2>1 DEF Stage
        <3>3. Stage(r)'
            BY <3>1, <3>2 DEF Stage
        <3>4. ASSUME NEW q \in Requests \ {r} PROVE Stage(q)'
            BY <2>1, <2>5 DEF Stage
        <3> QED
            BY <3>3, <3>4
    <2>7. \A q \in Requests : heap'[q] # Empty => inst'[q] # None /\ inst'[q].own
        BY <2>1, <2>2, <2>5
    <2> QED
        BY <2>1, <2>4, <2>6, <2>7
<1>6. CASE BeginRender(r)
    <2>1. /\ pc[r] = "building" /\ out' = [out EXCEPT ![r] = Empty]
          /\ \/ /\ body' = [body EXCEPT ![r] = [scalar |-> inst[r].scalar, metadata |-> Empty]]
                /\ pc' = pc
             \/ pc' = [pc EXCEPT ![r] = "copying static"] /\ body' = body
          /\ UNCHANGED <<heap, literal, class, inst, pending, editing, promised, added>>
        BY <1>6 DEF BeginRender
    <2>2. inst[r] \in Instance
        BY <1>1, <2>1 DEF Stage
    <2>3. [scalar |-> inst[r].scalar, metadata |-> Empty] \in [scalar : Scalars, metadata : Metadata]
        BY <2>2, EmptyIsMetadata DEF Instance
    <2>4. body' \in [Requests -> [scalar : Scalars, metadata : Metadata] \cup {None}]
        BY <2>1, <2>3
    <2>5. \A q \in Requests : Stage(q)'
        BY <1>1, <2>1 DEF Stage
    <2> QED
        BY <2>1, <2>4, <2>5, EmptyIsMetadata
<1>7. CASE CopyStatic(r)
    <2>1. /\ pc[r] = "copying static"
          /\ out' = [out EXCEPT ![r] = Overlay(out[r], heap[inst[r].meta])]
          /\ pc' = [pc EXCEPT ![r] = "copying own"]
          /\ UNCHANGED <<heap, literal, class, inst, pending, body, editing, promised, added>>
        BY <1>7 DEF CopyStatic
    <2>2. inst[r].meta \in Maps
        BY <1>1, <2>1 DEF Stage
    <2>3. Overlay(out[r], heap[inst[r].meta]) \in Metadata
        BY <2>2, OverlayIsMetadata
    <2>4. \A q \in Requests : Stage(q)'
        BY <1>1, <2>1 DEF Stage
    <2> QED
        BY <2>1, <2>3, <2>4
<1>8. CASE CopyOwn(r)
    <2> DEFINE b == [scalar |-> inst[r].scalar, metadata |-> Overlay(out[r], heap[r])]
    <2>1. /\ pc[r] = "copying own" /\ out' = [out EXCEPT ![r] = Empty]
          /\ body' = [body EXCEPT ![r] = b] /\ pc' = [pc EXCEPT ![r] = "building"]
          /\ UNCHANGED <<heap, literal, class, inst, pending, editing, promised, added>>
        BY <1>8 DEF CopyOwn
    <2>2. inst[r] \in Instance
        BY <1>1, <2>1 DEF Stage
    <2>3. Overlay(out[r], heap[r]) \in Metadata
        BY <1>1, OverlayIsMetadata
    <2>4. b \in [scalar : Scalars, metadata : Metadata]
        BY <2>2, <2>3 DEF Instance
    <2> HIDE DEF b
    <2>5. \A q \in Requests : Stage(q)'
        BY <1>1, <2>1 DEF Stage
    <2> QED
        BY <2>1, <2>4, <2>5, EmptyIsMetadata
<1> QED
    BY <1>2, <1>3, <1>4, <1>5, <1>6, <1>7, <1>8 DEF Request

\* Every reference is to a map of its own side, and what is in a map is metadata,
\* whether or not the application edits a map that it has handed over.
THEOREM TypeCorrect == Spec => []TypeOK
<1>1. Init => TypesInv
    <2> SUFFICES ASSUME Init PROVE TypesInv
        OBVIOUS
    <2>1. \A r \in Requests : heap[r] = Empty
        BY DEF Init, Maps
    <2>2. heap \in [Maps -> Metadata] /\ out \in [Requests -> Metadata]
          /\ added \in [Requests -> Metadata]
        BY EmptyIsMetadata DEF Init
    <2>3. \A r \in Requests : Stage(r)
        BY DEF Init, Stage
    <2> QED
        BY <2>1, <2>2, <2>3 DEF Init, TypesInv, TypeOK
<1>2. TypesInv /\ [Next]_vars => TypesInv'
    <2> SUFFICES ASSUME TypesInv, [Next]_vars PROVE TypesInv'
        OBVIOUS
    <2>1. CASE UNCHANGED vars
        BY <2>1 DEF vars, TypesInv, TypeOK, Stage
    <2> QED
        BY <2>1, ApplicationKeepsTypes, RequestKeepsTypes DEF Next
<1>3. TypesInv => TypeOK
    BY DEF TypesInv
<1> QED
    BY <1>1, <1>2, <1>3, PTL DEF Spec
=============================================================================
