-------------------------- MODULE HttpServerProofs --------------------------
(* What holds of HttpServer for any number of Middlewares, any errors, and  *)
(* a handler that does any number of things.                               *)
EXTENDS HttpServer, SequenceTheorems, TLAPS

Labels == {"set headers", "write header", "write body"}

-----------------------------------------------------------------------------
(* Types *)

\* What net/http commits is a whole response head, and then it is committed.
LEMMA CommitsHeads ==
    ASSUME TypeOK, NEW status \in Int
    PROVE  /\ afterWriteHeader(status) = None \/ afterWriteHeader(status) \in Commit
           /\ ~Informational(status) => afterWriteHeader(status) # None
           /\ ~Informational(status) /\ sent = None =>
                /\ afterWriteHeader(status).status = status
                /\ afterWriteHeader(status).contentType = header.contentType
           /\ sent # None => afterWriteHeader(status) = sent
<1> DEFINE head == [status |-> status, contentType |-> header.contentType,
                    retryAfter |-> header.retryAfter]
<1>1. head \in Commit
    <2>1. header.contentType \in {None, json} /\ header.retryAfter \in Nat
        BY DEF TypeOK
    <2> QED
        BY <2>1 DEF Commit
<1>2. None \notin Commit
    BY NoneAssumption DEF Commit
<1>3. sent = None \/ sent \in Commit
    BY DEF TypeOK
<1>4. head.status = status /\ head.contentType = header.contentType
    OBVIOUS
<1>5. afterWriteHeader(status) = IF sent # None \/ Informational(status) THEN sent ELSE head
    BY DEF afterWriteHeader
<1> HIDE DEF head
<1> QED
    BY <1>1, <1>2, <1>3, <1>4, <1>5

\* 200 and 500 are final.
LEMMA FinalStatuses == ~Informational(200) /\ ~Informational(500)
BY DEF Informational

\* A response that is not committed yet is committed with status 200 by a write.
LEMMA Commits200 ==
    ASSUME TypeOK
    PROVE  /\ implicitly200 \in Commit /\ implicitly200 # None
           /\ sent # None => implicitly200 = sent
BY FinalStatuses, CommitsHeads DEF implicitly200

\* The two errors the package makes itself can be rendered.
LEMMA SafeErrors ==
    /\ internal \in ErrorShape /\ panicked \in ErrorShape
    /\ internal # None /\ panicked # None
<1>1. internal \in ErrorShape
    BY CodesAssumption DEF internal, ErrorShape
<1>2. panicked \in ErrorShape
    BY CodesAssumption DEF panicked, ErrorShape
<1> QED
    BY <1>1, <1>2, NoneAssumption

\* The error that Write renders has a status and a code.
LEMMA Rendering ==
    ASSUME TypeOK, pc \in Labels
    PROVE  he \in ErrorShape /\ he # None /\ he.status \in Int /\ he.code \in Codes /\ he.secs \in Nat
<1>1. he \in ErrorShape /\ he # None
    BY DEF TypeOK, Labels
<1> QED
    BY <1>1 DEF ErrorShape

\* Most steps leave most of the exchange alone.
LEMMA Untouched ==
    ASSUME TypeOK
    PROVE  /\ layer' = layer => layer' \in 0..Layers
           /\ frame' = frame => frame' \in {None, "handler", "recovery"}
           /\ header' = header => header' \in [contentType : {None, json}, retryAfter : Nat]
           /\ sent' = sent => sent' = None \/ sent' \in Commit
           /\ body' = body => body' \in Seq(Codes \cup {"own"})
           /\ steps' = steps => steps' \in 0..MaxSteps
           /\ breaks' = breaks => breaks' \in BOOLEAN
           /\ firstPanic' \in {firstPanic, "early", "late"} =>
                firstPanic' \in {None, "early", "late"}
BY DEF TypeOK

\* The conjuncts of TypeOK after a step.
LEMMA TypesFromParts ==
    ASSUME pc' \in Labels \cup {"handler", "unwinding", "returned", "answered", "aborted"},
           layer' \in 0..Layers, frame' \in {None, "handler", "recovery"},
           he' = None \/ he' \in ErrorShape,
           pc' \in Labels <=> he' # None,
           header' \in [contentType : {None, json}, retryAfter : Nat],
           sent' = None \/ sent' \in Commit,
           body' \in Seq(Codes \cup {"own"}),
           steps' \in 0..MaxSteps, breaks' \in BOOLEAN,
           firstPanic' \in {None, "early", "late"}
    PROVE  TypeOK'
BY DEF TypeOK, Labels, Commit

\* What the application's handler does keeps the types.
LEMMA HandlerTypes ==
    ASSUME TypeOK, Handler PROVE TypeOK'
<1>1. CASE HandlerWrites
    <2>1. sent' \in Commit
        BY <1>1, Commits200 DEF HandlerWrites
    <2>2. body' \in Seq(Codes \cup {"own"})
        BY <1>1 DEF HandlerWrites, TypeOK
    <2> QED
        BY <1>1, <2>1, <2>2, BoundAssumption DEF HandlerWrites, TypeOK
<1>2. ASSUME NEW c \in Causes, HandlerCallsWrite(c) PROVE TypeOK'
    <2>1. coerce(c) \in ErrorShape
        BY CausesAssumption, SafeErrors DEF coerce
    <2>2. coerce(c) # None
        BY <2>1, NoneAssumption
    <2>3. steps' \in 0..MaxSteps
        <3>1. steps' = steps + 1 /\ steps < MaxSteps
            BY <1>2 DEF HandlerCallsWrite
        <3>2. steps \in 0..MaxSteps
            BY DEF TypeOK
        <3> QED
            BY <3>1, <3>2, BoundAssumption
    <2>4. /\ layer' = layer /\ header' = header /\ sent' = sent /\ body' = body
          /\ breaks' = breaks /\ firstPanic' = firstPanic
          /\ pc' = "set headers" /\ frame' = "handler" /\ he' = coerce(c)
        BY <1>2 DEF HandlerCallsWrite
    <2>5. pc' \in Labels /\ he' # None
        BY <2>2, <2>4 DEF Labels
    <2>6. /\ layer' \in 0..Layers /\ frame' \in {None, "handler", "recovery"}
          /\ header' \in [contentType : {None, json}, retryAfter : Nat]
          /\ sent' = None \/ sent' \in Commit
          /\ body' \in Seq(Codes \cup {"own"})
          /\ breaks' \in BOOLEAN /\ firstPanic' \in {None, "early", "late"}
        BY <2>4, Untouched
    <2>7. he' \in ErrorShape
        BY <2>1, <2>4
    <2> QED
        BY <2>3, <2>5, <2>6, <2>7, TypesFromParts
<1>3. CASE HandlerReturns
    BY <1>3 DEF HandlerReturns, TypeOK
<1>4. CASE HandlerPanics
    BY <1>4 DEF HandlerPanics, Panicking, TypeOK
<1> QED
    BY <1>1, <1>2, <1>3, <1>4 DEF Handler

\* A step of Write keeps the types.
LEMMA WriteTypes ==
    ASSUME TypeOK, Write PROVE TypeOK'
<1>1. CASE SetHeaders
    <2>1. he.secs \in Nat
        BY <1>1, Rendering DEF SetHeaders, Labels
    <2>2. header.retryAfter \in Nat
        BY DEF TypeOK
    <2>3. setHeaders(header, he) \in [contentType : {None, json}, retryAfter : Nat]
        BY <2>1, <2>2 DEF setHeaders
    <2> QED
        BY <1>1, <2>3 DEF SetHeaders, TypeOK
<1>2. CASE WriteHeader
    <2>1. he.status \in Int
        BY <1>2, Rendering DEF WriteHeader, Labels
    <2>2. sent' = None \/ sent' \in Commit
        BY <1>2, <2>1, CommitsHeads DEF WriteHeader, TypeOK
    <2>3. /\ (pc' = "write body" /\ he' = he) \/ (pc' = "unwinding" /\ he' = None)
          /\ firstPanic' \in {firstPanic, "early", "late"}
        BY <1>2 DEF WriteHeader, Panicking
    <2>4. /\ layer' = layer /\ frame' = frame /\ header' = header /\ body' = body
          /\ steps' = steps /\ breaks' = breaks
        BY <1>2 DEF WriteHeader
    <2>5. he \in ErrorShape /\ he # None
        BY <1>2, Rendering DEF WriteHeader, Labels
    <2>6. /\ pc' \in Labels <=> he' # None
          /\ he' = None \/ he' \in ErrorShape
          /\ pc' \in Labels \cup {"handler", "unwinding", "returned", "answered", "aborted"}
        BY <2>3, <2>5 DEF Labels
    <2>7. /\ layer' \in 0..Layers /\ frame' \in {None, "handler", "recovery"}
          /\ header' \in [contentType : {None, json}, retryAfter : Nat]
          /\ body' \in Seq(Codes \cup {"own"}) /\ steps' \in 0..MaxSteps
          /\ breaks' \in BOOLEAN /\ firstPanic' \in {None, "early", "late"}
        BY <2>3, <2>4, Untouched
    <2> QED
        BY <2>2, <2>6, <2>7, TypesFromParts
<1>3. CASE WriteBody
    <2>1. he.code \in Codes
        BY <1>3, Rendering DEF WriteBody, Labels
    <2>2. sent' = None \/ sent' \in Commit
        BY <1>3, Commits200 DEF WriteBody, TypeOK
    <2>3. body' = body \/ body' = Append(body, he.code)
        BY <1>3 DEF WriteBody
    <2>4. body' \in Seq(Codes \cup {"own"})
        <3>1. body \in Seq(Codes \cup {"own"})
            BY DEF TypeOK
        <3> QED
            BY <2>1, <2>3, <3>1, AppendProperties
    <2>5. /\ pc' \in {"unwinding", "handler", "returned"} /\ he' = None
          /\ firstPanic' \in {firstPanic, "early", "late"}
        BY <1>3 DEF WriteBody, Panicking
    <2>6. /\ layer' = layer /\ frame' = frame /\ header' = header
          /\ steps' = steps /\ breaks' = breaks
        BY <1>3 DEF WriteBody
    <2>7. /\ pc' \notin Labels
          /\ pc' \in Labels \cup {"handler", "unwinding", "returned", "answered", "aborted"}
        BY <2>5 DEF Labels
    <2>8. /\ layer' \in 0..Layers /\ frame' \in {None, "handler", "recovery"}
          /\ header' \in [contentType : {None, json}, retryAfter : Nat]
          /\ steps' \in 0..MaxSteps
          /\ breaks' \in BOOLEAN /\ firstPanic' \in {None, "early", "late"}
        BY <2>5, <2>6, Untouched
    <2> QED
        BY <2>2, <2>4, <2>5, <2>7, <2>8, TypesFromParts
<1> QED
    BY <1>1, <1>2, <1>3 DEF Write

\* Write has an error to render exactly while it runs, for any nesting.
THEOREM TypeCorrect == Spec => []TypeOK
<1>1. Init => TypeOK
    BY LayersAssumption, BoundAssumption DEF Init, TypeOK
<1>2. ASSUME TypeOK, [Next]_vars PROVE TypeOK'
    <2>1. CASE Recover
        <3>1. layer' \in 0..Layers
            <4>1. layer > 0 /\ layer' = layer - 1
                BY <2>1 DEF Recover, recovers, layersLeft
            <4>2. layer \in 0..Layers
                BY <1>2 DEF TypeOK
            <4> QED
                BY <4>1, <4>2, LayersAssumption
        <3>2. he' \in ErrorShape /\ he' # None
            BY <2>1, SafeErrors DEF Recover, recovered
        <3>3. /\ header' = header /\ sent' = sent /\ body' = body /\ steps' = steps
              /\ breaks' = breaks /\ firstPanic' = firstPanic /\ frame' = "recovery"
              /\ pc' = "set headers"
            BY <2>1 DEF Recover
        <3>4. pc' \in Labels
            BY <3>3 DEF Labels
        <3>5. /\ frame' \in {None, "handler", "recovery"}
              /\ header' \in [contentType : {None, json}, retryAfter : Nat]
              /\ sent' = None \/ sent' \in Commit
              /\ body' \in Seq(Codes \cup {"own"}) /\ steps' \in 0..MaxSteps
              /\ breaks' \in BOOLEAN /\ firstPanic' \in {None, "early", "late"}
            BY <1>2, <3>3, Untouched
        <3> QED
            BY <3>1, <3>2, <3>4, <3>5, TypesFromParts
    <2>2. CASE Abort
        BY <1>2, <2>2 DEF Abort, TypeOK
    <2>3. CASE Complete
        BY <1>2, <2>3, Commits200 DEF Complete, TypeOK
    <2>4. CASE UNCHANGED vars
        BY <1>2, <2>4 DEF vars, TypeOK
    <2> QED
        BY <1>2, <2>1, <2>2, <2>3, <2>4, HandlerTypes, WriteTypes DEF Next
<1> QED
    BY <1>1, <1>2, PTL DEF Spec

-----------------------------------------------------------------------------
(* Panics are answered *)

Safe500(s) == s.status = 500 /\ s.contentType = json

\* Until the first recovery every Middleware is left, and a panic that happened
\* is still unwinding; the recovery's Write renders an error that neither
\* panics by itself nor has an impossible status.
RecoveryInv ==
    /\ frame # "recovery" =>
         /\ layer = Layers
         /\ pc \in Labels \cup {"handler", "returned", "answered"} => firstPanic = None
    /\ frame = "recovery" => he \in {None, panicked}
    /\ frame = "recovery" /\ ~breaks => pc \in Labels \cup {"returned", "answered"}
    /\ pc \in {"unwinding", "aborted"} => firstPanic # None
    /\ pc = "aborted" => layer = 0
    /\ pc = "handler" => frame # "recovery"
    /\ pc = "write header" => header.contentType = json
    /\ sent = None => body = <<>>

\* After an early panic nothing is committed before the recovery's WriteHeader,
\* and nothing but its own document is written after.
EarlyInv ==
    firstPanic = "early" /\ ~breaks =>
        \/ pc \in {"unwinding", "aborted", "set headers", "write header"} /\ sent = None
        \/ pc = "write body" /\ sent # None /\ Safe500(sent) /\ body = <<>>
        \/ pc \in {"returned", "answered"} /\ sent # None /\ Safe500(sent) /\ body = <<"PANIC">>

\* A panic is early exactly when nothing was committed, unless it is not the first.
LEMMA EarlyOrLate ==
    ASSUME Panicking
    PROVE  /\ firstPanic' # None /\ pc' = "unwinding" /\ he' = None
           /\ firstPanic' = "early" /\ firstPanic = None => sent = None
           /\ firstPanic # None => firstPanic' = firstPanic
BY NoneAssumption DEF Panicking

\* The handler runs before any panic.
LEMMA HandlerKeepsRecovery ==
    ASSUME TypeOK, RecoveryInv, EarlyInv, Handler PROVE RecoveryInv' /\ EarlyInv'
<1>1. pc = "handler" /\ frame # "recovery" /\ layer = Layers /\ firstPanic = None
    BY DEF Handler, HandlerWrites, HandlerCallsWrite, HandlerReturns, HandlerPanics, RecoveryInv
<1>2. firstPanic # "early"
    BY <1>1, NoneAssumption
<1>3. CASE HandlerWrites
    BY <1>1, <1>2, <1>3, Commits200 DEF HandlerWrites, RecoveryInv, EarlyInv
<1>4. ASSUME NEW c \in Causes, HandlerCallsWrite(c) PROVE RecoveryInv' /\ EarlyInv'
    BY <1>1, <1>2, <1>4 DEF HandlerCallsWrite, RecoveryInv, EarlyInv
<1>5. CASE HandlerReturns
    BY <1>1, <1>2, <1>5 DEF HandlerReturns, RecoveryInv, EarlyInv
<1>6. CASE HandlerPanics
    BY <1>1, <1>2, <1>6, EarlyOrLate DEF HandlerPanics, RecoveryInv, EarlyInv, Labels
<1> QED
    BY <1>3, <1>4, <1>5, <1>6 DEF Handler

\* Write keeps the answer to a panic on its way.
LEMMA WriteKeepsRecovery ==
    ASSUME TypeOK, RecoveryInv, EarlyInv, Write PROVE RecoveryInv' /\ EarlyInv'
<1>1. he # None /\ pc \in Labels
    BY Rendering DEF Write, SetHeaders, WriteHeader, WriteBody, Labels
<1>2. /\ frame = "recovery" => he = panicked
      /\ frame # "recovery" => layer = Layers /\ firstPanic = None
    BY <1>1 DEF RecoveryInv
<1>3. firstPanic = "early" => frame = "recovery"
    BY <1>2, NoneAssumption
<1>4. CASE SetHeaders
    BY <1>1, <1>2, <1>3, <1>4 DEF SetHeaders, setHeaders, RecoveryInv, EarlyInv, Labels
<1>5. CASE WriteHeader
    <2>1. CASE returnsFor(he)
        <3>1. /\ pc = "write header" /\ pc' = "write body" /\ sent' = afterWriteHeader(he.status)
              /\ he' = he /\ firstPanic' = firstPanic /\ layer' = layer /\ frame' = frame
              /\ header' = header /\ body' = body /\ breaks' = breaks
            BY <1>5, <2>1 DEF WriteHeader
        <3>2. sent' = None => sent = None
            BY <1>1, <3>1, CommitsHeads, Rendering
        <3>3. RecoveryInv'
            BY <1>2, <3>1, <3>2 DEF RecoveryInv, Labels
        <3>4. ASSUME firstPanic = "early", ~breaks PROVE sent = None /\ he.status = 500
            <4>1. sent = None
                BY <3>1, <3>4 DEF EarlyInv
            <4>2. he = panicked
                BY <1>2, <1>3, <3>4
            <4> QED
                BY <4>1, <4>2 DEF panicked
        <3>5. ASSUME firstPanic = "early", ~breaks
              PROVE  sent' # None /\ Safe500(sent') /\ body' = <<>>
            <4>2. header.contentType = json /\ body = <<>>
                BY <3>1, <3>4, <3>5 DEF RecoveryInv
            <4>3. /\ afterWriteHeader(500) # None
                  /\ afterWriteHeader(500).status = 500
                  /\ afterWriteHeader(500).contentType = header.contentType
                BY <3>4, <3>5, FinalStatuses, CommitsHeads
            <4>4. sent' = afterWriteHeader(500) /\ body' = body
                BY <3>1, <3>4, <3>5
            <4> QED
                BY <4>2, <4>3, <4>4 DEF Safe500
        <3> QED
            BY <3>1, <3>3, <3>5 DEF EarlyInv
    <2>2. CASE ~returnsFor(he)
        <3>1. frame # "recovery"
            BY <1>2, <2>2 DEF returnsFor, Possible, panicked
        <3> QED
            BY <1>1, <1>2, <1>3, <1>5, <2>2, <3>1, EarlyOrLate DEF WriteHeader, RecoveryInv, EarlyInv, Labels
    <2> QED
        BY <2>1, <2>2
<1>6. CASE WriteBody
    <2>1. CASE renderPanics(he)
        <3>1. frame = "recovery" => breaks
            BY <1>2, <2>1 DEF renderPanics, panicked
        <3> QED
            BY <1>1, <1>2, <1>3, <1>6, <2>1, <3>1, EarlyOrLate DEF WriteBody, RecoveryInv, EarlyInv, Labels
    <2>2. CASE ~renderPanics(he)
        <3>1. /\ pc = "write body" /\ pc' \in {"handler", "returned"}
              /\ frame = "recovery" => pc' = "returned"
              /\ frame # "recovery" => firstPanic = None
              /\ pc' = "handler" => frame = "handler"
              /\ he' = None /\ firstPanic' = firstPanic /\ layer' = layer /\ frame' = frame
              /\ header' = header /\ breaks' = breaks
            BY <1>2, <1>6, <2>2 DEF WriteBody
        <3>2. /\ sent' = None => body' = body /\ sent = None
              /\ sent # None => sent' = sent
            BY <1>6, <2>2, Commits200 DEF WriteBody
        <3>3. RecoveryInv'
            BY <1>2, <3>1, <3>2 DEF RecoveryInv, Labels
        <3>4. ASSUME firstPanic = "early", ~breaks
              PROVE  /\ sent # None /\ Safe500(sent) /\ body = <<>>
                     /\ he = panicked /\ pc' = "returned"
            BY <1>2, <1>3, <3>1, <3>4 DEF EarlyInv
        <3>5. ASSUME firstPanic = "early", ~breaks PROVE body' = <<"PANIC">>
            <4>1. sent' = sent /\ ~Bodiless(sent.status)
                BY <3>2, <3>4, <3>5 DEF Safe500, Bodiless
            <4>2. he.code = "PANIC" /\ he.render = "fine"
                BY <3>4, <3>5 DEF panicked
            <4>3. body' = Append(body, he.code)
                BY <1>6, <2>2, <4>1, <4>2 DEF WriteBody
            <4> QED
                BY <3>4, <3>5, <4>2, <4>3
        <3> QED
            BY <3>1, <3>2, <3>3, <3>4, <3>5 DEF EarlyInv
    <2> QED
        BY <2>1, <2>2
<1> QED
    BY <1>4, <1>5, <1>6 DEF Write

\* With a Middleware around the handler and a Localizer that works, every panic
\* is answered, one before anything was committed with the safe PANIC error
\* and nothing else, for any errors and any handler.
THEOREM EveryPanicIsAnswered == Spec => []PanicsAreAnswered
<1>1. Init => RecoveryInv /\ EarlyInv
    BY NoneAssumption DEF Init, RecoveryInv, EarlyInv, Labels
<1>2. ASSUME TypeOK, RecoveryInv, EarlyInv, [Next]_vars PROVE RecoveryInv' /\ EarlyInv'
    <2>1. CASE Handler
        BY <1>2, <2>1, HandlerKeepsRecovery
    <2>2. CASE Write
        BY <1>2, <2>2, WriteKeepsRecovery
    <2>3. CASE Recover
        BY <1>2, <2>3, SafeErrors, NoneAssumption
           DEF Recover, recovered, RecoveryInv, EarlyInv, Labels
    <2>4. CASE Abort
        <3>1. layer \in 0..Layers
            BY <1>2 DEF TypeOK
        <3>2. layer = 0
            BY <2>4, <3>1, LayersAssumption DEF Abort, recovers
        <3> QED
            BY <1>2, <2>4, <3>2 DEF Abort, RecoveryInv, EarlyInv, Labels
    <2>5. CASE Complete
        BY <1>2, <2>5, Commits200 DEF Complete, RecoveryInv, EarlyInv, Labels
    <2>6. CASE UNCHANGED vars
        BY <1>2, <2>6 DEF vars, RecoveryInv, EarlyInv
    <2> QED
        BY <1>2, <2>1, <2>2, <2>3, <2>4, <2>5, <2>6 DEF Next
<1>3. Layers > 0 => Layers # 0
    BY LayersAssumption
<1>4. RecoveryInv /\ EarlyInv => PanicsAreAnswered
    <2> SUFFICES ASSUME RecoveryInv, EarlyInv, Layers > 0, ~breaks, Ended
                 PROVE  /\ pc = "answered"
                        /\ firstPanic = "early" =>
                             sent.status = 500 /\ sent.contentType = json /\ body = <<"PANIC">>
        BY DEF PanicsAreAnswered
    <2>1. pc # "aborted"
        <3>1. CASE frame = "recovery"
            BY <3>1 DEF RecoveryInv, Labels
        <3>2. CASE frame # "recovery"
            <4>1. layer # 0
                BY <3>2, <1>3, Zenon DEF RecoveryInv
            <4> QED
                BY <4>1, Zenon DEF RecoveryInv
        <3> QED
            BY <3>1, <3>2
    <2> QED
        BY <2>1 DEF Ended, EarlyInv, Safe500
<1> QED
    BY <1>1, <1>2, <1>4, TypeCorrect, PTL DEF Spec

-----------------------------------------------------------------------------
(* Delays *)

\* A delay that goes with a status is of an error with that status, or of one
\* whose Write was unable to commit anything.
Owned(delay, status) ==
    delay > 0 => \E c \in Causes :
        /\ c.herr /\ c.secs = delay
        /\ c.status = status \/ ~Possible(c.status) \/ Informational(c.status)

\* The status that is about to be committed; no error could commit 0.
comingStatus == IF pc = "write header" THEN he.status ELSE 0

\* What is rendered is an error of the handler's, or has no delay; before a
\* commit, a delay in the header is of the error about to be committed, or of one
\* that could not be.
DelayInv ==
    /\ pc \in Labels => he.secs = 0 \/ (he \in Causes /\ he.herr)
    /\ sent = None => Owned(header.retryAfter, comingStatus)
    /\ sent # None => Owned(sent.retryAfter, sent.status)

\* A delay whose error committed nothing goes with any status.
LEMMA Owners ==
    ASSUME NEW delay, NEW status, NEW other,
           Owned(delay, other), ~Possible(other) \/ Informational(other)
    PROVE  Owned(delay, status)
BY DEF Owned

\* No status is 0.
LEMMA ZeroIsImpossible == ~Possible(0)
BY DEF Possible

\* A 200 that is committed implicitly takes the delay in the header with it.
LEMMA ImplicitOwners ==
    ASSUME TypeOK, DelayInv, pc # "write header"
    PROVE  Owned(implicitly200.retryAfter, implicitly200.status)
<1>1. CASE sent # None
    BY <1>1, Commits200 DEF DelayInv
<1>2. CASE sent = None
    <2>1. implicitly200.retryAfter = header.retryAfter
        BY <1>2, FinalStatuses DEF implicitly200, afterWriteHeader
    <2>2. Owned(header.retryAfter, 0)
        BY <1>2 DEF DelayInv, comingStatus
    <2> QED
        BY <2>1, <2>2, ZeroIsImpossible, Owners
<1> QED
    BY <1>1, <1>2

\* Every step keeps a delay with its error.
LEMMA StepKeepsDelayInv ==
    ASSUME TypeOK, DelayInv, [Next]_vars PROVE DelayInv'
<1>0. CASE pc' \notin Labels \cup {"write header"} /\ pc # "write header"
             /\ header' = header /\ sent' \in {sent, implicitly200}
    <2>1. comingStatus' = 0 /\ comingStatus = 0
        BY <1>0 DEF comingStatus, Labels
    <2>2. CASE sent' = sent
        BY <1>0, <2>1, <2>2 DEF DelayInv
    <2>3. CASE sent' = implicitly200
        BY <1>0, <2>3, Commits200, ImplicitOwners DEF DelayInv
    <2> QED
        BY <1>0, <2>2, <2>3
<1>1. CASE HandlerWrites \/ HandlerReturns \/ HandlerPanics \/ Complete \/ Abort
    BY <1>0, <1>1 DEF HandlerWrites, HandlerReturns, HandlerPanics, Panicking, Complete, Abort, Labels
<1>2. CASE Recover \/ \E c \in Causes : HandlerCallsWrite(c)
    <2>1. pc' = "set headers" /\ pc # "write header" /\ header' = header /\ sent' = sent
        BY <1>2 DEF Recover, HandlerCallsWrite
    <2>2. he'.secs = 0 \/ (he' \in Causes /\ he'.herr)
        <3>1. CASE Recover
            BY <3>1 DEF Recover, recovered, panicked
        <3>2. ASSUME NEW c \in Causes, HandlerCallsWrite(c)
              PROVE  he'.secs = 0 \/ (he' \in Causes /\ he'.herr)
            <4>1. he' = coerce(c)
                BY <3>2 DEF HandlerCallsWrite
            <4>2. CASE c.herr
                BY <4>1, <4>2 DEF coerce
            <4>3. CASE ~c.herr
                BY <4>1, <4>3 DEF coerce, internal
            <4> QED
                BY <4>2, <4>3
        <3> QED
            BY <1>2, <3>1, <3>2
    <2>3. comingStatus' = comingStatus
        BY <2>1 DEF comingStatus
    <2> QED
        BY <2>1, <2>2, <2>3 DEF DelayInv
<1>3. CASE SetHeaders
    <2>1. /\ pc = "set headers" /\ pc' = "write header" /\ he' = he /\ sent' = sent
          /\ header'.retryAfter = IF he.secs > 0 THEN he.secs ELSE header.retryAfter
        BY <1>3 DEF SetHeaders, setHeaders
    <2>2. he.secs = 0 \/ (he \in Causes /\ he.herr)
        BY <2>1 DEF DelayInv, Labels
    <2>3. ASSUME sent = None PROVE Owned(header'.retryAfter, he.status)
        <3>1. CASE he.secs > 0
            <4>1. he.secs # 0
                <5>1. he.secs \in Nat
                    BY <2>1, Rendering DEF Labels
                <5> QED
                    BY <3>1, <5>1
            <4>2. header'.retryAfter = he.secs
                BY <2>1, <3>1, Zenon
            <4> QED
                BY <2>2, <4>1, <4>2 DEF Owned
        <3>2. CASE ~(he.secs > 0)
            <4>1. Owned(header.retryAfter, 0)
                BY <2>1, <2>3 DEF DelayInv, comingStatus
            <4> QED
                BY <2>1, <3>2, <4>1, ZeroIsImpossible, Owners
        <3> QED
            BY <3>1, <3>2
    <2>4. comingStatus' = he.status
        BY <2>1 DEF comingStatus
    <2> QED
        BY <2>1, <2>2, <2>3, <2>4 DEF DelayInv
<1>4. CASE WriteHeader
    <2>1. /\ pc = "write header" /\ header' = header /\ he.status \in Int
          /\ (pc' = "write body" /\ he' = he) \/ pc' \notin Labels
          /\ sent' = IF returnsFor(he) THEN afterWriteHeader(he.status) ELSE sent
        BY <1>4, Rendering DEF WriteHeader, Panicking, Labels
    <2>2. pc' # "write header" /\ comingStatus' = 0 /\ comingStatus = he.status
        BY <2>1 DEF comingStatus, Labels
    <2>3. pc' \in Labels => he'.secs = 0 \/ (he' \in Causes /\ he'.herr)
        BY <2>1 DEF DelayInv, Labels
    <2>4. CASE sent # None
        BY <2>1, <2>2, <2>3, <2>4 DEF DelayInv, afterWriteHeader
    <2>5. CASE sent = None
        <3>1. Owned(header.retryAfter, he.status)
            BY <2>2, <2>5 DEF DelayInv
        <3>2. CASE returnsFor(he) /\ ~Informational(he.status)
            <4>1. sent'.status = he.status /\ sent'.retryAfter = header.retryAfter /\ sent' # None
                BY <2>1, <2>5, <3>2, CommitsHeads DEF afterWriteHeader
            <4> QED
                BY <2>3, <3>1, <4>1 DEF DelayInv
        <3>3. CASE ~returnsFor(he) \/ Informational(he.status)
            <4>1. sent' = None
                BY <2>1, <2>5, <3>3 DEF afterWriteHeader
            <4>2. Owned(header'.retryAfter, 0)
                BY <2>1, <3>1, <3>3, Owners DEF returnsFor
            <4> QED
                BY <2>2, <2>3, <4>1, <4>2 DEF DelayInv
        <3> QED
            BY <3>2, <3>3
    <2> QED
        BY <2>4, <2>5
<1>5. CASE WriteBody
    BY <1>0, <1>5 DEF WriteBody, Panicking, Labels
<1>6. CASE UNCHANGED vars
    BY <1>6 DEF vars, DelayInv, comingStatus
<1> QED
    BY <1>1, <1>2, <1>3, <1>4, <1>5, <1>6 DEF Next, Handler, Write

\* A Retry-After that the client sees is of the error whose status it sees, or of
\* one whose own Write committed nothing, for any errors, handler and nesting.
THEOREM DelaysAreOwned == Spec => []DelayIsOfItsOwnError
<1>1. Init => DelayInv
    BY NoneAssumption DEF Init, DelayInv, Owned, Labels
<1>2. DelayInv => DelayIsOfItsOwnError
    BY DEF DelayInv, Owned, DelayIsOfItsOwnError
<1>3. TypeOK /\ DelayInv /\ [Next]_vars => DelayInv'
    BY StepKeepsDelayInv
<1> QED
    BY <1>1, <1>2, <1>3, TypeCorrect, PTL DEF Spec

-----------------------------------------------------------------------------
(* A single call of Write *)

\* The errors a handler can have Write render.
Coerced == {coerce(c) : c \in Causes}

\* Write is in the middle of rendering e, and nothing was done before it.
Writing(e) ==
    /\ frame = "handler" /\ results = <<>> /\ body = <<>>
    /\ pc = "set headers" => sent = None /\ header.retryAfter = 0
    /\ pc = "write header" => sent = None /\ header.retryAfter = e.secs
    /\ pc = "write body" /\ ~Informational(e.status) =>
          sent # None /\ sent.status = e.status /\ sent.retryAfter = e.secs

\* Write has rendered e, and nothing was done before or after it.
Arrived(e) ==
    /\ results = <<[code |-> e.code, returned |-> e.status]>>
    /\ ~Informational(e.status) =>
          /\ sent # None /\ sent.status = e.status /\ sent.retryAfter = e.secs
          /\ body = IF Bodiless(e.status) \/ e.render = "unencodable" THEN <<>> ELSE <<e.code>>

\* Without a panic, a handler that has done one thing has written a piece of its
\* own, or it is in its only call of Write, or behind it.
SingleInv ==
    firstPanic = None =>
        /\ pc # "unwinding"
        /\ steps = 0 =>
              /\ pc \notin Labels /\ results = <<>> /\ body = <<>>
              /\ pc = "handler" => sent = None /\ header.retryAfter = 0
        /\ steps = 1 /\ pc \in Labels => he \in Coerced /\ Writing(he)
        /\ steps = 1 /\ pc \notin Labels /\ results # <<>> => \E e \in Coerced : Arrived(e)

\* What a handler does begins a single call of Write or leaves one as it was.
LEMMA HandlerKeepsSingle ==
    ASSUME TypeOK, SingleInv, Handler PROVE SingleInv'
<1>1. pc = "handler" /\ pc \notin Labels /\ steps \in Nat
    <2>1. pc = "handler"
        BY DEF Handler, HandlerWrites, HandlerCallsWrite, HandlerReturns, HandlerPanics
    <2>2. steps \in Nat
        <3>1. steps \in 0..MaxSteps
            BY DEF TypeOK
        <3> QED
            BY <3>1, BoundAssumption
    <2> QED
        BY <2>1, <2>2 DEF Labels
<1>2. CASE HandlerWrites
    <2>1. /\ steps' = steps + 1 /\ results' = results /\ pc' = "handler" /\ firstPanic' = firstPanic
        BY <1>2, <1>1 DEF HandlerWrites
    <2> QED
        BY <1>1, <2>1 DEF SingleInv, Labels
<1>3. ASSUME NEW c \in Causes, HandlerCallsWrite(c) PROVE SingleInv'
    <2>1. /\ steps' = steps + 1 /\ frame' = "handler" /\ he' = coerce(c) /\ pc' = "set headers"
          /\ UNCHANGED <<header, sent, body, firstPanic, results>>
        BY <1>3 DEF HandlerCallsWrite
    <2>2. he' \in Coerced
        BY <2>1 DEF Coerced
    <2>3. firstPanic = None /\ steps = 0 => Writing(he)'
        BY <1>1, <2>1 DEF SingleInv, Writing
    <2>4. steps' # 0 /\ (steps' = 1 => steps = 0)
        <3>1. steps' = steps + 1 /\ steps \in Nat
            BY <1>1, <2>1
        <3> QED
            BY <3>1
    <2>5. pc' \in Labels /\ pc' # "unwinding" /\ firstPanic' = firstPanic
        BY <2>1 DEF Labels
    <2> QED
        BY <2>2, <2>3, <2>4, <2>5 DEF SingleInv
<1>4. CASE HandlerReturns
    BY <1>1, <1>4 DEF HandlerReturns, SingleInv, Labels, Arrived
<1>5. CASE HandlerPanics
    BY <1>5, EarlyOrLate DEF HandlerPanics, SingleInv
<1> QED
    BY <1>2, <1>3, <1>4, <1>5 DEF Handler

\* The steps of a single call of Write lead from its error to the client.
LEMMA WriteKeepsSingle ==
    ASSUME TypeOK, SingleInv, Write PROVE SingleInv'
<1> SUFFICES ASSUME firstPanic' = None PROVE SingleInv'
    BY DEF SingleInv
<1>1. pc \in Labels /\ he \in ErrorShape /\ he.status \in Int /\ he.secs \in Nat
    BY Rendering DEF Write, SetHeaders, WriteHeader, WriteBody, Labels
<1>2. /\ steps' = steps /\ frame' = frame /\ firstPanic = None /\ pc' # "unwinding"
    BY EarlyOrLate DEF Write, SetHeaders, WriteHeader, WriteBody
<1>3. steps # 0
    BY <1>1, <1>2 DEF SingleInv
<1> SUFFICES ASSUME steps = 1
             PROVE  /\ pc' \in Labels => he' \in Coerced /\ Writing(he)'
                    /\ pc' \notin Labels /\ results' # <<>> => \E e \in Coerced : Arrived(e)'
    BY <1>2, <1>3 DEF SingleInv
<1>4. he \in Coerced /\ Writing(he)
    BY <1>1, <1>2 DEF SingleInv
<1>5. CASE SetHeaders
    <2>1. /\ pc = "set headers" /\ pc' = "write header" /\ UNCHANGED <<he, sent, body, results>>
          /\ header'.retryAfter = IF he.secs > 0 THEN he.secs ELSE header.retryAfter
        BY <1>5 DEF SetHeaders, setHeaders
    <2>2. header'.retryAfter = he.secs
        <3>1. header.retryAfter = 0
            BY <1>4, <2>1 DEF Writing
        <3>2. he.secs > 0 \/ he.secs = 0
            BY <1>1
        <3> QED
            BY <1>1, <2>1, <3>1, <3>2
    <2> QED
        BY <1>2, <1>4, <2>1, <2>2 DEF Writing, Labels
<1>6. CASE WriteHeader
    <2>1. /\ pc = "write header" /\ pc' = "write body" /\ sent' = afterWriteHeader(he.status)
          /\ UNCHANGED <<he, header, body, results>>
        BY <1>2, <1>6, EarlyOrLate DEF WriteHeader
    <2>2. sent = None /\ header.retryAfter = he.secs
        BY <1>4, <2>1 DEF Writing
    <2>3. ASSUME ~Informational(he.status)
          PROVE  sent' # None /\ sent'.status = he.status /\ sent'.retryAfter = he.secs
        <3>1. sent' # None /\ sent'.status = he.status
            BY <1>1, <2>1, <2>2, <2>3, CommitsHeads
        <3>2. sent'.retryAfter = header.retryAfter
            BY <2>1, <2>2, <2>3 DEF afterWriteHeader
        <3> QED
            BY <2>2, <3>1, <3>2
    <2> QED
        BY <1>2, <1>4, <2>1, <2>3 DEF Writing, Labels
<1>7. CASE WriteBody
    <2>1. /\ pc = "write body" /\ frame = "handler" /\ body = <<>> /\ results = <<>>
        BY <1>4, <1>7 DEF WriteBody, Writing
    <2>2. /\ ~renderPanics(he) /\ pc' = "handler"
          /\ results' = Append(results, [code |-> he.code, returned |-> he.status])
        BY <1>2, <1>7, <2>1, EarlyOrLate DEF WriteBody
    <2>3. IF he.render = "unencodable" THEN sent' = sent /\ body' = body
          ELSE /\ sent' = implicitly200
               /\ body' = IF Bodiless(sent'.status) THEN body ELSE Append(body, he.code)
        BY <1>7, <2>2 DEF WriteBody
    <2>4. results' = <<[code |-> he.code, returned |-> he.status]>>
        <3> DEFINE result == [code |-> he.code, returned |-> he.status]
        <3>1. results' = Append(<<>>, result)
            BY <2>1, <2>2
        <3> HIDE DEF result
        <3>2. Append(<<>>, result) = <<result>>
            OBVIOUS
        <3> QED
            BY <3>1, <3>2 DEF result
    <2>5. ASSUME ~Informational(he.status)
          PROVE  /\ sent' # None /\ sent'.status = he.status /\ sent'.retryAfter = he.secs
                 /\ body' = IF Bodiless(he.status) \/ he.render = "unencodable"
                            THEN <<>> ELSE <<he.code>>
        <3>1. sent # None /\ sent.status = he.status /\ sent.retryAfter = he.secs
            BY <1>4, <2>1, <2>5 DEF Writing
        <3>2. implicitly200 = sent /\ sent' = sent
            BY <2>3, <3>1, Commits200
        <3>3. Append(<<>>, he.code) = <<he.code>>
            OBVIOUS
        <3> QED
            BY <2>1, <2>3, <3>1, <3>2, <3>3
    <2>6. PICK e \in Coerced : e = he
        BY <1>4
    <2>7. Arrived(e)'
        BY <2>4, <2>5, <2>6 DEF Arrived
    <2> QED
        BY <2>2, <2>7 DEF Labels
<1> QED
    BY <1>5, <1>6, <1>7 DEF Write

\* The status, the delay and the document of the error reach the client when the
\* handler does nothing but call Write once, for any error and nesting.
THEOREM SingleWritesArrive == Spec => []SingleWriteArrives
<1>1. Init => SingleInv
    BY DEF Init, SingleInv, Labels
<1>2. TypeOK /\ SingleInv /\ [Next]_vars => SingleInv'
    <2> SUFFICES ASSUME TypeOK, SingleInv, [Next]_vars PROVE SingleInv'
        OBVIOUS
    <2>1. CASE Recover \/ Abort
        BY <2>1 DEF Recover, Abort, SingleInv
    <2>2. CASE Complete
        <3>1. /\ pc = "returned" /\ pc' = "answered" /\ sent' = implicitly200
              /\ UNCHANGED <<steps, results, body, firstPanic>>
            BY <2>2 DEF Complete
        <3>2. \A e \in Coerced : Arrived(e) => Arrived(e)'
            BY <3>1, Commits200 DEF Arrived
        <3> QED
            BY <3>1, <3>2 DEF SingleInv, Labels
    <2>3. CASE UNCHANGED vars
        BY <2>3 DEF vars, SingleInv, Labels, Writing, Arrived
    <2> QED
        BY <2>1, <2>2, <2>3, HandlerKeepsSingle, WriteKeepsSingle DEF Next
<1>3. SingleInv => SingleWriteArrives
    <2> SUFFICES ASSUME SingleInv, pc = "answered", firstPanic = None, steps = 1,
                        Len(results) = 1, ~Informational(results[1].returned)
                 PROVE  /\ sent.status = results[1].returned
                        /\ \E c \in Causes :
                             /\ results[1].code = IF c.herr THEN c.code ELSE "INTERNAL"
                             /\ sent.status = IF c.herr THEN c.status ELSE 500
                             /\ sent.retryAfter = IF c.herr THEN c.secs ELSE 0
                             /\ body = IF Bodiless(sent.status)
                                            \/ (c.herr /\ c.render = "unencodable")
                                       THEN <<>> ELSE <<results[1].code>>
        BY DEF SingleWriteArrives
    <2>1. PICK e \in Coerced : Arrived(e)
        BY DEF SingleInv, Labels
    <2>2. PICK c \in Causes : e = coerce(c)
        BY DEF Coerced
    <2>3. results[1].code = e.code /\ results[1].returned = e.status
        BY <2>1 DEF Arrived
    <2>4. /\ sent.status = e.status /\ sent.retryAfter = e.secs
          /\ body = IF Bodiless(e.status) \/ e.render = "unencodable" THEN <<>> ELSE <<e.code>>
        BY <2>1, <2>3 DEF Arrived
    <2>5. /\ e.code = IF c.herr THEN c.code ELSE "INTERNAL"
          /\ e.status = IF c.herr THEN c.status ELSE 500
          /\ e.secs = IF c.herr THEN c.secs ELSE 0
          /\ e.render = "unencodable" <=> c.herr /\ c.render = "unencodable"
        BY <2>2 DEF coerce, internal
    <2> QED
        BY <2>3, <2>4, <2>5
<1> QED
    BY <1>1, <1>2, <1>3, TypeCorrect, PTL DEF Spec
=============================================================================
