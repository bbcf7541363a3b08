----------------------------- MODULE HttpServer -----------------------------
(***************************************************************************)
(* One HTTP exchange served through Layers nested httperr.Middlewares: the  *)
(* application's handler (which may write by itself, call httperr.Write any *)
(* number of times, panic at any point, or return), Write step by step, and *)
(* the recovery, which runs the very same Write over whatever the response  *)
(* has become by then.                                                     *)
(*                                                                         *)
(* The ResponseWriter is net/http's: the first WriteHeader commits status   *)
(* and headers, later ones are ignored whatever their status, a first one   *)
(* with an impossible status panics, a write with nothing committed commits *)
(* 200.  Exchanges share nothing but the settings that Render is about, so   *)
(* one exchange is modelled.                                               *)
(***************************************************************************)
EXTENDS Integers, Sequences

CONSTANTS
    Layers,     \* how many Middlewares surround the handler
    Codes,      \* codes of errors
    Causes,     \* errors a handler passes to Write, see ErrorShape
    MaxSteps,   \* bound on what one handler does before it ends (model only)
    None

json == "application/json; charset=utf-8"

(* A cause: herr says whether errors.As finds a herr error in it; that one   *)
(* has a status, whole seconds of retry delay, and a rendering that is       *)
(* "fine", "unencodable" (a metadata value encoding/json refuses) or         *)
(* "panics" (a metadata value whose MarshalJSON panics).                     *)
ErrorShape == [herr : BOOLEAN, code : Codes, status : Int, secs : Nat,
               render : {"fine", "unencodable", "panics"}]

ASSUME LayersAssumption == Layers \in Nat
ASSUME BoundAssumption == MaxSteps \in Nat
ASSUME NoneAssumption ==
    /\ None \notin [status : Int, contentType : {None, json}, retryAfter : Nat]
    /\ None \notin ErrorShape /\ None \notin {"handler", "recovery", "early", "late"}
ASSUME CodesAssumption == {"INTERNAL", "PANIC"} \subseteq Codes
ASSUME CausesAssumption == \A c \in Causes : c \in ErrorShape

VARIABLES
    pc,         \* the handler, a label of Write, unwinding or an end
    layer,      \* how many Middlewares could still recover a panic
    frame,      \* who called Write: "handler" or "recovery"
    he,         \* the coerced error Write is rendering, None outside
    header,     \* the header map [contentType, retryAfter]
    sent,       \* what was committed [status, contentType, retryAfter], None before
    body,       \* the documents written, in order
    steps,      \* how many things the handler has done
    breaks,     \* whether the Localizer panics for every key
    firstPanic, \* history: whether the handler panicked "early", before a commit, or "late"
    results     \* history: per finished Write of the handler, [code, returned]

vars == <<pc, layer, frame, he, header, sent, body, steps, breaks, firstPanic, results>>

-----------------------------------------------------------------------------
(* Operators of the code *)

internal == [herr |-> TRUE, code |-> "INTERNAL", status |-> 500, secs |-> 0, render |-> "fine"]
panicked == [herr |-> TRUE, code |-> "PANIC", status |-> 500, secs |-> 0, render |-> "fine"]

\* A herr error is used as it is; anything else becomes a safe 500.
coerce(c) == IF c.herr THEN c ELSE internal

renderPanics(e) == e.render = "panics" \/ breaks

(* net/http's ResponseWriter *)

Possible(status) == status \in 100..999

\* 1xx statuses are sent at once and leave the final status open; 101 is final.
Informational(status) == status \in 100..199 /\ status # 101

\* What WriteHeader(status) leaves committed.
afterWriteHeader(status) ==
    IF sent # None \/ Informational(status) THEN sent
    ELSE [status |-> status, contentType |-> header.contentType,
          retryAfter |-> header.retryAfter]

\* What a first Write leaves committed.
implicitly200 == afterWriteHeader(200)

\* Statuses that carry no body: writing one fails with ErrBodyNotAllowed.
Bodiless(s) == s \in {101, 204, 304}

-----------------------------------------------------------------------------
Init ==
    /\ pc = "handler" /\ layer = Layers
    /\ frame = None /\ he = None
    /\ header = [contentType |-> None, retryAfter |-> 0]
    /\ sent = None /\ body = <<>>
    /\ steps = 0
    /\ breaks \in BOOLEAN
    /\ firstPanic = None /\ results = <<>>

\* The handler writes a piece of a response of its own.
HandlerWrites ==
    /\ pc = "handler" /\ steps < MaxSteps
    /\ steps' = steps + 1
    /\ sent' = implicitly200
    /\ body' = IF Bodiless(sent'.status) THEN body ELSE Append(body, "own")
    /\ UNCHANGED <<pc, layer, frame, he, header, breaks, firstPanic, results>>

\* Write begins: coerce, locale and status are computed from its arguments.
HandlerCallsWrite(c) ==
    /\ pc = "handler" /\ steps < MaxSteps
    /\ steps' = steps + 1
    /\ frame' = "handler" /\ he' = coerce(c)
    /\ pc' = "set headers"
    /\ UNCHANGED <<layer, header, sent, body, breaks, firstPanic, results>>

HandlerReturns ==
    /\ pc = "handler"
    /\ pc' = "returned"
    /\ UNCHANGED <<layer, frame, he, header, sent, body, steps, breaks, firstPanic, results>>

\* A panic anywhere in the handler, remembered for the properties.
Panicking ==
    /\ pc' = "unwinding" /\ he' = None
    /\ firstPanic' = IF firstPanic # None THEN firstPanic
                     ELSE IF sent = None THEN "early" ELSE "late"

HandlerPanics ==
    /\ pc = "handler"
    /\ Panicking
    /\ UNCHANGED <<layer, frame, header, sent, body, steps, breaks, results>>

-----------------------------------------------------------------------------
(* Write *)

\* Mistake: Retry-After is only set when it is too late.
retryAfterTooLate(h, e) == [contentType |-> json, retryAfter |-> h.retryAfter]

\* Both headers are set before WriteHeader can commit them.
setHeaders(h, e) == [contentType |-> json,
                     retryAfter |-> IF e.secs > 0 THEN e.secs ELSE h.retryAfter]

SetHeaders ==
    /\ pc = "set headers"
    /\ header' = setHeaders(header, he)
    /\ pc' = "write header"
    /\ UNCHANGED <<layer, frame, he, sent, body, steps, breaks, firstPanic, results>>

\* Mistake: the body is rendered before the status is known to be possible.
possibleAfterRendering(e) == (sent # None \/ Possible(e.status)) /\ ~renderPanics(e)

\* Whether WriteHeader returns for e: with something committed it is superfluous
\* and looks at no status, else an impossible status panics.
returnsFor(e) == sent # None \/ Possible(e.status)

WriteHeader ==
    /\ pc = "write header"
    /\ IF returnsFor(he)
       THEN /\ sent' = afterWriteHeader(he.status)
            /\ pc' = "write body"
            /\ UNCHANGED <<he, firstPanic>>
       ELSE Panicking /\ UNCHANGED sent
    /\ UNCHANGED <<layer, frame, header, body, steps, breaks, results>>

\* Rendering may panic; encoding may fail before its first byte, and the error
\* is dropped; a document may be refused by a status that has no body.
WriteBody ==
    /\ pc = "write body"
    /\ IF renderPanics(he)
       THEN Panicking /\ UNCHANGED <<sent, body, results>>
       ELSE /\ IF he.render = "unencodable"
               THEN UNCHANGED <<sent, body>>
               ELSE /\ sent' = implicitly200
                    /\ body' = IF Bodiless(sent'.status) THEN body
                               ELSE Append(body, he.code)
            /\ results' = IF frame = "handler"
                          THEN Append(results, [code |-> he.code, returned |-> he.status])
                          ELSE results
            /\ pc' = IF frame = "handler" THEN "handler" ELSE "returned"
            /\ he' = None
            /\ UNCHANGED firstPanic
    /\ UNCHANGED <<layer, frame, header, steps, breaks>>

-----------------------------------------------------------------------------
(* Middleware and server *)

\* Mistakes: panicking on once something was committed; no error to render;
\* recovering in the same Middleware over and over.
recoversUncommitted == layer > 0 /\ sent = None
recoveredNothing == he
sameLayer == layer

\* The innermost Middleware that is left recovers, whatever the panic was, and
\* calls Write with a PANIC error of its own over the response as it is.
recovers == layer > 0
recovered == panicked
layersLeft == layer - 1

Recover ==
    /\ pc = "unwinding" /\ recovers
    /\ layer' = layersLeft
    /\ frame' = "recovery" /\ he' = recovered
    /\ pc' = "set headers"
    /\ UNCHANGED <<header, sent, body, steps, breaks, firstPanic, results>>

\* A panic nobody recovers makes net/http drop the connection.
Abort ==
    /\ pc = "unwinding" /\ ~recovers
    /\ pc' = "aborted"
    /\ UNCHANGED <<layer, frame, he, header, sent, body, steps, breaks, firstPanic, results>>

\* The server sends what there is; a handler that wrote nothing sent an empty 200.
Complete ==
    /\ pc = "returned"
    /\ sent' = implicitly200
    /\ pc' = "answered"
    /\ UNCHANGED <<layer, frame, he, header, body, steps, breaks, firstPanic, results>>

Ended == pc \in {"answered", "aborted"}

Handler == HandlerWrites \/ HandlerReturns \/ HandlerPanics
             \/ \E c \in Causes : HandlerCallsWrite(c)
Write == SetHeaders \/ WriteHeader \/ WriteBody

Next == Handler \/ Write \/ Recover \/ Abort \/ Complete

\* The goroutine of the exchange runs on; the handler does not block for ever.
Spec == Init /\ [][Next]_vars /\ WF_vars(Next)

-----------------------------------------------------------------------------
(* Properties *)

Commit == [status : Int, contentType : {None, json}, retryAfter : Nat]

\* Write has an error to render exactly while it runs, and what is committed is
\* a whole response head.
TypeOK ==
    /\ pc \in {"handler", "set headers", "write header", "write body", "unwinding",
               "returned", "answered", "aborted"}
    /\ layer \in 0..Layers
    /\ frame \in {None, "handler", "recovery"}
    /\ he = None \/ he \in ErrorShape
    /\ pc \in {"set headers", "write header", "write body"} <=> he # None
    /\ header \in [contentType : {None, json}, retryAfter : Nat]
    /\ sent = None \/ sent \in Commit
    /\ body \in Seq(Codes \cup {"own"})
    /\ steps \in 0..MaxSteps /\ breaks \in BOOLEAN
    /\ firstPanic \in {None, "early", "late"}

\* With a Middleware and a Localizer that works, no panic escapes to net/http,
\* even one inside Write after the commit; and one that started before anything
\* was committed, wherever in the handler or inside its call of Write, is
\* answered with status 500, JSON, and exactly one document, the safe PANIC one.
PanicsAreAnswered ==
    Layers > 0 /\ ~breaks /\ Ended =>
        /\ pc = "answered"
        /\ firstPanic = "early" =>
             /\ sent.status = 500 /\ sent.contentType = json
             /\ body = <<"PANIC">>

\* A handler whose only output is one call of Write: the client gets the
\* error's own status, and the Retry-After header iff it has a delay, already
\* at the commit; and its document, unless it could not be encoded.
SingleWriteArrives ==
    pc = "answered" /\ firstPanic = None /\ steps = 1 /\ Len(results) = 1
      /\ ~Informational(results[1].returned) =>
        /\ sent.status = results[1].returned
        /\ \E c \in Causes :
             /\ results[1].code = IF c.herr THEN c.code ELSE "INTERNAL"
             /\ sent.status = IF c.herr THEN c.status ELSE 500
             /\ sent.retryAfter = IF c.herr THEN c.secs ELSE 0
             /\ body = IF Bodiless(sent.status) \/ (c.herr /\ c.render = "unencodable") THEN <<>>
                       ELSE <<results[1].code>>

\* A Retry-After the client sees is of the error whose status it sees, with one
\* exception: the header outlives a Write that set it and committed nothing,
\* because its status was impossible (the panic is then answered with that
\* delay) or informational.
DelayIsOfItsOwnError ==
    sent # None /\ sent.retryAfter > 0 =>
        \E c \in Causes :
            /\ c.herr /\ c.secs = sent.retryAfter
            /\ c.status = sent.status \/ ~Possible(c.status) \/ Informational(c.status)

\* Whatever the handler does, the exchange ends in a response or a dropped
\* connection: recoveries do not chain for ever.
EveryExchangeEnds == <>Ended
=============================================================================
