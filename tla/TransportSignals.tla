-------------------------- MODULE TransportSignals --------------------------
(***************************************************************************)
(* The signals one *Error sends besides its texts: the HTTP status, the     *)
(* gRPC code, the WebSocket close code, whether and when to retry, the      *)
(* captured stack and the log level.  Each comes from the Kind unless an    *)
(* override says otherwise, through a table of its own; five tables and     *)
(* three transports have to tell one story, in whatever order the builder   *)
(* methods were called.                                                    *)
(*                                                                         *)
(* time.Duration is a signed integer of -(MaxDuration + 1)..MaxDuration with *)
(* Second units in a second; past either end it wraps, as Go's 64 bits of    *)
(* nanoseconds do with MaxDuration = 2^63 - 1.                               *)
(***************************************************************************)
EXTENDS Integers

CONSTANTS
    UnknownKinds,   \* values of the type Kind that no table lists
    Statuses,       \* arguments of Status
    GRPCs,          \* arguments of GRPC
    WSCodes,        \* arguments of WS
    Durations,      \* arguments of RetryAfter
    Second, MaxDuration

ASSUME DurationsAssumption ==
    /\ MaxDuration \in Nat /\ Second \in 2..MaxDuration /\ 2 * Second <= MaxDuration
    /\ Durations \subseteq -(MaxDuration + 1)..MaxDuration

-----------------------------------------------------------------------------
(* The tables *)

row(http, grpc, ws, retry) == [http |-> http, grpc |-> grpc, ws |-> ws, retry |-> retry]

\* kindHTTP, kindGRPC, kindWS and kindRetry, one row per Kind.
table ==
    [internal      |-> row(500, 13, 1011, "unset"),
     invalid       |-> row(400, 3, 1008, "no"),
     unauthorized  |-> row(401, 16, 1008, "no"),
     forbidden     |-> row(403, 7, 1008, "no"),
     notFound      |-> row(404, 5, 1008, "no"),
     conflict      |-> row(409, 10, 1008, "no"),
     rateLimited   |-> row(429, 8, 1013, "yes"),
     timeout       |-> row(504, 4, 1011, "yes"),
     unavailable   |-> row(503, 14, 1013, "yes"),
     unprocessable |-> row(422, 3, 1008, "no")]

KnownKinds == DOMAIN table
Kinds == KnownKinds \cup UnknownKinds

\* Mistake: a Kind forgotten in one of the tables.
withoutTimeout == {"internal", "unavailable"}

serverFaultKinds == {"internal", "unavailable", "timeout"}

VARIABLES
    kind, httpStatus, grpcCode, wsClose, retry, retryAfter,
    stack       \* whether a stack is captured

vars == <<kind, httpStatus, grpcCode, wsClose, retry, retryAfter, stack>>

-----------------------------------------------------------------------------
(* What the transports read *)

HTTPStatus == IF httpStatus # 0 THEN httpStatus
              ELSE IF kind \in KnownKinds THEN table[kind].http ELSE 500
GRPCCode   == IF grpcCode # 0 THEN grpcCode
              ELSE IF kind \in KnownKinds THEN table[kind].grpc ELSE 13
WSClose    == IF wsClose # 0 THEN wsClose
              ELSE IF kind \in KnownKinds THEN table[kind].ws ELSE 1011

\* An explicit claim, else a delay, else the Kind, else no claim.
resolveRetry ==
    IF retry # "unset" THEN retry
    ELSE IF retryAfter > 0 THEN "yes"
    ELSE IF kind \in KnownKinds THEN table[kind].retry ELSE "unset"

\* Two's complement, and Go's division, which truncates.
wrap(d) == ((d + (MaxDuration + 1)) % (2 * (MaxDuration + 1))) - (MaxDuration + 1)
truncatedDiv(a, b) == IF a >= 0 THEN a \div b ELSE -((-a) \div b)

\* Mistake: rounding down.
roundsDown(d) == IF d <= 0 THEN 0 ELSE truncatedDiv(d, Second)

retryAfterSeconds(d) ==
    IF d <= 0 THEN 0 ELSE truncatedDiv(wrap(d + Second - 1), Second)

\* httperr: the Retry-After header, 0 when it is not set.
retryAfterHeader == LET secs == retryAfterSeconds(retryAfter) IN IF secs > 0 THEN secs ELSE 0

\* Mistake: advising a delay without asking whether to retry.
delayAlone == LET secs == retryAfterSeconds(retryAfter)
              IN  IF secs <= 0 THEN 0 ELSE wrap(secs * Second)

\* grpcerr: the delay of the RetryInfo detail, 0 when there is none.
retryInfo ==
    LET secs == retryAfterSeconds(retryAfter)
    IN  IF resolveRetry # "yes" \/ secs <= 0 THEN 0 ELSE wrap(secs * Second)

\* wire(): retryable and retryAfter of the body, the latter omitted when 0.
bodyRetryable  == resolveRetry
bodyRetryAfter == retryAfterSeconds(retryAfter)

\* wserr.ControlPayload: the two bytes in front of the reason.
closeBytes == <<(WSClose \div 256) % 256, WSClose % 256>>

\* The level every log adapter chooses.
levelFor(status) == IF status >= 500 THEN "error" ELSE "warn"

-----------------------------------------------------------------------------
(* The builder chain *)

Init ==
    /\ kind = "internal" /\ httpStatus = 0 /\ grpcCode = 0 /\ wsClose = 0
    /\ retry = "unset" /\ retryAfter = 0 /\ stack = FALSE

Kind(k) ==
    kind' = k /\ UNCHANGED <<httpStatus, grpcCode, wsClose, retry, retryAfter, stack>>
Status(s) ==
    httpStatus' = s /\ UNCHANGED <<kind, grpcCode, wsClose, retry, retryAfter, stack>>

\* Mistake: the wrong override is set.
grpcSetsStatus(c) ==
    httpStatus' = c /\ UNCHANGED <<kind, grpcCode, wsClose, retry, retryAfter, stack>>

GRPC(c) ==
    grpcCode' = c /\ UNCHANGED <<kind, httpStatus, wsClose, retry, retryAfter, stack>>
WS(c) ==
    wsClose' = c /\ UNCHANGED <<kind, httpStatus, grpcCode, retry, retryAfter, stack>>
Retry(r) ==
    retry' = r /\ UNCHANGED <<kind, httpStatus, grpcCode, wsClose, retryAfter, stack>>
RetryAfter(d) ==
    retryAfter' = d /\ UNCHANGED <<kind, httpStatus, grpcCode, wsClose, retry, stack>>

\* The Kind is looked at when WithStack is called; otherwise a no-op.
WithStack ==
    /\ stack' = (stack \/ kind \in serverFaultKinds)
    /\ UNCHANGED <<kind, httpStatus, grpcCode, wsClose, retry, retryAfter>>

Next ==
    \/ \E k \in Kinds : Kind(k)
    \/ \E s \in Statuses : Status(s)
    \/ \E c \in GRPCs : GRPC(c)
    \/ \E c \in WSCodes : WS(c)
    \/ \E r \in {"unset", "yes", "no"} : Retry(r)
    \/ \E d \in Durations : RetryAfter(d)
    \/ WithStack

Spec == Init /\ [][Next]_vars

-----------------------------------------------------------------------------
(* Properties *)

\* Each field of the error holds an argument of its own builder method, or the
\* zero value that means "derive from the Kind".
TypeOK ==
    /\ kind \in Kinds
    /\ httpStatus \in Statuses \cup {0} /\ grpcCode \in GRPCs \cup {0}
    /\ wsClose \in WSCodes \cup {0}
    /\ retry \in {"unset", "yes", "no"} /\ retryAfter \in Durations \cup {0}
    /\ stack \in BOOLEAN

KnownKindsAgree ==
    kind \in KnownKinds /\ httpStatus = 0 /\ grpcCode = 0 /\ wsClose = 0 =>
        LET server == HTTPStatus \in 500..599
            later  == HTTPStatus = 429
        IN  /\ server \/ HTTPStatus \in 400..499
            /\ server <=> GRPCCode \in {4, 13, 14}
            /\ later <=> GRPCCode = 8
            /\ WSClose = 1008 <=> ~server /\ ~later
            /\ server <=> kind \in serverFaultKinds
            /\ server <=> levelFor(HTTPStatus) = "error"
            /\ retry = "unset" /\ retryAfter <= 0 =>
                 (resolveRetry = "no" <=> ~server /\ ~later)
MaxCloseCode == 65535       \* what two bytes can hold
CloseCodes == 0..MaxCloseCode
CloseCodeSurvives == WSClose \in CloseCodes => closeBytes[1] * 256 + closeBytes[2] = WSClose
UnknownKindIsLoud ==
    kind \notin KnownKinds =>
        /\ httpStatus = 0 => HTTPStatus = 500 /\ levelFor(HTTPStatus) = "error"
        /\ grpcCode = 0 => GRPCCode = 13
        /\ wsClose = 0 => WSClose = 1011

\* Without overrides the five tables tell one story about every known Kind: a
\* 5xx is a server-side gRPC code, an 1011 or 1013 close, worth a stack and
\* logged as an error; a 4xx is none of these, and never retryable, unless it
\* is the rate limit, which asks to come back later on every transport.  A Kind
\* that was never given, or that no table knows, is loud: a server fault on
\* every transport that has no override of its own.  The close code, of a table
\* or an override, survives its two bytes in the close frame.
TablesTellOneStory == KnownKindsAgree /\ CloseCodeSurvives /\ UnknownKindIsLoud

\* A delay far enough from the largest Duration is shown as the least number of
\* whole seconds that covers it, so never as 0; no delay and a negative one are
\* shown as none.
RoundsUpExactly ==
    LET secs == retryAfterSeconds(retryAfter)
    IN  /\ retryAfter <= 0 => secs = 0
        /\ retryAfter \in 1..(MaxDuration - (Second - 1)) =>
             secs * Second >= retryAfter /\ (secs - 1) * Second < retryAfter

\* The delays that are too near the largest Duration to be rounded up.
RoundingOverflows == retryAfter > MaxDuration - (Second - 1)

\* Every delay that can be rounded up is told alike on every transport: body and
\* Retry-After header have the same seconds, and have any exactly for a positive
\* delay; gRPC has a RetryInfo exactly if there is a delay and the body says
\* retryable, of the header's seconds and never shorter than the delay.  For the
\* other delays the transports do not agree: the body says retryable, unless
\* Retry said not, after a negative number of seconds, and neither a header nor
\* a RetryInfo is sent.
RetrySignalsAgree ==
    IF RoundingOverflows
    THEN /\ bodyRetryAfter < 0 /\ retryAfterHeader = 0 /\ retryInfo = 0
         /\ retry # "no" => bodyRetryable = "yes"
    ELSE /\ bodyRetryAfter = retryAfterHeader
         /\ retryAfterHeader > 0 <=> retryAfter > 0
         /\ retryInfo > 0 <=> retryAfter > 0 /\ bodyRetryable = "yes"
         /\ retryInfo > 0 => retryInfo = retryAfterHeader * Second /\ retryInfo >= retryAfter

-----------------------------------------------------------------------------
(* What comments of the code say *)

\* retry.go: RetryAfterSeconds "rounds UP (a sub-second delay never reads as 0)".
EveryDelayRoundsUp == retryAfter > 0 => retryAfterSeconds(retryAfter) > 0
=============================================================================
