----------------------- MODULE TransportSignalsProofs -----------------------
(* What an error signals, for every Duration type, every set of arguments     *)
(* and every order of the builder calls.                                     *)
EXTENDS TransportSignals, TLAPS

\* Each builder method stores its own argument, whatever was called before.
THEOREM TypeCorrect == Spec => []TypeOK
<1>1. Init => TypeOK
    BY DEF Init, TypeOK, Kinds, KnownKinds, table
<1>2. TypeOK /\ [Next]_vars => TypeOK'
    BY DEF TypeOK, Next, vars, Kind, Status, GRPC, WS, Retry, RetryAfter, WithStack
<1> QED
    BY <1>1, <1>2, PTL DEF Spec

-----------------------------------------------------------------------------
(* Arithmetic of Durations *)

\* Division rounds down.
LEMMA Division ==
    ASSUME NEW a \in Nat, NEW b \in Nat \ {0}
    PROVE  /\ a \div b \in Nat
           /\ (a \div b) * b <= a /\ a < (a \div b) * b + b
    OBVIOUS

\* What is a Duration does not wrap.
LEMMA NoWrap ==
    ASSUME NEW d \in -(MaxDuration + 1)..MaxDuration
    PROVE  wrap(d) = d
    BY DurationsAssumption DEF wrap

\* What is a little too large wraps to a negative Duration.
LEMMA WrapsOnce ==
    ASSUME NEW d \in (MaxDuration + 1)..(2 * MaxDuration + 1)
    PROVE  wrap(d) = d - 2 * (MaxDuration + 1)
    BY DurationsAssumption DEF wrap

\* Of a delay: its whole seconds are its ceiling, and negative where rounding up
\* overflows.
LEMMA CeilingOrOverflow ==
    ASSUME NEW d \in 1..MaxDuration
    PROVE  LET secs == retryAfterSeconds(d)
           IN  /\ secs \in Int
               /\ d <= MaxDuration - (Second - 1) =>
                    /\ secs \in Nat \ {0} /\ secs * Second <= MaxDuration
                    /\ secs * Second >= d /\ (secs - 1) * Second < d
               /\ d > MaxDuration - (Second - 1) => secs < 0
<1> DEFINE a == d + Second - 1
<1>0. /\ MaxDuration \in Nat /\ Second \in Nat /\ 2 <= Second /\ Second <= MaxDuration
      /\ Second + Second <= MaxDuration
    BY DurationsAssumption
<1>1. CASE d <= MaxDuration - (Second - 1)
    <2>1. wrap(a) = a /\ a \in Nat
        BY <1>0, <1>1, NoWrap
    <2> DEFINE secs == a \div Second
    <2>2. retryAfterSeconds(d) = secs
        BY <2>1 DEF retryAfterSeconds, truncatedDiv
    <2>3. secs \in Nat /\ secs * Second <= a /\ a < secs * Second + Second
        BY <1>0, <2>1, Division
    <2> HIDE DEF secs
    <2>4. (secs - 1) * Second = secs * Second - Second
        BY <1>0, <2>3
    <2>5. secs # 0
        BY <1>0, <2>3
    <2>6. secs * Second \in Nat
        BY <1>0, <2>3
    <2> QED
        BY <1>0, <1>1, <2>2, <2>3, <2>4, <2>5, <2>6
<1>2. CASE d > MaxDuration - (Second - 1)
    <2> DEFINE w == a - 2 * (MaxDuration + 1)
    <2>1. wrap(a) = w /\ -w \in Nat /\ Second < -w /\ w < 0 /\ w \in Int
        BY <1>0, <1>2, WrapsOnce
    <2> HIDE DEF w, a
    <2>2. retryAfterSeconds(d) = -((-w) \div Second)
        BY <2>1 DEF retryAfterSeconds, truncatedDiv, a
    <2> DEFINE q == (-w) \div Second
    <2>3. q \in Nat /\ -w < q * Second + Second
        BY <1>0, <2>1, Division
    <2> HIDE DEF q
    <2>4. q # 0
        BY <1>0, <2>1, <2>3
    <2>5. retryAfterSeconds(d) = -q
        BY <2>2 DEF q
    <2> QED
        BY <1>0, <1>2, <2>3, <2>4, <2>5
<1> QED
    BY <1>0, <1>1, <1>2

-----------------------------------------------------------------------------
(* The safety properties: each holds in every well-typed state. *)

\* A delay is an argument of RetryAfter, or not set.
LEMMA DelayIsADuration ==
    ASSUME TypeOK
    PROVE  retryAfter \in -(MaxDuration + 1)..MaxDuration
BY DurationsAssumption DEF TypeOK

\* The rows of the table.
RowIs(k, http, grpc, ws, again) ==
    \/ k = "internal" /\ http = 500 /\ grpc = 13 /\ ws = 1011 /\ again = "unset"
    \/ k = "invalid" /\ http = 400 /\ grpc = 3 /\ ws = 1008 /\ again = "no"
    \/ k = "unauthorized" /\ http = 401 /\ grpc = 16 /\ ws = 1008 /\ again = "no"
    \/ k = "forbidden" /\ http = 403 /\ grpc = 7 /\ ws = 1008 /\ again = "no"
    \/ k = "notFound" /\ http = 404 /\ grpc = 5 /\ ws = 1008 /\ again = "no"
    \/ k = "conflict" /\ http = 409 /\ grpc = 10 /\ ws = 1008 /\ again = "no"
    \/ k = "rateLimited" /\ http = 429 /\ grpc = 8 /\ ws = 1013 /\ again = "yes"
    \/ k = "timeout" /\ http = 504 /\ grpc = 4 /\ ws = 1011 /\ again = "yes"
    \/ k = "unavailable" /\ http = 503 /\ grpc = 14 /\ ws = 1013 /\ again = "yes"
    \/ k = "unprocessable" /\ http = 422 /\ grpc = 3 /\ ws = 1008 /\ again = "no"

\* The table has these rows and no other.
LEMMA TableRows ==
    ASSUME NEW k \in KnownKinds
    PROVE  RowIs(k, table[k].http, table[k].grpc, table[k].ws, table[k].retry)
BY DEF KnownKinds, table, row, RowIs

twoBytes(n) == <<(n \div 256) % 256, n % 256>>
BytesHold(n) == n \in CloseCodes => twoBytes(n)[1] * 256 + twoBytes(n)[2] = n

\* Two bytes hold a code of 16 bits.
LEMMA TwoBytes == \A n : BytesHold(n)
<1> SUFFICES ASSUME NEW n, n \in CloseCodes
             PROVE  twoBytes(n)[1] * 256 + twoBytes(n)[2] = n
    BY Zenon DEF BytesHold
<1>1. n \in Nat /\ n <= 65535
    <2>1. MaxCloseCode \in Nat
        BY DEF MaxCloseCode
    <2>2. n \in Nat /\ n <= MaxCloseCode
        BY <2>1 DEF CloseCodes
    <2> QED
        BY <2>2 DEF MaxCloseCode
<1>2. n \div 256 \in Nat /\ n \div 256 <= 255
    BY <1>1
<1>3. (n \div 256) * 256 + (n % 256) = n
    BY <1>1
<1>4. (n \div 256) % 256 = n \div 256
    BY <1>2
<1> QED
    BY <1>3, <1>4 DEF twoBytes

\* Without overrides the tables of the Kinds tell one story, an unknown Kind is
\* a server fault, and a close code survives its two bytes.
THEOREM TablesAreOneStory == Spec => []TablesTellOneStory
<1>1. TypeOK => KnownKindsAgree
    <2> SUFFICES ASSUME TypeOK, kind \in KnownKinds, httpStatus = 0, grpcCode = 0, wsClose = 0
                 PROVE  KnownKindsAgree
        BY DEF KnownKindsAgree
    <2>1. HTTPStatus = table[kind].http /\ GRPCCode = table[kind].grpc
          /\ WSClose = table[kind].ws
        BY DEF HTTPStatus, GRPCCode, WSClose
    <2>2. retry = "unset" /\ retryAfter <= 0 => resolveRetry = table[kind].retry
        <3>1. ASSUME retryAfter <= 0 PROVE ~(retryAfter > 0)
            BY <3>1, DelayIsADuration, DurationsAssumption
        <3> QED
            BY <3>1 DEF resolveRetry
    <2>3. RowIs(kind, HTTPStatus, GRPCCode, WSClose, table[kind].retry)
        BY <2>1, TableRows
    <2> QED
        BY <2>2, <2>3 DEF KnownKindsAgree, RowIs, serverFaultKinds, levelFor
<1>2. CloseCodeSurvives
    <2>1. closeBytes = twoBytes(WSClose)
        BY DEF closeBytes, twoBytes
    <2>2. BytesHold(WSClose)
        BY TwoBytes
    <2> QED
        BY <2>1, <2>2 DEF CloseCodeSurvives, BytesHold
<1>3. UnknownKindIsLoud
    BY DEF UnknownKindIsLoud, HTTPStatus, GRPCCode, WSClose, levelFor
<1> QED
    BY <1>1, <1>2, <1>3, TypeCorrect, PTL DEF TablesTellOneStory

\* Every delay that does not overflow is shown as the least number of whole
\* seconds that covers it.
THEOREM DelaysRoundUp == Spec => []RoundsUpExactly
<1>1. TypeOK => RoundsUpExactly
    <2> SUFFICES ASSUME TypeOK PROVE RoundsUpExactly
        OBVIOUS
    <2>1. retryAfter <= 0 => retryAfterSeconds(retryAfter) = 0
        BY DEF retryAfterSeconds
    <2>2. ASSUME retryAfter \in 1..(MaxDuration - (Second - 1))
          PROVE  LET secs == retryAfterSeconds(retryAfter)
                 IN  secs * Second >= retryAfter /\ (secs - 1) * Second < retryAfter
        <3>1. retryAfter \in 1..MaxDuration /\ retryAfter <= MaxDuration - (Second - 1)
            BY <2>2, DurationsAssumption
        <3> QED
            BY <3>1, CeilingOrOverflow
    <2> QED
        BY <2>1, <2>2 DEF RoundsUpExactly
<1> QED
    BY <1>1, TypeCorrect, PTL

\* Every transport tells the same about retrying for every delay that can be
\* rounded up, and the body alone tells of the others, of which it says a
\* negative number of seconds.
THEOREM TransportsAgreeOnRetry == Spec => []RetrySignalsAgree
<1>1. TypeOK => RetrySignalsAgree
    <2> SUFFICES ASSUME TypeOK PROVE RetrySignalsAgree
        OBVIOUS
    <2> DEFINE secs == retryAfterSeconds(retryAfter)
    <2>1. /\ retryInfo = IF resolveRetry # "yes" \/ secs <= 0 THEN 0 ELSE wrap(secs * Second)
          /\ retryAfterHeader = IF secs > 0 THEN secs ELSE 0
          /\ bodyRetryAfter = secs /\ bodyRetryable = resolveRetry
        BY DEF retryInfo, retryAfterHeader, bodyRetryAfter, bodyRetryable
    <2>2. CASE retryAfter <= 0
        <3>1. ~RoundingOverflows /\ ~(retryAfter > 0)
            BY <2>2, DelayIsADuration, DurationsAssumption DEF RoundingOverflows
        <3>2. secs = 0
            BY <2>2 DEF retryAfterSeconds
        <3> HIDE DEF secs
        <3> QED
            BY <2>1, <3>1, <3>2 DEF RetrySignalsAgree
    <2>3. CASE retryAfter > 0 /\ ~RoundingOverflows
        <3>1. /\ secs \in Nat \ {0} /\ secs * Second <= MaxDuration /\ secs * Second >= retryAfter
              /\ retryAfter \in Nat \ {0}
            BY <2>3, DelayIsADuration, CeilingOrOverflow, DurationsAssumption DEF RoundingOverflows
        <3> HIDE DEF secs
        <3>2. secs * Second \in Nat
            BY <3>1, DurationsAssumption
        <3>3. wrap(secs * Second) = secs * Second
            <4>1. secs * Second \in -(MaxDuration + 1)..MaxDuration
                BY <3>1, <3>2, DurationsAssumption
            <4> QED
                BY <4>1, NoWrap
        <3>4. secs * Second > 0 /\ secs > 0 /\ ~(secs <= 0)
            BY <3>1, <3>2
        <3> QED
            BY <2>1, <2>3, <3>1, <3>3, <3>4 DEF RetrySignalsAgree
    <2>4. CASE RoundingOverflows
        <3>1. retryAfter \in 1..MaxDuration /\ retryAfter > MaxDuration - (Second - 1)
            BY <2>4, DelayIsADuration, DurationsAssumption DEF RoundingOverflows
        <3>2. secs \in Int /\ secs < 0
            BY <3>1, CeilingOrOverflow
        <3> HIDE DEF secs
        <3>3. secs <= 0 /\ ~(secs > 0)
            BY <3>2
        <3>4. retry # "no" => resolveRetry = "yes"
            <4>1. retry \in {"unset", "yes", "no"} /\ retryAfter > 0
                BY <3>1 DEF TypeOK
            <4> QED
                BY <4>1 DEF resolveRetry
        <3> QED
            BY <2>1, <2>4, <3>2, <3>3, <3>4 DEF RetrySignalsAgree
    <2>5. ~(retryAfter <= 0) => retryAfter > 0
        BY DelayIsADuration, DurationsAssumption
    <2> QED
        BY <2>2, <2>3, <2>4, <2>5
<1> QED
    BY <1>1, TypeCorrect, PTL
=============================================================================
