# Verification of herr

TLA+ models of `herr`, a Go error library in which one value carries a public
surface (what a client may see) and an internal one (what the logs get). The
core has no goroutines of its own, but it is used by many at once: errors of one
class share memory, three settings are process-wide, and rendering runs inside
request handlers that panic, write early and write twice. Next to that there is
plain sequential code whose hard part is exactness: caps that are counted in
three different ways, texts that are cut in bytes but made of runes, a template
scanner and a level policy that each exist in several copies, five tables that
must agree, rounding at the edge of a `time.Duration`.

The Go sources are the reference. Every operator and action is translated from
them; `PROJECT.json` ("map") gives the lines of each one. Code outside the
repository (`net/http`, `errors.As`/`errors.Is`, the logging libraries, the application) is modelled by
how the repository uses it and marked external there.

## The system

| Component | State | Operations | Talks to | What is hard | What makes it correct |
|---|---|---|---|---|---|
| Error value (`error.go`, `fields.go`, `field_errors.go`, `public.go`) | fields, pubMeta, children, cause, public, kind, overrides, retry | builder methods, each returning the receiver | everything | three caps with three ways of counting, a list cut at build and again at render | the log and the client see the first *max* entries and one marker |
| Catalog (`catalog.go`) | `Class` values with a shared `Metadata` map | `Define`, `(*Class).New`, `(*Class).Is` | every error it stamps out | memory shared by all goroutines, no locks | no race, no contamination, a class is immutable |
| Resolution (`localize.go`, `defaults.go`, `strict.go`, `template.go`) | three process-wide atomics | `SetLocalizer`, `SetDefaults`, `StrictMode`; reads while rendering | the application's `Localizer` | settings replaced between two reads of one render | every text follows the documented order under settings that were live |
| Wire (`wire.go`) | none | `wire`, `Body`, `MarshalJSON`, `mergedMetadata` | all of the above | funnels everything | total, and true to what was built |
| Matching (`match.go`, `multierror.go`) | none, it reads trees of errors | `Error.Is`, `Class.Is`, `aggregateChildren` | `errors.As`, `errors.Is` | several herr errors in a tree, typed nils | one answer for log and client |
| Log record (`log.go`) | none | `LogRecord`, `LogFields`, `Attrs` | the error, whose slice of fields it shares and whose cause it refers to | any error at all may arrive; it, and what it wraps, may be built on afterwards; field names are the caller's | fields as they were, same code as the body, two flat forms that agree |
| Log adapters (`adapter/*`) | a logger each | `New`, `Log` | slog, zap, logrus, zerolog | one policy in four copies | one entry, the same in every library but for what the cause says meanwhile |
| Kinds and codes (`kind.go`, `transport_codes.go`, `retry.go`, `stack.go`) | five constant tables | `Kind`, `Status`, `GRPC`, `WS`, `Retry`, `RetryAfter`, `WithStack` and the accessors | the transports | tables in different files, order of calls, integer edges | one story on every transport |
| HTTP (`httperr`) | the response of an exchange | `Write`, `Middleware` | `net/http`, the handler | a response can be committed only once; panics at any point | a safe 500 when it still can be one |
| gRPC (`grpcerr`) | none | `Status`, `UnaryServerInterceptor` | its library | an interceptor ends what the core knows of an error; advice on retrying | the status is about the error the log is about, and agrees with HTTP and the body |
| WebSocket (`wserr`) | none | `Close`, `ControlPayload` | its library | a byte limit on text of runes that went through JSON | a frame is always well-formed |
| Map localizer (`localizer/mapl`) | a table, copied from the application's | `New`, `Localize` | the core | the application keeps editing its table; a second copy of the scanner | answers from the table as it was, like the core |

## Modules

| Module | Models | Extended by |
|---|---|---|
| `ErrorBounds` | the growth of one error and what it renders of it | `MCErrorBounds`, `ErrorBoundsProofs` |
| `IsolatedErrors` | what the catalog promises, with values instead of memory | instantiated by `Catalog` |
| `Catalog` | classes, errors and the maps they share, many goroutines | `MCCatalog`, `CatalogProofs` |
| `Render` | renders while the settings change | `MCRender`, `RenderProofs` |
| `ErrorTree` | trees of errors, matching, log record, coercion | `ErrorTreeProofs` (runs as it is) |
| `TransportSignals` | kinds, codes, retry, stack | `MCTransportSignals`, `TransportSignalsProofs` |
| `HttpServer` | `Write` and nested `Middleware`s around a handler | `MCHttpServer`, `HttpServerProofs` |
| `Localize` | `localeFrom`, the map localizer, `Param`, both copies of `substitute` | `MCLocalize`, `MessagesAndLogsProofs` |
| `TextCaps` | `capStr`, `publicMessage`, `capReason` | `MCTextCaps`, `TextCapsProofs` |
| `Logging` | `LogRecord`, `LogFields`, `Attrs`, the four adapters | `MCLogging`, `MessagesAndLogsProofs` |

The modules divide the system by the question asked of it, and what one abstracts
another one models: an `Oversized` value of `ErrorBounds` is cut in `TextCaps`, a token
of `Render` is filled in `Localize`, the code and delay of a status in `ErrorTree` are
computed in `TransportSignals`, the record whose error `ErrorTree` finds is written out
in `Logging`, and a shape of error in `HttpServer` is what `TransportSignals` and `Render`
make of one.

Operators that begin with a comment `Mistake:` are deliberate errors used to see
that each property can fail; no action refers to them.

### ErrorBounds

The variables `fields`, `pubMeta`, `metadata`, `children` and `cause` are the
fields of `*Error` of those names; three history variables record the arguments
of the calls. An action is one builder call. `AppendCapped` is the shape that
`WithInternal` and `FieldError` share, `putPublic` is `WithPublic`'s map update
where only new keys meet the cap, and `fieldErrors` and `mergedMetadata` are
evaluated in every state, since an error may be rendered at any moment. A string
longer than 8 KiB is a member of `Oversized` and loses its tail to a flag.
Members of a wrapped aggregate are in `HerrMembers` when `errors.As` finds a herr
error in them.

`FieldsExact`, `ErrorsExact` and `MetadataExact` each say what the client or the
log is to see as a function of the *calls*, so that they relate the rendering to
the whole history. `MarkersAreFinal` is about steps.

### Catalog and IsolatedErrors

A Go map in a struct is a reference, so maps live in `heap`: `CallerMaps` are
those the application makes, and request `r`'s own `pubMeta` is at `r`. An access
to a map has a beginning and an end: `BeginWithPublic`/`EndWithPublic`,
`BeginEdit`/`EndEdit`, and `CopyStatic` and `CopyOwn` for the two range loops of
`mergedMetadata`. `pc` says which map a request is inside. Overlapping accesses
have no defined outcome in Go, so none is modelled: `NoDataRace` says they do not
happen. The application obeys the immutability contract of `catalog.go` unless
`CallerReuses`: it does not edit a map that a class or an error refers to.

`IsolatedErrors` has no memory: a class and an error are values. `Catalog`
implements it with the refinement mapping that reads each reference
(`ImplementsIsolated`).

### Render

One action per read of a setting: `LoadLocalizer` is the atomic load that both
the nil check and the call use, `Scan` handles one template token and reads the
strict flag for each missing parameter, `Floor` loads the overrides. Between any
two of them `SetLocalizer`, `SetDefaults`, `StrictMode` or an edit of the map
given to `SetDefaults` may happen. `params` of an error gives the text that each of its
parameters prints, which may be none at all: like a missing one, an empty parameter
leaves `Gone` in its place (`printed`). `seen` collects the settings that were live
while the current text was being resolved; `EveryTextJustified` requires each
finished text to be what the documented order gives for some of them.

### ErrorTree

A node is a plain error, a herr error, a typed nil `*Error`, an `fmt.Errorf`
wrapper, a join, or the gRPC status that an interceptor made of an error. `as` and
`is(t)` are `errors.As` and `errors.Is` for target `t` as recursive functions of the node;
a question to a typed nil that reads a field is the answer "panic". `Wrap` excludes
cycles by its guard, which the code does not (see below).

`Intercept` is `UnaryServerInterceptor`: of the error it is given, only the status goes
on, with no way back to the error, so that a second interceptor, or a handler that
passes a status on, coerces it anew. `origin` remembers the error for
`StatusMatchesTheLog`: what a client is told with a status is what the log has of the
same error, however it was wrapped, and a status of a status is an `INTERNAL` one.

### TransportSignals

`table` is `kindHTTP`, `kindGRPC`, `kindWS` and `kindRetry` side by side. Durations are
the integers from `-(MaxDuration + 1)` to `MaxDuration`, with `Second` units to a second,
and wrap as Go's do (`math.MaxInt64` and 1e9 there); the operators that say what a
transport sends are evaluated in every state. `RetrySignalsAgree` has two cases: of a delay
that can be rounded up to seconds all transports tell the same, and of one within a second
of the largest Duration (`RoundingOverflows`) it says what each of them tells, which is not
the same.

### HttpServer

`pc` walks through the handler and `Write`; `sent` is what `net/http` has
committed, `body` the documents written after it. A panic sets `pc` to
"unwinding" and the innermost `Middleware` that is left recovers it with a `Write`
of its own, which can panic again. An error whose rendering fails has a metadata
value that `encoding/json` refuses, one whose rendering panics has a metadata
value whose own marshaller does; `breaks` is a `Localizer` that panics. `header` is kept
across a recovery, as the header map of a `ResponseWriter` is: `DelayIsOfItsOwnError`
says when the `Retry-After` a client gets is not that of the error it gets, and
`PanicsAreAnswered` what a client gets of a handler that panics.

### Localize

One request: the client's languages become a header (`Format`), the header a locale
(`localeFrom`), and the message is filled either by the core, from the error's own
words, or by mapl, from a translation. `New` copies the outer map and the inner maps
out of the application's, which goes on editing both; maps are references into
`heap`. The two `substitute` functions are one set of actions with `scanner` for the
difference between them, one action per turn of the loop; `ScanIsExact` compares
the result with a definition of what a placeholder is that has no scan in it.
A text is a sequence over `Chars`; the characters that the code looks for have names
(`OpenBrace`, `Comma`, ...), the others are any.

### TextCaps

A text is a sequence of bytes of which only the width of the rune they start, or
that they continue one, is known; any sequence is allowed, as in a Go string. The
loop that looks for a boundary is one action per byte. `publicMessage` replaces
each byte that is part of no whole rune, as `encoding/json` does. `HandOn` gives
the result of one `capStr` to a second one.

### Logging

The fields of the error are a slice that a record shares up to its own length,
`rec.n`; the error may be built on before, between and after the adapters' writes, and so
may the herr error that it wraps (`BuildOnCause`). The record's cause is a reference:
`says` is what `Error()` of each cause returns at the moment, every adapter asks for it when
it writes, and `said` remembers what it was told.

Each adapter has a list of its own (`slogAttrs`, `zapFields`, `zerologFields`,
`logrusFields`). A list of attributes and a map are compared through `bindings`, what a
reader makes of repeated keys. `AdaptersAgree` holds every entry against `LogFields` and
`Attrs` of the record, with the fields it was taken with and the cause as it read at that
write (`AsLogFields`), and every two entries against each other: they may differ in the text
of the cause, if the wrapped error was built on between the two writes, and in nothing else
(`TellTheSame`). A logger is the set of levels it keeps. `part` and `putAll` are the
attributes that are set and the map made of them, `written` is what an adapter's library
writes. The specification is called `LogSpec`, its parts `LogInit` and `LogNext`, so that
one proof module can extend `Localize` and `Logging`.

## Runs

All instances are finite because of the bounds named here; deadlock checking is
off where a finished chain, cut, record or exchange has nothing left to do, and on in
`TransportSignals`, where every builder method is always possible, and in `Render` and
`Localize`, where the application can always change a setting or its table.

| Run | Instance | Shows |
|---|---|---|
| `errorbounds_small` | caps 2, chains of 4 capped calls (`MaxCalls`), 3 keys, 2 values, 2 triples, 5 causes, any number of `Wrap` and `Public` | every channel reaches its cap, its marker and one call beyond it; aggregates hold more members than fit |
| `catalog_shared` | 1 class, 2 requests, 2 maps, 1 key, 2 values | isolation, no race, refinement, a reassigned literal leaves the class alone; symmetric in the requests |
| `render_settings` | 6 errors (one per way to resolve a message or to leave it blank, two with a child), 2 localizers, 2 override maps | resolution under changing settings, and termination |
| `errortree_tree` | 4 nodes (`MaxNodes`), 2 codes | matching, coercion and interception of all trees of that size |
| `transportsignals_signals` | all 10 Kinds and an unknown one, 2 overrides each, durations from -16 to 15 with 4 units to a second | tables, overrides, rounding, retry, close bytes |
| `httpserver_exchange` | 2 Middlewares, 3 handler actions (`MaxSteps`), 8 error shapes, both kinds of localizer | what a client gets |
| `localize_messages` | templates of up to 4 characters out of `{ } a b`, 2 parameter names (one empty) with 2 values that hold braces, lists of up to 2 languages of 24 shapes, 1 locale | locale, lookup and scan under a table that is edited |
| `textcaps_cuts` | texts of up to 5 bytes of 5 kinds, a cap of 4, a marker of 5 bytes | both cuts, of valid and invalid text, and the second cut |
| `logging_sinks` | 3 errors, 2 fields (`MaxFields`) named like parts of the record, 1 status to change to, 2 causes, one of which is built on, with 2 texts, one kind of logger out of 3 for all adapters; symmetric in values and texts | four adapters on one record, each at its own moment |

Why the bounds are enough. A cap only distinguishes below, at and above: with a
cap of 2 a chain of 4 is at each of them for any one channel. Two requests are
enough for a race or a contamination, which take a writer and one victim. One
render at a time is enough in `Render`: a render reads settings and writes nothing
that another one reads. Trees of 4 nodes hold two herr errors under a join, or a
herr error and a typed nil under two wrappers. Two Middlewares let one recover
the other's recovery. In `TransportSignals` a duration matters by its sign, its
remainder modulo a second and its distance from the largest value, and the chosen
ones cover all three. Four characters hold every order of two placeholders'
braces; two texts of a cause are enough for one that changed between two writes and for one
that changed back; a rune has at most 4 bytes, so with a cap of 4 the search can back up as far as
any search does; two fields can have the name of the same part, or of one another.

### Where a comment and the code disagree

Each of these is a run of its own, which ends in a counterexample.

| Run | Property | Disagreement |
|---|---|---|
| `catalog_reuse` | `ClassFrozen` | `Define`'s copy is shallow: editing the literal's `Metadata` map changes the class (`catalog.go:33`) |
| `errortree_class_is` | `ClassIsFindsAnywhere` | `Class.Is` sees the first herr error only, not "anywhere in its wrapped chain" (`match.go:20`) |
| `transportsignals_overflow` | `EveryDelayRoundsUp` | rounding up overflows near the largest Duration (`wire.go:74`) |

Others became plain while modelling and have no run, because they follow at once
from one action, or because a property that holds says exactly where they occur:

- `log.go:36-38` has `LogRecord` take any error; of a typed nil `*Error` it panics, and of
  nothing else (`PanicsOnlyOnTypedNil`).
- `localize.go:74` has a body that is never blank; a message of nothing but placeholders,
  each without a parameter or with one that prints nothing, is blank, and of the messages
  that are neither translated nor overridden no other one (`BlankOnlyByRequest`).
- `httperr.go:52-53` has a connection that is not dropped; a `Localizer` that panics does
  so in the recovery too, and is the only thing that does (`PanicsAreAnswered`).
- `httperr.go:52-55`: a panic after the first byte cannot become the promised 500, since
  `net/http` ignores the second `WriteHeader` (`afterWriteHeader`).
- `httperr.go:23` has `Write` return "the status code it wrote"; a second `Write` returns a
  status that was never sent.
- `httperr.go:86-87` calls the first listed tag the "highest client preference"; a header
  may give it a lower weight than a later one, and the weights are not read.
- `mapl.go:59-62` has a scanner that "mirrors the herr core's own substituter exactly"; the
  core's shows a missing parameter under `StrictMode`, mapl's never does (`filled`).
- `error.go:98-99` has transports inject a trace id and `README.md:166` has one auto-log; no
  transport does either, and `NewTraceID` and `Logger.Log` are called by nothing in `src/`.
- `grpcerr.go:28-31`: under two interceptors the client gets `INTERNAL`, not the code of the
  error (`StatusMatchesTheLog`).
- `retry.go:47` has a delay imply a retry; `Retry(RetryNo)` with `RetryAfter` renders a delay
  and says not to retry.
- `log.go:21` has stacks on server faults only; `New(code).WithStack().Kind(KindNotFound)`
  logs one with a client error.

## Fairness

`Render` assumes weak fairness of each render's steps: a goroutine that can run is
eventually scheduled. Nothing is assumed about the settings, so `EveryRenderEnds`
also covers a process that changes them for ever. `HttpServer` assumes weak fairness
of the exchange as a whole: its goroutine runs on, and the handler, which is
bounded by `MaxSteps`, returns or panics in the end. `Localize` assumes weak fairness of
`Step`, the goroutine that answers the request, and none of the application's edits
or of further calls of `Param`; the latter end when the lookup begins, so
`EveryMessageEnds` rests on the scan alone. `ErrorBounds`, `Catalog`, `ErrorTree`,
`TransportSignals`, `TextCaps` and `Logging` state safety only: nothing there has to
happen.

## Proofs

Checked by TLAPS for every value of the constants, under the assumptions named in
the modules.

`ErrorBoundsProofs`:

- `TypeCorrect`: `Spec => []TypeOK`; `TypeOK` is inductive as it stands.
- `FieldsAreExact`: `Spec => []FieldsExact`. The inductive invariant is `ListInv`, which
  adds to it that `children` is a bounded view of the calls of `FieldError`. The step
  rests on the lemma `AppendCappedKeepsView`, about sequences over any set.
- `TwoCapsActAsOne`: for every sequence of promoted entries, what the client sees of
  `errors[]` is one cut of the explicit and the promoted entries together. It follows
  from `ListInv` with the lemma `TruncateTwiceIsOnce`: cutting at render time what was
  already cut at build time is the same as cutting once, since the build-time marker
  stands at the very position that the render-time cut replaces.
- `ErrorsAreExact`: `Spec => []ErrorsExact`. To the above it adds `LoopIsRight`: after any
  number of members the loop of `fieldErrors` has collected the herr errors among them,
  each at the place that the number of herr errors up to it says, and nothing else. The
  loop is a recursive function of that number, and the proof an induction over it.
- `MarkersStayFinal`: `Spec => MarkersAreFinal`, from `TypeOK` and `MetaInv` (the map of
  `WithPublic` is finite, and holds its marker only when it is at the cap; without
  that a new key could still join after the marker).
- `MetadataIsExact`: `Spec => []MetadataExact`. The inductive invariant is `KeptInv`: the map
  holds exactly the kept keys, each with the value of its last call, and the marker iff
  some key of the calls was not kept. Its step rests on the lemma `OneMoreCall`, which says
  how the keys, the kept keys and the last calls change when a call is appended.

The assumptions are that the caps are natural numbers, that a wrapped aggregate has
finitely many members, that an entry has the three fields of `wireFieldError`, and that
callers do not use the marker names as keys.

`CatalogProofs`, each but the last for `CallerReuses = FALSE`, the immutability contract:

- `CatalogInvHolds`: the inductive invariant. Its core is `NoSharedEdit` (the application
  is never inside a map that a class or an error refers to; `Isolation` alone is not
  inductive, since an edit that had begun before a map became shared would end in it)
  and `Faithful` (an error reads as it was promised, and its own map is what was added,
  apart from the entry that is being written).
- `ErrorsAreIsolated` (`Isolation`), `NoRaceOnAnyMap` (`NoDataRace`), `ClassesStayFrozen`
  (`ClassFrozen`).
- `CatalogImplementsValues`: `Spec => ImplementsIsolated`, the refinement for every size:
  initial states map to initial states, and each step to a step of `IsolatedErrors` or to
  a stutter. The edits of the application stutter because its maps are not shared, and of
  the several steps of a `WithPublic` and of a render only the last one shows. `CopyInv`
  adds what a render under way has copied so far. It assumes that `None` is not the
  surface of an error.
- `TypeCorrect`: `Spec => []TypeOK`, with the contract or without it. `Stage` ties what a
  request is in the middle of to what it must have by then: an entry is written only when
  there is one and a map of the error's own to put it in.

`TextCapsProofs`:

- `TypeCorrect`: `Spec => []TypeOK`; in particular the search never looks beyond the text.
- `TheCutIsLongest`: `Spec => []CutIsLongest`. The inductive invariant `CutInv` adds
  `NoneSkipped`: between the cut and the cap there is no boundary, which the loop has
  seen one byte at a time and `CutIsLongest` needs when it ends.
- `NoRuneIsSplit`: `Spec => []RunesStayWhole`. Values, cut and marked, rest on
  `BoundaryKeepsValid` (what ends on a boundary of valid text is valid), `ValidConcat` and
  `BoundaryIsNear` (a boundary is at most three bytes back). The reason of a close frame
  rests on `MessagesAreValid`: whatever bytes a message has, what JSON makes of it is valid,
  since each byte that belongs to no whole rune is replaced and the others keep the rune
  they belong to. `RuneInv` carries this from the cut to the end of a behaviour.
- `RecappingStable`: `Spec => []RecappingIsStable`, from `SecondCut`, which compares the
  place of the second cut with that of the first, for any marker that begins with a rune of
  three bytes, as `truncMarker` does (`MarksAssumption`).

`HttpServerProofs`, for any number of `Layers`, any set of `Causes` and any `MaxSteps`:

- `TypeCorrect`: `Spec => []TypeOK`, inductive as it stands.
- `EveryPanicIsAnswered`: `Spec => []PanicsAreAnswered`. The property says what the client
  has in the end; the inductive invariant is what leads there. `RecoveryInv`: until the
  first recovery all Middlewares are left, and with a working `Localizer` the `Write` of a
  recovery, whose error is always the PANIC one, does not panic, so one Middleware is
  enough.
  `EarlyInv`: after an early panic nothing is committed before that `Write` commits, and
  then status 500, JSON and, after the body, exactly one document are there. The proof
  uses of `net/http` only `CommitsHeads`: the first final status stays. It assumes that
  `None` is no error and no response head, and that the codes INTERNAL and PANIC are
  among `Codes`.
- `DelaysAreOwned`: `Spec => []DelayIsOfItsOwnError`. The inductive invariant `DelayInv`
  says whose delay the header holds at each step of `Write`: that of the error whose
  status is about to be written, or of one whose status can commit nothing. The lemma
  `ImplicitOwners` covers the 200 that `net/http` commits by itself.
- `SingleWritesArrive`: `Spec => []SingleWriteArrives`. `SingleInv` follows the only call of
  `Write` from its error to what is sent: its delay is in the header before the status is
  written, and its status is committed before its document.

`RenderProofs`, for any set of renders, errors, translations and overrides:

- `TypeCorrect`, `NilIsNeverAsked` (`NoNilLocalizerCall`), `TextsAreJustified`
  (`EveryTextJustified`) and `BlanksAreRequested` (`BlankOnlyByRequest`), all from one
  inductive invariant, `RInv`. It says that the installed settings are among those the
  current slot has seen (`Live`) and that those could be installed (`Possible`); that the
  place of a render tells which steps of the resolution order it has taken, and why they
  did not answer (`WhereInv`); and that what is written of a text is what its template
  reads so far (`Scanned`). The assumption is that a template is a sequence of literal
  and placeholder tokens.

`TransportSignalsProofs`, for every number of units in a second that is at least 2, every
`MaxDuration` of two seconds or more, and any overrides:

- `TypeCorrect`: inductive as it stands.
- `TablesAreOneStory` (`TablesTellOneStory`), over the ten rows of `table` and the unknown
  Kind; that every close code survives its two bytes is arithmetic (`TwoBytes`).
- `DelaysRoundUp` (`RoundsUpExactly`) and `TransportsAgreeOnRetry` (`RetrySignalsAgree`).
  Both rest on `CeilingOrOverflow`: rounding a Duration up to seconds either gives its
  ceiling or wraps once, to a negative number of seconds, and which of them depends on its
  distance from `MaxDuration` alone. With less than two seconds to a Duration a wrapped
  delay could be cut to 0.

`ErrorTreeProofs`, for trees of any number of nodes (`MaxNodes`) and any codes:

- `TreesStayTrees`: the inductive invariant `IInv`. It says that the nodes can be ranked so
  that what an error wraps is of a lower rank (`Acyclic`), and that a status has the code of
  the error it was made of, now and not only when it was made. For the latter, a
  later `Wrap` inside that error must not change what `errors.As` finds in it (`AsStays`);
  for the former, `Wrap` lifts everything that reaches the wrapper above its new cause.
- `PanicsAreTypedNils` (`PanicsOnlyOnTypedNil`), `ClassMatchesAreMatches`
  (`ClassIsIsSound`), `WrappersChangeNothing` (`WrappersAreTransparent`) and
  `ClientsAndLogsAgree` (`StatusMatchesTheLog`), each from `IInv`. `as`, `is(t)` and
  `Error()` are recursive functions over a tree; `Recursion` says that such a definition
  has a value where the nodes are ranked, and `TreeInduction` proves of all nodes what goes
  up from the wrapped to the wrapper. The assumption is that `None` is no node.

`MessagesAndLogsProofs`, about `Localize`, for templates, tables and headers of any length:

- `TablesAreFrozen`: `Spec => []TableIsFrozen`. The inductive invariant `OwnMapsInv` says
  that the localizer refers to inner maps of its own only, and that they hold what the
  application's held at `New`; since the two sorts of maps are apart (`MapsApart`), no
  edit can change them.
- `ScansStayInside`: `Spec => []TypeOK`. `PlaceInv` says that the scan has a place in its
  template, `TextsInv` that everything a lookup can find is a text.
- `ScansAreExact`: `Spec => []ScanIsExact`. `ScanInv`: what the scan has copied is what
  stands, in the reference definition, for the characters before its place, and no
  placeholder reaches over that place. Each turn of the loop is one of three lemmas:
  `PlainPiece`, `TailPiece`, `FilledPieces`.
- `FirstLanguageIsTaken`: `Spec => []FirstLanguageWins`. `FormatSplits` says what stands in
  front of the first separator of a header, `BeforeSeparator` and `BetweenSpaces` what
  the cuts and the trimming leave of it.

and about `Logging` (`LogSpec`), for any fields, loggers and orders of writing:

- `RecordsAreSnapshots`: `LogSpec => []RecordIsASnapshot`, which is about the fields. The slice that the record shares
  with its error never gets shorter than `rec.n` (`SnapInv`), and an append shows in no
  prefix (`AppendKeepsPrefix`).
- `OneEntryEach` (`OneEntryPerRecord`) and `AllAdaptersAgree` (`AdaptersAgree`). `LogInv` adds
  that what an adapter has written is the entry of the record with the cause it was told;
  the rest is about lists of pairs: `LastValueStays` (assigning them to a map leaves the
  last value of each key), `OneMoreName` (a stack among them changes no other key) and
  `SameButCauseReads` (lists that differ in the cause alone are read alike but for it).

The induction theorems of the library take an operator as a parameter and cannot be used.
Where an induction is needed, over a template, an aggregate, a list of pairs or a tree, it
is one over sets: a set of naturals has a least element (`Least`, `SetInduction`, from
`WFMin` of the library). This is also how `FlattenSeq`, which the library defines by a
recursive function, is reasoned about (`FlattensExists`, `FlattensUnique`,
`FlattenOneMore`); these lemmas are stated in both modules that need them, `TextCapsProofs`
and `MessagesAndLogsProofs`, whose components have no module in common.

Every safety property that a passing run checks is proved. Only model-checked are the
three liveness properties (`EveryRenderEnds`, `EveryExchangeEnds`, `EveryMessageEnds`):
they need fairness and `ENABLED`.

## Not modelled

- Layout: JSON field names, `omitempty` and the order of keys; the format of a stack; the
  wording of the default messages.
- `NewTraceID` (random bytes, called by nothing) and `Trace`, `Title` and `Message`, one
  assignment each that nothing reads before the render.
- A cycle made by wrapping an error in itself, on which `errors.Is` does not end: `Wrap`
  of `ErrorTree` excludes it.
- One error extended by several goroutines: the contract is one goroutine per error.
- Values that are themselves references. A parameter is printed when the error is rendered
  and the value of a field when a library writes it; a caller that changes what they point
  to in between is not modelled, the text of a cause excepted.
- Bytes from 0xF5 on, which begin no valid rune, and sequences that are longer than they need to
  be: a byte of `TextCaps` starts a rune of one to four bytes or continues one. Both kinds of
  text are as invalid as a rune cut short, which is modelled.
- The inside of the logging libraries: a level filter and an append, which is all that
  the adapters rely on.

## Plan

1. Done: all the modules above, their runs, and the proofs listed above.
2. Proofs: every safety property of the passing runs is proved. What is left is what
   liveness rests on and can be stated as safety: that each turn of the scan of `Localize`
   and of the search of `TextCaps` comes nearer to its end, that recoveries in
   `HttpServer` use up a layer each, and that a render never goes back in its order.
