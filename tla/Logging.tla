------------------------------ MODULE Logging ------------------------------
(***************************************************************************)
(* From an error to the lines in the logs: LogRecord takes the record of an *)
(* error, LogFields and Attrs flatten it, and four adapters each write it   *)
(* to their own library, as a list of attributes or as a map.  The record's *)
(* Fields is the slice of the error itself, which goes on growing; names of *)
(* internal fields are the caller's and may be those of the record's parts. *)
(* Its Cause is the wrapped error itself, not its text: everyone who writes  *)
(* calls Cause.Error() for himself, and a herr error that was wrapped may    *)
(* be built on at any time.                                                *)
(*                                                                         *)
(* A part of an error that is not set is Empty.  A logger is known by the   *)
(* levels it keeps; what a library does with an entry it keeps is append it *)
(* to its stream.                                                          *)
(***************************************************************************)
EXTENDS Integers, Sequences

CONSTANTS
    Parts,      \* what Internal, Trace, Wrap and WithStack may have left, see LogInit
    Texts,      \* arguments of Internal
    Statuses,   \* statuses an error resolves to
    Keys, Vals, \* of internal fields
    MaxFields,  \* bound on the internal fields (the code's cap is in ErrorBounds)
    Loggers,    \* Loggers[l]: the levels logger l keeps
    Causes,     \* errors that may be wrapped, or logged as they are
    HerrCauses, \* those with a herr error in them, which can be built on
    CauseTexts, \* what Error() of a cause may return
    Itself,     \* the error LogRecord is called with, where no herr error is in it
    Empty, Nil

ASSUME BoundAssumption == MaxFields \in Nat
ASSUME CausesAssumption ==
    /\ HerrCauses \subseteq Causes /\ Itself \in Causes \ HerrCauses
    /\ Empty \notin Causes
ASSUME LoggersAssumption == Nil \notin DOMAIN Loggers

Adapters == {"slog", "zap", "logrus", "zerolog"}

VARIABLES
    err,        \* [herr, code, status, internal, trace, cause, stack]
    says,       \* per cause: what its Error() returns
    fields,     \* its internal fields, pairs <<key, value>>
    wrapped,    \* per adapter: the logger it was made with
    rec,        \* the record, Empty before LogRecord; its Fields is the first
                \* rec.n entries of fields
    seen,       \* history: those entries when the record was taken
    streams,    \* per adapter: what its library has written
    said        \* history, per adapter: what the record's cause said when it wrote

logVars == <<err, says, fields, wrapped, rec, seen, streams, said>>

-----------------------------------------------------------------------------
(* The record and its two flat forms *)

\* LogRecord: everything of a herr error, or a fallback around any other.
recordOf(e, n) ==
    IF e.herr
    THEN [code |-> e.code, status |-> e.status, internal |-> e.internal, trace |-> e.trace,
          cause |-> e.cause, stack |-> e.stack, n |-> n]
    ELSE [code |-> "INTERNAL", status |-> 500, internal |-> Empty, trace |-> Empty,
          cause |-> Itself, stack |-> Empty, n |-> 0]

LogRecord == recordOf(err, Len(fields))

\* Cause.Error() of a record, called now.
causeText(r) == IF r.cause = Empty THEN Empty ELSE says[r.cause]

\* The record's own parts in the order everyone writes them, the set ones only,
\* with a cause that says t.
part(k, v) == IF v = Empty THEN <<>> ELSE <<<<k, v>>>>
causePart(r, t) == IF r.cause = Empty THEN <<>> ELSE <<<<"cause", t>>>>
parts(r, t) == <<<<"code", r.code>>>> \o part("internal", r.internal) \o part("trace_id", r.trace)
                 \o part("status", r.status) \o causePart(r, t)
stackPart(r) == part("stack", r.stack)
fieldsOf(r) == SubSeq(fields, 1, r.n)

\* One assignment into a Go map.
put(m, pair) == [k \in DOMAIN m \cup {pair[1]} |-> IF k = pair[1] THEN pair[2] ELSE m[k]]
putAll(pairs) ==
    LET m[n \in 0..Len(pairs)] ==
          IF n = 0 THEN [k \in {} |-> Empty] ELSE put(m[n - 1], pairs[n])
    IN  m[Len(pairs)]

\* log.go, of a record: one map, or one list of attributes; neither has a stack.
LogFields(r, t) == putAll(parts(r, t) \o fieldsOf(r))
Attrs(r, t) == parts(r, t) \o fieldsOf(r)

-----------------------------------------------------------------------------
(* The adapters: what Log writes for a record *)

\* What the four New keep in place of a nil logger: slog.Default(), zap.NewNop(),
\* logrus.New(); zerolog has no nil but a zero value, which discards.
slogNew(l) == IF l = Nil THEN {"warn", "error"} ELSE Loggers[l]
zapNew(l) == IF l = Nil THEN {} ELSE Loggers[l]
logrusNew(l) == IF l = Nil THEN {"warn", "error"} ELSE Loggers[l]
zerologNew(l) == IF l = Nil THEN {} ELSE Loggers[l]

levelFor(status) == IF status >= 500 THEN "error" ELSE "warn"

\* What a library that keeps some levels writes of an entry.
write(levels, level, message, attributes) ==
    IF level \in levels
    THEN <<[level |-> level, message |-> message, attributes |-> attributes]>>
    ELSE <<>>

\* Each adapter collects what it writes for itself: three lists and a map.
slogAttrs(r, t) == parts(r, t) \o stackPart(r) \o fieldsOf(r)

\* Mistake: one of the four copies has the fields in front of the parts.
zapFieldsFirst(r, t) == fieldsOf(r) \o parts(r, t) \o stackPart(r)

zapFields(r, t) == parts(r, t) \o stackPart(r) \o fieldsOf(r)
zerologFields(r, t) == parts(r, t) \o stackPart(r) \o fieldsOf(r)
logrusFields(r, t) == putAll(parts(r, t) \o stackPart(r) \o fieldsOf(r))

slogLog(r, t, l) == write(slogNew(l), levelFor(r.status), r.code, slogAttrs(r, t))

zapLog(r, t, l) == write(zapNew(l), levelFor(r.status), r.code, zapFields(r, t))

zerologLog(r, t, l) == write(zerologNew(l), levelFor(r.status), r.code, zerologFields(r, t))

\* Mistake: no return after the entry of a server fault.
logrusTwice(r, t, l) ==
    (IF r.status >= 500 THEN write(logrusNew(l), "error", r.code, logrusFields(r, t)) ELSE <<>>)
      \o write(logrusNew(l), "warn", r.code, logrusFields(r, t))

logrusLog(r, t, l) ==
    IF r.status >= 500 THEN write(logrusNew(l), "error", r.code, logrusFields(r, t))
    ELSE write(logrusNew(l), "warn", r.code, logrusFields(r, t))

written(a, r, t, l) ==
    CASE a = "slog" -> slogLog(r, t, l) [] a = "zap" -> zapLog(r, t, l)
      [] a = "zerolog" -> zerologLog(r, t, l) [] a = "logrus" -> logrusLog(r, t, l)

-----------------------------------------------------------------------------
LogInit ==
    /\ err \in Parts /\ fields = <<>> /\ says \in [Causes -> CauseTexts]
    /\ \E l \in DOMAIN Loggers \cup {Nil} : wrapped = [a \in Adapters |-> l]
    /\ rec = Empty /\ seen = <<>>
    /\ streams = [a \in Adapters |-> <<>>] /\ said = [a \in Adapters |-> Empty]

logged == <<wrapped, rec, seen, streams, said>>

\* Building goes on, whether or not a record has been taken.
Internal(t) ==
    /\ err.herr /\ err' = [err EXCEPT !.internal = t]
    /\ UNCHANGED <<says, fields, logged>>
Status(s) ==
    /\ err.herr /\ err' = [err EXCEPT !.status = s]
    /\ UNCHANGED <<says, fields, logged>>

\* Another cause takes the place of the one that is wrapped.
Wrap(c) ==
    /\ err.herr /\ err' = [err EXCEPT !.cause = c]
    /\ UNCHANGED <<says, fields, logged>>

\* Internal, or Wrap, of a herr error that is or was wrapped: its text changes.
BuildOnCause(c, t) ==
    /\ says' = [says EXCEPT ![c] = t]
    /\ UNCHANGED <<err, fields, logged>>

\* Mistake: a second value for a key replaces the first one in its place.
withInternalReplacing(k, v) ==
    /\ err.herr /\ Len(fields) < MaxFields
    /\ fields' = IF \E i \in DOMAIN fields : fields[i][1] = k
                 THEN [i \in DOMAIN fields |-> IF fields[i][1] = k THEN <<k, v>> ELSE fields[i]]
                 ELSE Append(fields, <<k, v>>)
    /\ UNCHANGED <<err, says, logged>>

WithInternal(k, v) ==
    /\ err.herr /\ Len(fields) < MaxFields
    /\ fields' = Append(fields, <<k, v>>)
    /\ UNCHANGED <<err, says, logged>>

Take ==
    /\ rec = Empty
    /\ rec' = LogRecord /\ seen' = fieldsOf(LogRecord)
    /\ UNCHANGED <<err, says, fields, wrapped, streams, said>>

\* Adapter a logs the record, whose cause is asked for its text only now; once is
\* enough, nothing is remembered between calls.
Log(a) ==
    /\ rec # Empty /\ streams[a] = <<>>
    /\ streams' = [streams EXCEPT ![a] = @ \o written(a, rec, causeText(rec), wrapped[a])]
    /\ said' = [said EXCEPT ![a] = causeText(rec)]
    /\ UNCHANGED <<err, says, fields, wrapped, rec, seen>>

LogNext ==
    \/ \E t \in Texts : Internal(t)
    \/ \E s \in Statuses : Status(s)
    \/ \E c \in Causes : Wrap(c)
    \/ \E c \in HerrCauses, t \in CauseTexts : BuildOnCause(c, t)
    \/ \E k \in Keys, v \in Vals : WithInternal(k, v)
    \/ Take
    \/ \E a \in Adapters : Log(a)

LogSpec == LogInit /\ [][LogNext]_logVars

-----------------------------------------------------------------------------
(* Properties *)

\* The fields of a record are the error's own slice and nevertheless a snapshot:
\* building on after LogRecord, before or between the adapters' writes, never
\* shows in them.  Of its cause no such thing can be said.
RecordIsASnapshot == rec # Empty => fieldsOf(rec) = seen

\* The map a reader makes of a list of pairs, the last of a key winning.
bindings(pairs) ==
    [k \in {pairs[i][1] : i \in DOMAIN pairs} |->
        pairs[CHOOSE i \in DOMAIN pairs :
                pairs[i][1] = k /\ \A j \in i + 1..Len(pairs) : pairs[j][1] # k][2]]
reading(x, a) == IF a = "logrus" THEN x.attributes ELSE bindings(x.attributes)

\* Whatever a record holds, it becomes one entry or none, never two, titled with
\* its code, and only on a level that the application's own logger keeps: a
\* server fault (500 and above) is an error to every adapter, all else a warning.
OneEntryPerRecord ==
    [][\A a \in Adapters :
         streams'[a] # streams[a] =>
             /\ Len(streams'[a]) = 1
             /\ LET x == streams'[a][1]
                IN  /\ x.message = rec.code
                    /\ x.level = IF rec.status >= 500 THEN "error" ELSE "warn"
                    /\ wrapped[a] # Nil => x.level \in Loggers[wrapped[a]]]_logVars

\* The last value of every key in the entry of an adapter is the one that
\* LogFields and Attrs give it, even where fields take the names of the record's
\* own parts; only the stack comes on top.
AsLogFields(a) ==
    LET m == reading(streams[a][1], a)
        own == {seen[j][1] : j \in DOMAIN seen}
        flat == LogFields(rec, said[a])
    IN  /\ flat = putAll(parts(rec, said[a]) \o seen) /\ flat = bindings(Attrs(rec, said[a]))
        /\ \A k \in DOMAIN flat : m[k] = flat[k]
        /\ DOMAIN m \ DOMAIN flat = IF rec.stack # Empty THEN {"stack"} \ own ELSE {}

\* Two entries have the same keys, and the same values but for a cause that said
\* something else when the other one was written.
TellTheSame(a, b) ==
    LET m == reading(streams[a][1], a)
        o == reading(streams[b][1], b)
    IN  /\ DOMAIN m = DOMAIN o
        /\ \A k \in DOMAIN m : m[k] = o[k] \/ (k = "cause" /\ said[a] # said[b])

\* Operators see one story, whichever library writes it: each entry is LogFields
\* and Attrs of the record with the fields it was taken with and the cause as it
\* reads when the adapter writes.  So however the error and what it wraps are
\* built on between two writes, the entries differ in the text of the cause only,
\* and only where the wrapped error itself was built on in between.
AdaptersAgree ==
    \A a \in Adapters :
        streams[a] # <<>> =>
            /\ AsLogFields(a)
            /\ \A b \in Adapters : streams[b] # <<>> => TellTheSame(a, b)
=============================================================================
