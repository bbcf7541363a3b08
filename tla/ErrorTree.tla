----------------------------- MODULE ErrorTree -----------------------------
(***************************************************************************)
(* The trees that errors form by wrapping one another, and the questions    *)
(* the package asks of such a tree: errors.As for a *Error, errors.Is with  *)
(* Error.Is, Class.Is, the coercion every transport starts with, the log *)
(* record, and Error().  A tree may hold a typed nil: a nil *Error in an    *)
(* error interface, which is not a nil error.                              *)
(*                                                                         *)
(* Nodes are only added, and Wrap replaces the cause of a herr error that   *)
(* is already there, perhaps already wrapped by others.  A gRPC interceptor *)
(* turns a tree into a status error, which is an error like any other to    *)
(* the next interceptor of the chain.                                      *)
(***************************************************************************)
EXTENDS Integers, Sequences, FiniteSetsExt

CONSTANTS
    Codes,      \* error codes
    MaxNodes,   \* bound on the number of error values (model only)
    None

ASSUME BoundAssumption == MaxNodes \in Nat
ASSUME NoneAssumption == None \notin Nat

(* node[n] = [type, code, kids, origin]; the types are "plain", "herr",      *)
(* "nil" (a typed nil *Error), "wrapped" (fmt.Errorf with one %w), "joined"  *)
(* (errors.Join or a multierror; both are searched member by member) and     *)
(* "status" (a gRPC status error).  The gRPC code, message and retry info of *)
(* a status stand for the herr code they belong to; origin is history, the   *)
(* error that was intercepted.                                              *)
VARIABLE node

vars == node
Nodes == 1..Len(node)
internalCode == "INTERNAL"

-----------------------------------------------------------------------------
(* The standard library *)

IsHerr(n) == node[n].type \in {"herr", "nil"}

\* The first hit of a walk over the members of n.
firstHit(hits, miss) ==
    LET found == {i \in DOMAIN hits : hits[i] # miss} IN IF found = {} THEN miss ELSE hits[Min(found)]

\* errors.As for a *Error: the first one of a depth-first walk, typed nil or not.
as[n \in Nodes] ==
    IF IsHerr(n) THEN n
    ELSE firstHit([i \in DOMAIN node[n].kids |-> as[node[n].kids[i]]], None)

\* == on two errors: the same pointer, and all typed nils are the same one.
same(n, t) == n = t \/ (node[n].type = "nil" /\ node[t].type = "nil")

-----------------------------------------------------------------------------
(* The package *)

\* Mistake: the code of a target that holds no herr error is read.
methodWithoutCheck(n, t) ==
    IF as[t] = None \/ node[as[t]].type = "nil" THEN "panic"
    ELSE IF node[as[t]].code = node[n].code THEN "yes" ELSE "no"

\* Error.Is: code against code of the first herr error of the target, whose
\* code a typed nil does not have.
methodIs(n, t) ==
    IF as[t] = None THEN "no"
    ELSE IF node[as[t]].type = "nil" THEN "panic"
    ELSE IF node[as[t]].code = node[n].code THEN "yes" ELSE "no"

\* Mistake: identity of pointers instead of identity of codes.
isHereByPointer(n, t) ==
    CASE same(n, t) -> "yes"
      [] ~same(n, t) /\ node[n].type = "nil" -> "panic"
      [] OTHER -> "no"

\* errors.Is at one node, before it looks further: a typed nil answers no and
\* then panics in Unwrap; a status error equals one with the same content.
isHere(n, t) ==
    CASE same(n, t) -> "yes"
      [] ~same(n, t) /\ node[n].type = "nil" -> "panic"
      [] ~same(n, t) /\ node[n].type = "herr" -> methodIs(n, t)
      [] ~same(n, t) /\ node[n].type = "status" /\ node[t].type = "status"
           /\ node[n].code = node[t].code -> "yes"
      [] OTHER -> "no"

\* errors.Is with target t: the same walk.
is(t) ==
    LET walk[n \in Nodes] ==
            IF isHere(n, t) # "no" THEN isHere(n, t)
            ELSE firstHit([i \in DOMAIN node[n].kids |-> walk[node[n].kids[i]]], "no")
    IN  walk

\* Mistake: a type assertion where errors.As looks through wrappers.
classIsUnwrapped(c, n) ==
    IF node[n].type = "nil" THEN "panic"
    ELSE IF node[n].type = "herr" /\ node[n].code = c THEN "yes" ELSE "no"

\* Class.Is compares with the first herr error only.
classIs(c, n) ==
    IF as[n] = None THEN "no"
    ELSE IF node[as[n]].type = "nil" THEN "panic"
    ELSE IF node[as[n]].code = c THEN "yes" ELSE "no"

\* Error() walks the causes; fmt.Errorf formatted its text when it was called,
\* and fmt turns a panic into text.
errorPanics[n \in Nodes] ==
    \/ node[n].type = "nil"
    \/ /\ node[n].type \in {"herr", "joined"}
       /\ \E i \in DOMAIN node[n].kids : errorPanics[node[n].kids[i]]

\* LogRecord: the first herr error in full, else a fallback around the error.
LogRecord(n) ==
    LET cause == IF as[n] = None THEN n
                 ELSE IF node[as[n]].kids = <<>> THEN None ELSE node[as[n]].kids[1]
    IN  [panics |-> as[n] # None /\ node[as[n]].type = "nil",
         code   |-> IF as[n] = None THEN internalCode ELSE node[as[n]].code,
         cause  |-> cause]

\* LogFields and Attrs also print the cause.
LogFieldsPanics(n) ==
    \/ LogRecord(n).panics
    \/ LogRecord(n).cause # None /\ errorPanics[LogRecord(n).cause]

\* aggregateChildren of the cause of herr error e.
aggregateChildren(e) ==
    IF node[e].kids # <<>> /\ node[node[e].kids[1]].type = "joined"
    THEN node[node[e].kids[1]].kids ELSE <<>>

\* What a transport sends for n: coerce, and wire() of the result.  The body of
\* a typed nil is the generic one; a promoted typed nil has no field to read.
\* A coerced error wraps n, and n then holds no herr error to promote.
wire(n) ==
    LET e == as[n]
    IN  IF e = None \/ node[e].type = "nil"
        THEN [panics |-> FALSE, code |-> internalCode]
        ELSE [panics |-> \E i \in DOMAIN aggregateChildren(e) :
                            LET m == as[aggregateChildren(e)[i]]
                            IN  m # None /\ node[m].type = "nil",
              code   |-> node[e].code]

-----------------------------------------------------------------------------
(* Growing a tree *)

Grow(type, code, kids) ==
    /\ Len(node) < MaxNodes
    /\ node' = Append(node, [type |-> type, code |-> code, kids |-> kids, origin |-> None])

NewPlain    == Grow("plain", None, <<>>)
New(c)      == Grow("herr", c, <<>>)
TypedNil    == Grow("nil", None, <<>>)

Wrapf(k)    == Grow("wrapped", None, <<k>>)
Join(k, l)  == Grow("joined", None, <<k, l>>)

reach[n \in Nodes] == {n} \cup UNION {reach[k] : k \in {node[n].kids[i] : i \in DOMAIN node[n].kids}}

\* e.Wrap(c) replaces the cause, whoever holds e already.  Nothing in the code
\* keeps a caller from closing a cycle, on which errors.Is never ends; this
\* model is about callers that do not.
Wrap(e, c) ==
    /\ node[e].type = "herr" /\ e \notin reach[c]
    /\ node' = [node EXCEPT ![e].kids = <<c>>]

WrapNil(e) ==
    /\ node[e].type = "herr"
    /\ node' = [node EXCEPT ![e].kids = <<>>]

\* Mistake: a type assertion in place of errors.As.
statusUnwrapped(n) == IF node[n].type = "herr" THEN node[n].code ELSE internalCode

\* grpcerr.Status: the code, message and retry info of the coerced error.
Status(n) == wire(n).code

\* UnaryServerInterceptor, given error n by the handler or by the interceptor
\* inside it: only the status goes on, and with it the way back to n is gone.
Intercept(n) ==
    /\ Len(node) < MaxNodes
    /\ ~wire(n).panics
    /\ node' = Append(node, [type |-> "status", code |-> Status(n), kids |-> <<>>, origin |-> n])

Init == node = <<>>

Next ==
    \/ NewPlain \/ TypedNil
    \/ \E c \in Codes : New(c)
    \/ \E k \in Nodes : Wrapf(k)
    \/ \E k, l \in Nodes : Join(k, l)
    \/ \E e, c \in Nodes : Wrap(e, c)
    \/ \E e \in Nodes : WrapNil(e)
    \/ \E n \in Nodes : Intercept(n)

Spec == Init /\ [][Next]_vars

-----------------------------------------------------------------------------
(* Properties *)

HasNil(n) == \E m \in reach[n] : node[m].type = "nil"

\* Of everything the package asks of an error, nothing panics unless there is a
\* typed nil somewhere in the tree, or in the target of errors.Is.
PanicsOnlyOnTypedNil ==
    \A n \in Nodes :
        /\ LogFieldsPanics(n) \/ wire(n).panics \/ (\E c \in Codes : classIs(c, n) = "panic")
             => HasNil(n)
        /\ \A t \in Nodes : is(t)[n] = "panic" => HasNil(n) \/ HasNil(t)

\* Class.Is never claims more than errors.Is does: a match is a match on the
\* whole tree too, and on a code that a node of the tree really carries.
ClassIsIsSound ==
    \A n, t \in Nodes :
        node[t].type = "herr" /\ classIs(node[t].code, n) = "yes" =>
            /\ is(t)[n] = "yes"
            /\ \E m \in reach[n] : node[m].type = "herr" /\ node[m].code = node[t].code

\* Wrapping an error in another package's wrapper, or joining it behind errors
\* that are not herr errors, changes nothing: same match, same log code.
WrappersAreTransparent ==
    \A n \in Nodes :
        \/ node[n].type \notin {"wrapped", "joined"}
        \/ LET k == node[n].kids[Len(node[n].kids)]
           IN  (\A i \in 1..Len(node[n].kids) - 1 : \A m \in reach[node[n].kids[i]] : ~IsHerr(m)) =>
                  /\ \A c \in Codes : classIs(c, n) = classIs(c, k)
                  /\ LogRecord(n).panics = LogRecord(k).panics
                  /\ ~LogRecord(n).panics => LogRecord(n).code = LogRecord(k).code

\* One error, one code: whenever both can be produced, the code a client is
\* shown is the code the log carries, whatever wraps the error and whichever herr
\* errors are nested in it.  What went out through gRPC stays that code, after
\* any later Wrap inside it too; only a status that meets a second interceptor,
\* wrapped or joined or bare, has lost its code for good and becomes INTERNAL.
StatusMatchesTheLog ==
    \A n \in Nodes :
        /\ ~LogRecord(n).panics /\ ~wire(n).panics => LogRecord(n).code = wire(n).code
        /\ node[n].type = "status" =>
             LET o == node[n].origin
             IN  /\ ~LogRecord(o).panics => node[n].code = LogRecord(o).code
                 /\ (\A m \in reach[o] : node[m].type # "herr") => node[n].code = internalCode

-----------------------------------------------------------------------------
(* What comments of the code say *)

\* match.go: Class.Is reports whether err "(anywhere in its wrapped chain) is a
\* herr error of this class's Code".
ClassIsFindsAnywhere ==
    \A n \in Nodes : ~HasNil(n) =>
        \A m \in reach[n] : node[m].type = "herr" => classIs(node[m].code, n) = "yes"
=============================================================================
