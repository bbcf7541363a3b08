------------------------------ MODULE Localize ------------------------------
(***************************************************************************)
(* One message on its way to one client in the client's language: the map   *)
(* localizer built from a table of the application, the locale taken from   *)
(* the Accept-Language header, the lookup, and the scan that fills the      *)
(* placeholders, which the core does for its own words (titles too) and     *)
(* mapl, with a copy of the same scanner, for a translation.                *)
(*                                                                         *)
(* A template is a sequence of characters; a header is one of tokens, a     *)
(* token being a subtag, a separator or a space.  A Go map is a reference:  *)
(* heap holds the inner maps, which have or lack the one key asked for.     *)
(* Settings that change during a render are the subject of Render.          *)
(***************************************************************************)
EXTENDS Integers, Sequences, SequencesExt

CONSTANTS
    Locales,    \* locales a table may have
    Requests,   \* [accept, words, translated], see Init
    Names,      \* names given to Param
    Values,     \* their values, as text
    Edited,     \* a template the application writes into its table later
    Lower,      \* Lower[t]: the lower case of a subtag
    Chars,      \* of which texts are made
    Absent

\* The characters that a template and a header are scanned for.
OpenBrace == "{"
CloseBrace == "}"
Space == " "
Dash == "-"
Semicolon == ";"
Comma == ","

ASSUME TextsAssumption ==
    /\ \A q \in Requests : q.words \in Seq(Chars)
    /\ Values \subseteq Seq(Chars) /\ Edited \in Seq(Chars) /\ Absent \notin Seq(Chars)
ASSUME RangesAssumption ==
    /\ DOMAIN Lower \cap {Space, Dash, Semicolon, Comma} = {}
    /\ \A q \in Requests :
         q.accept \in Seq([primary : DOMAIN Lower, region : BOOLEAN,
                           weight : BOOLEAN, padded : BOOLEAN])

VARIABLES
    appOuter,   \* the locales of the outer map in the application's hands
    heap,       \* inner maps: the application's app(l), the localizer's own(l)
    outer,      \* the localizer's outer map, Absent before New
    given,      \* history: the table as it was when New was called
    accept,     \* history: the client's languages, most wanted first
    words,      \* the template of the error itself
    params, strict,
    pc,
    locale,     \* what localeFrom makes of the request's header
    scanner,    \* "core" or "mapl"
    tmpl, i, out

app == <<appOuter, heap>>
built == <<outer, given>>
request == <<accept, locale, words, strict>>
scanned == <<scanner, tmpl>>
vars == <<app, built, request, params, pc, scanned, i, out>>

appMap(l) == <<"app", l>>
ownMap(l) == <<"own", l>>

-----------------------------------------------------------------------------
(* The header *)

spaces(r) == IF r.padded THEN <<Space>> ELSE <<>>

\* What a client sends for the languages it accepts.
Format(ranges) == FlattenSeq([k \in DOMAIN ranges |->
    LET r == ranges[k]
    IN  spaces(r) \o <<r.primary>> \o (IF r.region THEN <<Dash, "US">> ELSE <<>>)
          \o spaces(r) \o (IF r.weight THEN <<Semicolon, "q">> ELSE <<>>)
          \o (IF k < Len(ranges) THEN <<Comma>> ELSE <<>>)])

before(s, seps) ==
    LET at == SelectInSeq(s, LAMBDA t : t \in seps) IN IF at = 0 THEN s ELSE SubSeq(s, 1, at - 1)

trimSpace(s) ==
    LET solid == {k \in DOMAIN s : s[k] # Space}
    IN  IF solid = {} THEN <<>> ELSE SubSeq(s, Min(solid), Max(solid))

lower(s) == [k \in DOMAIN s |-> IF s[k] \in DOMAIN Lower THEN Lower[s[k]] ELSE s[k]]

\* Mistake: the spaces are trimmed before the weight is cut off.
localeTrimmedFirst(h) == lower(before(before(trimSpace(h), {Comma, Semicolon}), {Dash}))

\* First tag, without its weight, reduced to the primary subtag.
localeFrom(h) == lower(before(trimSpace(before(h, {Comma, Semicolon})), {Dash}))

-----------------------------------------------------------------------------
(* The table *)

Init ==
    /\ \E q \in Requests :
         /\ accept = q.accept /\ locale = localeFrom(Format(q.accept))
         /\ words = q.words
         /\ heap = [m \in {appMap(l) : l \in Locales} \cup {ownMap(l) : l \in Locales} |->
                      IF m[1] = "app" /\ m[2] \in q.translated THEN q.words ELSE Absent]
    /\ appOuter = Locales
    /\ outer = Absent /\ given = Absent
    /\ params = [n \in {} |-> <<>>]
    /\ strict \in BOOLEAN
    /\ pc = "new" /\ scanner = "core" /\ tmpl = <<>> /\ i = 1 /\ out = <<>>

\* The application edits the table it has passed to New, at any time.
EditInner(l) ==
    /\ heap' = [heap EXCEPT ![appMap(l)] = Edited]
    /\ UNCHANGED <<appOuter, built, request, params, pc, scanned, i, out>>
DropLocale(l) ==
    /\ appOuter' = appOuter \ {l}
    /\ UNCHANGED <<heap, built, request, params, pc, scanned, i, out>>

\* Mistake: a copy of the outer map alone.
NewShallow ==
    /\ pc = "new" /\ pc' = "build"
    /\ outer' = [l \in appOuter |-> appMap(l)]
    /\ given' = [l \in appOuter |-> heap[appMap(l)]]
    /\ UNCHANGED <<app, request, params, scanned, i, out>>

\* mapl.New copies the outer map and every inner one.
New ==
    /\ pc = "new" /\ pc' = "build"
    /\ outer' = [l \in appOuter |-> ownMap(l)]
    /\ heap' = [m \in DOMAIN heap |->
                  IF m[1] = "own" /\ m[2] \in appOuter THEN heap[appMap(m[2])] ELSE heap[m]]
    /\ given' = [l \in appOuter |-> heap[appMap(l)]]
    /\ UNCHANGED <<appOuter, request, params, scanned, i, out>>

\* (*Localizer).Localize up to its scan: the template, Absent for ok = false.
found(l) == IF l \in DOMAIN outer THEN heap[outer[l]] ELSE Absent

-----------------------------------------------------------------------------
(* The request *)

\* Param and, one pair at a time, Params; a later value replaces an earlier one.
Param(n, v) ==
    /\ pc = "build"
    /\ params' = [m \in DOMAIN params \cup {n} |-> IF m = n THEN v ELSE params[m]]
    /\ UNCHANGED <<app, built, request, pc, scanned, i, out>>

\* A translation is filled by mapl, anything else by the core; a template with
\* no brace in it is returned as it is.
Lookup ==
    /\ pc = "build"
    /\ scanner' = IF found(locale) # Absent THEN "mapl" ELSE "core"
    /\ tmpl' = IF found(locale) # Absent THEN found(locale) ELSE words
    /\ IF Contains(tmpl', OpenBrace)
       THEN pc' = "scan" /\ UNCHANGED out
       ELSE pc' = "done" /\ out' = tmpl'
    /\ UNCHANGED <<app, built, request, params, i>>

-----------------------------------------------------------------------------
(* The scan, one turn of its loop per action *)

rest == SubSeq(tmpl, i, Len(tmpl))

\* Mistake: the last closing brace in place of the first.
closingLast == SelectLastInSeq(rest, LAMBDA c : c = CloseBrace)

\* Where in rest the placeholder at i closes, 0 if it does not.
closing == SelectInSeq(rest, LAMBDA c : c = CloseBrace)

name == SubSeq(tmpl, i + 1, i + closing - 2)

\* Only the core knows StrictMode.
filled == IF name \in DOMAIN params THEN params[name]
          ELSE IF scanner = "core" /\ strict THEN SubSeq(tmpl, i, i + closing - 1)
          ELSE <<>>

Scanning == pc = "scan" /\ i <= Len(tmpl)

CopyByte ==
    /\ Scanning /\ tmpl[i] # OpenBrace
    /\ out' = Append(out, tmpl[i]) /\ i' = i + 1
    /\ UNCHANGED <<app, built, request, params, pc, scanned>>

CopyTail ==
    /\ Scanning /\ tmpl[i] = OpenBrace /\ closing = 0
    /\ out' = out \o rest /\ pc' = "done"
    /\ UNCHANGED <<app, built, request, params, scanned, i>>

\* Mistakes: a byte too many is skipped; the value takes the placeholder's
\* place in the template and is scanned in its turn.
fillTooFar ==
    /\ Scanning /\ tmpl[i] = OpenBrace /\ closing # 0
    /\ out' = out \o filled /\ i' = i + closing + 1
    /\ UNCHANGED <<app, built, request, params, pc, scanned>>
fillRescans ==
    /\ Scanning /\ tmpl[i] = OpenBrace /\ closing # 0
    /\ tmpl' = SubSeq(tmpl, 1, i - 1) \o filled \o SubSeq(tmpl, i + closing, Len(tmpl))
    /\ UNCHANGED <<app, built, request, params, pc, scanner, i, out>>

Fill ==
    /\ Scanning /\ tmpl[i] = OpenBrace /\ closing # 0
    /\ out' = out \o filled /\ i' = i + closing
    /\ UNCHANGED <<app, built, request, params, pc, scanned>>

EndScan ==
    /\ pc = "scan" /\ i > Len(tmpl)
    /\ pc' = "done"
    /\ UNCHANGED <<app, built, request, params, scanned, i, out>>

Step == New \/ Lookup \/ CopyByte \/ CopyTail \/ Fill \/ EndScan

Next ==
    \/ Step
    \/ \E n \in Names, v \in Values : Param(n, v)
    \/ \E l \in Locales : EditInner(l) \/ DropLocale(l)

\* The goroutine that answers runs on; the application owes nobody an edit.
Spec == Init /\ [][Next]_vars /\ WF_vars(Step)

-----------------------------------------------------------------------------
(* Properties *)

\* The scan stays inside its template, and the localizer's outer map refers to
\* inner maps that exist.
TypeOK ==
    /\ appOuter \subseteq Locales /\ strict \in BOOLEAN
    /\ outer # Absent => \A l \in DOMAIN outer : l \in Locales /\ outer[l] \in DOMAIN heap
    /\ DOMAIN params \subseteq Names
    /\ pc \in {"new", "build", "scan", "done"} /\ scanner \in {"core", "mapl"}
    /\ i \in 1..Len(tmpl) + 1

\* However the application edits the table it passed to New, inner or outer
\* map, before or during a request, every lookup answers from the table as it
\* was at New.
TableIsFrozen ==
    outer # Absent =>
        \A l \in Locales : found(l) = IF l \in DOMAIN given THEN given[l] ELSE Absent

\* Whatever regions, weights and spaces a client adds, the locale is its first
\* language in lower case, and none if it names no language.
FirstLanguageWins ==
    locale = IF accept = <<>> THEN <<>> ELSE <<Lower[accept[1].primary]>>

\* Placeholders without reference to a scan: a brace opens one if a brace after
\* it closes it and every earlier opening brace was closed before it.
closes(t, p) == {e \in p + 1..Len(t) : t[e] = CloseBrace}
Placeholders(t) ==
    {p \in DOMAIN t :
        /\ t[p] = OpenBrace /\ closes(t, p) # {}
        /\ \A q \in 1..p - 1 : t[q] = OpenBrace => \E e \in closes(t, q) : e < p}

\* What stands in the text for the character at p of template t.
PieceAt(t, p, visible) ==
    IF p \in Placeholders(t)
    THEN LET n == SubSeq(t, p + 1, Min(closes(t, p)) - 1)
         IN  IF n \in DOMAIN params THEN params[n]
             ELSE IF visible THEN SubSeq(t, p, Min(closes(t, p))) ELSE <<>>
    ELSE IF \E h \in Placeholders(t) : h < p /\ p <= Min(closes(t, h)) THEN <<>>
    ELSE <<t[p]>>

\* Both scanners read a template the same way: a given parameter's value stands
\* for its placeholder and is never scanned itself, a missing one collapses (or
\* is shown, by the core under StrictMode only), and everything else, unmatched
\* braces included, is copied.
ScanIsExact ==
    pc = "done" =>
        out = FlattenSeq([p \in DOMAIN tmpl |-> PieceAt(tmpl, p, strict /\ scanner = "core")])

\* Every message gets done, whatever its parameters look like.
EveryMessageEnds == <>(pc = "done")
=============================================================================
