------------------------------ MODULE TextCaps ------------------------------
(***************************************************************************)
(* The two places that cut a text to a number of bytes without cutting a    *)
(* rune in half: capStr, for every internal message and every string value  *)
(* of a field or of metadata, which then appends a marker, and capReason,   *)
(* for the reason of a WebSocket close frame, which has no room for one and *)
(* gets its text through the JSON of the wire body.                        *)
(*                                                                         *)
(* A byte is known by the width of the rune it starts, or 0 if it is one    *)
(* that only continues a rune (utf8.RuneStart is then false).  Texts are    *)
(* any bytes: Go strings need not be valid UTF-8.                          *)
(***************************************************************************)
EXTENDS Integers, Sequences, SequencesExt

CONSTANTS
    Bytes,
    Width,      \* Width[b]: 1 to 4, or 0 for a continuation byte
    Texts,      \* the texts to be cut
    Cap,        \* maxValueLen or maxReasonBytes
    Marker,     \* truncMarker, it starts with a rune of three bytes
    Replacement \* the three bytes of U+FFFD

ASSUME CapAssumption == Cap \in Nat
ASSUME BytesAssumption ==
    /\ Width \in [Bytes -> 0..4]
    /\ Texts \subseteq Seq(Bytes) /\ Marker \in Seq(Bytes) /\ Replacement \in Seq(Bytes)

VARIABLES
    use,        \* "value" for capStr, "reason" for capReason
    text,       \* what was given
    s,          \* the argument of the cutting function
    cut, pc,
    out,        \* its result
    once        \* history: [cut, out] of the first of two capStr in a row, else NotYet

vars == <<use, text, s, cut, pc, out, once>>
NotYet == [cut |-> -1, out |-> <<>>]

-----------------------------------------------------------------------------
(* UTF-8 *)

RuneStart(b) == Width[b] # 0

\* A whole rune of t starts at p.
wholeAt(t, p) ==
    /\ RuneStart(t[p]) /\ p + Width[t[p]] - 1 <= Len(t)
    /\ \A k \in 1..Width[t[p]] - 1 : ~RuneStart(t[p + k])

\* The byte at p belongs to a whole rune.
soundAt(t, p) == \E q \in 1..p : wholeAt(t, q) /\ p < q + Width[t[q]]
Valid(t) == \A p \in DOMAIN t : soundAt(t, p)

\* Mistake: the public text is used as it is.
unencoded(t) == t

\* publicMessage: out through json.Marshal, which replaces every byte that is
\* part of no rune, and back through json.Unmarshal.
publicMessage(t) ==
    FlattenSeq([p \in DOMAIN t |-> IF soundAt(t, p) THEN <<t[p]>> ELSE Replacement])

ASSUME MarksAssumption ==
    /\ Valid(Replacement) /\ Valid(Marker)
    /\ Len(Marker) > 3 /\ wholeAt(Marker, 1) /\ Width[Marker[1]] = 3

-----------------------------------------------------------------------------
(* The cut *)

Init ==
    /\ use \in {"value", "reason"} /\ text \in Texts
    \* a body that cannot be encoded has the empty message
    /\ s \in IF use = "value" THEN {text} ELSE {publicMessage(text), <<>>}
    /\ cut = 0 /\ pc = "measure" /\ out = <<>> /\ once = NotYet

Fits ==
    /\ pc = "measure" /\ Len(s) <= Cap
    /\ out' = s /\ pc' = "done"
    /\ UNCHANGED <<use, text, s, cut, once>>

\* Mistake: a cut that is always below the cap.
belowCap == Cap - 1

\* Where the search for a boundary begins.
firstCut == Cap

TooLong ==
    /\ pc = "measure" /\ Len(s) > Cap
    /\ cut' = firstCut /\ pc' = "back"
    /\ UNCHANGED <<use, text, s, out, once>>

\* Mistakes: the byte before the cut is looked at; nothing stops at the beginning
\* of the text.
endsOnContinuation == cut > 0 /\ ~RuneStart(s[cut])
unbounded == ~RuneStart(s[cut + 1])

\* The byte after the cut continues a rune that begins before it.
splits == cut > 0 /\ ~RuneStart(s[cut + 1])

StepBack ==
    /\ pc = "back" /\ splits
    /\ cut' = cut - 1
    /\ UNCHANGED <<use, text, s, pc, out, once>>

\* What follows the cut.
tail == IF use = "value" THEN Marker ELSE <<>>

Truncate ==
    /\ pc = "back" /\ ~splits
    /\ out' = SubSeq(s, 1, cut) \o tail /\ pc' = "done"
    /\ UNCHANGED <<use, text, s, cut, once>>

\* A text that was cut becomes the text of another error, which cuts it again.
HandOn ==
    /\ pc = "done" /\ use = "value" /\ Len(s) > Cap /\ once = NotYet
    /\ once' = [cut |-> cut, out |-> out]
    /\ s' = out /\ pc' = "measure"
    /\ UNCHANGED <<use, text, cut, out>>

Next == Fits \/ TooLong \/ StepBack \/ Truncate \/ HandOn

Spec == Init /\ [][Next]_vars

-----------------------------------------------------------------------------
(* Properties *)

\* The loop only ever looks at a byte of the text: it starts beyond a cap that
\* the text exceeds and never runs below the beginning.
TypeOK ==
    /\ use \in {"value", "reason"} /\ text \in Texts
    /\ s \in Seq(Bytes) /\ out \in Seq(Bytes)
    /\ pc \in {"measure", "back", "done"}
    /\ cut \in 0..Cap
    /\ pc = "back" => cut < Len(s)

\* A boundary of t: before its first byte, after its last, or before a start.
Boundary(t, k) == k = 0 \/ k = Len(t) \/ RuneStart(t[k + 1])

\* A text within the cap is untouched; of a longer one the result keeps the
\* longest beginning within the cap that ends on a boundary, and then comes
\* the marker, for a value.
CutIsLongest ==
    pc = "done" =>
        IF Len(s) <= Cap THEN out = s
        ELSE \E k \in 0..Cap :
                /\ Boundary(s, k)
                /\ \A j \in k + 1..Cap : ~Boundary(s, j)
                /\ out = SubSeq(s, 1, k) \o tail

\* No cut leaves half a rune behind: of a valid text it makes a valid one, and
\* gives up at most the three bytes that a rune can reach below the cap.  A close
\* frame is well-formed even for a message that is not valid: its reason is, and
\* within the limit, which with the two bytes of the code makes 125.
RunesStayWhole ==
    pc = "done" =>
        /\ Valid(text) \/ use = "reason" => Valid(out)
        /\ Valid(text) /\ Len(s) > Cap => cut >= Cap - 3
        /\ use = "reason" => Len(out) <= Cap

\* A capped value is longer than the cap, by its marker, and would be cut again
\* by a second error.  For a valid text that changes nothing, except when the
\* first cut gave up three bytes: then the marker's own first rune fits and is
\* seen twice.
RecappingIsStable ==
    pc = "done" /\ once # NotYet /\ Valid(text) =>
        (out = once.out <=> once.cut # Cap - 3)
=============================================================================
