----------------------------- MODULE MCLocalize -----------------------------
(* Small instances of Localize: every template of up to four characters for *)
(* a client of each kind, and every list of up to two languages for a       *)
(* template with a parameter.                                              *)
EXTENDS Localize

MCLocales == {<<"id">>}
MCChars == {"{", "}", "a", "b"}
Templates == UNION {[1..n -> MCChars] : n \in 0..4}
Ranges == [primary : {"id", "ID", "fr"}, region : BOOLEAN, weight : BOOLEAN, padded : BOOLEAN]
plain(p) == <<[primary |-> p, region |-> FALSE, weight |-> FALSE, padded |-> FALSE]>>
Accepts == {<<>>} \cup {<<r>> : r \in Ranges} \cup {<<r, s>> : r, s \in Ranges}

request0(a, w) == [accept |-> a, words |-> w, translated |-> {<<"id">>}]
untranslated(w) == [accept |-> plain("id"), words |-> w, translated |-> {}]
MCRequests ==
    {request0(a, w) : a \in {plain("id"), plain("fr")}, w \in Templates}
      \cup {untranslated(w) : w \in {<<"b">>, <<"{", "b", "}">>}}
      \cup {request0(a, <<"{", "a", "}">>) : a \in Accepts}

\* The empty name is one like any other; b is never given.
MCNames == {<<"a">>, <<>>}
\* Values that look like placeholders, of themselves and of another.
MCValues == {<<"{", "a", "}">>, <<"}", "b">>}
MCEdited == <<"b">>
MCLower == [t \in {"id", "ID", "fr"} |-> IF t = "ID" THEN "id" ELSE t]
=============================================================================
