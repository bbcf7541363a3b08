------------------------------ MODULE MCRender ------------------------------
(* Small instances of Render: one error per way a message can be resolved.  *)
EXTENDS Render

lit(x) == <<"lit", x>>
hole(n) == <<"hole", n>>

shape(code, key, kind, inline, title, message, params, children) ==
    [code |-> code, msgKey |-> key, kind |-> kind, inline |-> inline, title |-> title,
     message |-> message, params |-> params, children |-> children]

NoParams == [n \in {} |-> NoText]

\* A field error: its message is a literal and never inline.
child == shape("CHILD", "", "unprocessable", FALSE, <<>>, <<lit("bad")>>, NoParams, <<>>)

\* Inline words with a given and two missing parameters.
Inline == shape("A", "", "internal", TRUE, <<hole("m")>>,
                <<lit("x"), hole("p"), hole("m"), hole("n")>>, [p |-> "value"], <<>>)
\* Catalog words that a translation replaces, with a child after it.
Catalogued == shape("B", "shared.key", "internal", FALSE, <<lit("t")>>,
                    <<lit("y"), hole("m")>>, NoParams, <<child>>)
\* No words at all: translation or floor; Public called with no message.
Bare == shape("C", "", "internal", TRUE, <<>>, <<>>, NoParams, <<child>>)
\* A kind no table knows.
Unknown == shape("D", "", "kind99", FALSE, <<>>, <<>>, NoParams, <<>>)
\* A template of nothing but a parameter that was not given.
Hollow == shape("E", "", "internal", FALSE, <<>>, <<hole("m")>>, NoParams, <<>>)
\* The same with a second parameter, given but empty.
Emptied == shape("F", "", "internal", FALSE, <<>>, <<hole("m"), hole("p")>>, [p |-> NoText], <<>>)

MCErrors == {Inline, Catalogued, Bare, Unknown, Hollow, Emptied}

MCDerivedKey == [c \in {"A", "B", "C", "D", "E", "F", "CHILD"} |-> c]
MCKnown == {"internal", "unprocessable"}

table(keys, l) == [k \in {"A", "B", "C", "D", "E", "F", "CHILD", "shared.key"} |->
                     IF k \in keys THEN <<<<"translated", l>>>> ELSE NotFound]
MCTranslations == [l \in {"l1", "l2"} |->
                     IF l = "l1" THEN table({"shared.key", "A", "C"}, "l1")
                                 ELSE table({"CHILD", "D", "shared.key"}, "l2")]
MCLocalizers == {"l1", "l2"}
MCOverrides == {[k \in {"internal"} |-> <<<<"own", "x">>>>],
                [k \in {"kind99"} |-> <<<<"own", "y">>>>]}
=============================================================================
