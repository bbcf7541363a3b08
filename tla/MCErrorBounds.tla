--------------------------- MODULE MCErrorBounds ---------------------------
(* Small instances of ErrorBounds.  Each cap is 2 or less, so that a chain of *)
(* MaxCalls calls goes two calls past it.                                     *)
EXTENDS ErrorBounds

MCKeys == {"k1", "k2", "k3"}
MCValues == {"short", "long"}
MCOversized == {"long"}

entry(f, m) == [field |-> f, code |-> "BAD", message |-> m]

MCTriples == {entry("age", "too young"), entry("email", NoMessage)}
MCMembers == {"herr", "wrapped", "plain"}
MCEntryOf == [m \in {"herr", "wrapped"} |->
                IF m = "herr" THEN entry("name", NoMessage) ELSE entry("zip", "bad zip")]
MCCauses ==
    {[aggregate |-> FALSE, members |-> <<>>],
     [aggregate |-> FALSE, members |-> <<"herr">>],
     [aggregate |-> TRUE, members |-> <<"plain">>],
     [aggregate |-> TRUE, members |-> <<"plain", "herr", "plain", "wrapped">>],
     [aggregate |-> TRUE, members |-> <<"wrapped", "plain", "herr", "wrapped">>]}
MCStatic == {[k \in {} |-> "short"], [k \in {"k1"} |-> "short"], [k \in {"k3"} |-> "long"]}
=============================================================================
