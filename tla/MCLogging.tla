----------------------------- MODULE MCLogging -----------------------------
(* Small instances of Logging.                                              *)
EXTENDS Logging, TLC

shape(herr, status, internal, trace, cause, stack) ==
    [herr |-> herr, code |-> "CODE", status |-> status, internal |-> internal,
     trace |-> trace, cause |-> cause, stack |-> stack]

\* Everything set, little set, and no herr error at all.
MCParts == {shape(TRUE, 500, "detail", "id", "wrapped", "stack"),
            shape(TRUE, 404, Empty, "id", Empty, Empty),
            shape(FALSE, 0, Empty, Empty, Empty, Empty)}

\* Values and texts are only compared with one another.
Alike == Permutations(Vals) \cup Permutations(CauseTexts)

\* A logger that keeps everything, and one for errors only.
MCLoggers == [l \in {"all", "errors"} |-> IF l = "all" THEN {"warn", "error"} ELSE {"error"}]
=============================================================================
