---------------------------- MODULE MCHttpServer ----------------------------
(* Small instances of HttpServer.                                           *)
EXTENDS HttpServer

shape(code, status, secs, render) ==
    [herr |-> TRUE, code |-> code, status |-> status, secs |-> secs, render |-> render]

MCCodes == {"INTERNAL", "PANIC", "NOT_FOUND", "BUSY", "ODD", "MARSHALER", "IMPOSSIBLE", "HINT",
            "EMPTY", "plain"}

MCCauses == {
    shape("NOT_FOUND", 404, 0, "fine"),
    shape("BUSY", 503, 7, "fine"),
    shape("ODD", 422, 0, "unencodable"),
    shape("MARSHALER", 409, 3, "panics"),
    shape("IMPOSSIBLE", 1000, 5, "fine"),
    shape("HINT", 103, 2, "fine"),
    shape("EMPTY", 204, 0, "fine"),
    [herr |-> FALSE, code |-> "plain", status |-> 0, secs |-> 0, render |-> "fine"] }
=============================================================================
