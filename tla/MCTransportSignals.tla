------------------------- MODULE MCTransportSignals -------------------------
(* Small instances of TransportSignals: five-bit durations, four units to a *)
(* second.                                                                  *)
EXTENDS TransportSignals

MCDurations == {-16, -1, 0, 1, 3, 4, 5, 11, 12, 13, 15}
=============================================================================
