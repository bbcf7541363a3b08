----------------------------- MODULE MCTextCaps -----------------------------
(* Small instances of TextCaps: every text of up to five bytes, a cap of    *)
(* four, and a marker long enough to exceed it wherever the cut falls.      *)
EXTENDS TextCaps

MCBytes == {"c", "1", "2", "3", "4"}
MCWidth == [b \in MCBytes |->
    CASE b = "c" -> 0 [] b = "1" -> 1 [] b = "2" -> 2 [] b = "3" -> 3 [] b = "4" -> 4]
MCTexts == UNION {[1..n -> MCBytes] : n \in 0..5}
MCMarker == <<"3", "c", "c", "1", "1">>
MCReplacement == <<"3", "c", "c">>
=============================================================================
