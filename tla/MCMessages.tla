----------------------------- MODULE MCMessages -----------------------------
(***************************************************************************)
(* Messages with a peer that has the key of Me and one that has not; texts *)
(* that fit a frame and one that is too long, and an alias short enough    *)
(* for the interface to pad its frame.                                     *)
(***************************************************************************)
EXTENDS Messages

CONSTANTS a, b, c

MCMacs == {a, b, c}
MCKey == [m \in MCMacs |-> IF m = c THEN "other" ELSE "shared"]
MCTexts == <<{<<Byte(1)>>, <<Byte(2), Byte(3), Byte(4), Byte(5)>>},
             {<<Byte(6)>>}>>
MCAlias == <<Byte(7)>>
=============================================================================
