--------------------------- MODULE MCConfigSource ---------------------------
(* ConfigSource with two texts, the third version going back to the first; *)
(* or with an invalid text between two valid ones, so that a ConfigMap     *)
(* created again may hold either.                                          *)
EXTENDS ConfigSource

MCText == <<"a", "b", "a">>
MCInvalid == {}
MCTextInvalid == <<"a", "bad", "b">>
MCBad == {"bad"}
=============================================================================
