----------------------------- MODULE MCSettings -----------------------------
(* Instances of Settings.  An hour is 3 of the 64 values of a duration, so  *)
(* 11 hours and more wrap around.                                           *)
EXTENDS Settings

CONSTANT unset

Numbers == {-1, 0, 1, 3, 5}
Wrapping == {11}

SomeValues == {-1, 9, unset}
NoValues   == {unset}
=============================================================================
