--------------------------- MODULE MCControlLoop ---------------------------
(* Instance of ControlLoop for TLC.                                        *)
EXTENDS ControlLoop

\* A chunk longer than the horizon, a shorter one, and an emergency stop.
MCChunks == {<<"move", "move", "move">>, <<"move">>, <<"stop_all">>}
============================================================================
