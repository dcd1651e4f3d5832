--------------------------- MODULE MCMouseDriver ---------------------------
(* Instances of MouseDriver for TLC: short event texts and short buffers,  *)
(* so that the cursors wrap and the buffer fills and drains many times.    *)
EXTENDS MouseDriver

CONSTANTS x, y

MCByte  == {x, y}
MCXLine == <<x>>
MCYLine == <<y>>
MCData  == {<<y, x>>}
=============================================================================
