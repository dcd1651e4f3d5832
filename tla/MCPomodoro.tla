---------------------------- MODULE MCPomodoro -----------------------------
(* An instance of Pomodoro for TLC, with a minute of two seconds.          *)
EXTENDS Pomodoro

CONSTANTS en, ru, bell

MCDefaults == [work |-> 2, break |-> 1, language |-> en, sound |-> bell,
               autostart |-> FALSE]
=============================================================================
