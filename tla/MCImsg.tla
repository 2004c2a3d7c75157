------------------------------- MODULE MCImsg -------------------------------
(***************************************************************************)
(* An instance of Imsg for TLC: one consumer, and threads that may make    *)
(* any untimed call.                                                       *)
(***************************************************************************)
EXTENDS Imsg

\* The consumer calls rtl_imsgWaitTime for messages and timers, and sets *ms anew
\* for each call: after a timeout it is 0, and a call with 0 is rtl_imsgWait.
Server == CHOOSE t \in Thread : TRUE

MixedCalls ==
    [t \in Thread |->
        IF t = Server THEN {[mode |-> "BOTH", timed |-> TRUE]}
                      ELSE [mode : Mode, timed : {FALSE}]]
=============================================================================
