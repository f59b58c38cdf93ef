----------------------------- MODULE MCReproc -----------------------------
(* One child with which the program does everything and a second one that  *)
(* it only polls, so that one deadline can hide another.                   *)
EXTENDS Reproc

do(action, timeout) == [action |-> action, timeout |-> timeout]

MCCalls == [p |-> {"wait", "terminate", "kill", "stop", "destroy"}, q |-> {}]
MCDeadlines == [p |-> {0, 2}, q |-> {0, 1}]
MCStopArgs ==
    [p |-> { << NOOP, NOOP, NOOP >>,
             << do("terminate", 1), NOOP, do("kill", 1) >>,
             << do("wait", REPROC_DEADLINE), do("terminate", 1), do("kill", REPROC_INFINITE) >> },
     q |-> { << NOOP, NOOP, NOOP >> }]

MCTimeouts    == {1, REPROC_INFINITE}
MCSourceLists == { << "p", "q" >>, << NULL, "q", "p" >> }

(* One child that is only stopped, as in the example of reproc.h:475-480.  *)
NoopCalls     == [p |-> {"stop"}]
NoopDeadlines == [p |-> {0}]
NoopStopArgs  == [p |-> { << do("wait", 2), do("terminate", 1), NOOP >> }]
NoopTimeouts  == {1}
NoopSources   == { << "p" >> }
=============================================================================
