---------------------------- MODULE ReprocTime ----------------------------
(***************************************************************************)
(* Timeouts and deadlines of reproc (reproc/src/reproc.c).  An instant is  *)
(* represented by how many ticks it is away, 0 once it has come: a timeout *)
(* and a deadline are then compared as the code compares them after it has *)
(* subtracted the clock, and no clock grows without bound.                 *)
(***************************************************************************)
EXTENDS Integers, Sequences

REPROC_INFINITE == -1
REPROC_DEADLINE == -2

(* The macro MIN. *)
Lesser(a, b) == IF a < b THEN a ELSE b

(* expiry: how long a call may take that is limited by both.               *)
Expiry(timeout, deadline) ==
    CASE deadline = REPROC_INFINITE -> timeout
      [] deadline = 0               -> REPROC_DEADLINE
      [] deadline > 0               ->
            IF timeout = REPROC_INFINITE THEN deadline ELSE Lesser(timeout, deadline)

(* A tick of the clock, for one instant. *)
Nearer(t) == IF t > 0 THEN t - 1 ELSE t

(* find_earliest_deadline over the deadlines of the sources; a source      *)
(* whose process is NULL is passed over.  found is what is known after the *)
(* sources before i.                                                       *)
NO_SOURCE == -3

Consider(i, deadline, found) ==
    LET current == Expiry(REPROC_INFINITE, deadline)
    IN  IF /\ deadline # NO_SOURCE
           /\ found.min # REPROC_DEADLINE
           /\ found.min = REPROC_INFINITE \/ current < found.min
        THEN [earliest |-> i, min |-> current]
        ELSE found

\* Mutant: the first process decides.
FindFirst(deadlines) == CHOOSE i \in DOMAIN deadlines :
    /\ deadlines[i] # NO_SOURCE
    /\ \A j \in 1 .. i - 1 : deadlines[j] = NO_SOURCE

FindEarliest(deadlines) ==
    LET scan[i \in 0 .. Len(deadlines)] ==
            IF i = 0 THEN [earliest |-> 1, min |-> REPROC_INFINITE]
            ELSE Consider(i, deadlines[i], scan[i - 1])
    IN  scan[Len(deadlines)].earliest
=============================================================================
