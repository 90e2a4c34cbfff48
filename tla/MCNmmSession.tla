------------------------------ MODULE MCNmmSession ------------------------------
(* The applications of the session's runs. *)
EXTENDS NmmSession

CONSTANTS u1, u2    \* threads

OfOne(requests, bound, patient) ==
    [users |-> {u1}, requests |-> requests, calls |-> bound, patient |-> patient]

OfTwo(requests, bound) ==
    [users |-> {u1, u2}, requests |-> requests, calls |-> bound, patient |-> FALSE]

\* Two threads without a STOP; one that also stops its searches; two that may
\* stop what the other has begun.
Applications ==
    { OfTwo({"SEARCH", "FOLLOW", "RESET"}, 4),
      OfOne({"SEARCH", "SCAN", "STOP"}, 6, TRUE),
      OfTwo({"SEARCH", "STOP", "RESET"}, 3) }

\* A STOP overtaken by the reply it was to prevent.
Stopping == { OfOne({"SEARCH", "STOP"}, 4, FALSE) }

\* Cell follows faster than the firmware, then a STOP.
Following == { OfOne({"FOLLOW", "STOP"}, 6, FALSE) }
===============================================================================
