---------------------------- MODULE MCTournament ----------------------------
(* Tournament on small fields. *)
EXTENDS Tournament, TLC

CONSTANTS o1, o2

Of(format, sizes, officers) ==
    {[format |-> format, n |-> n, officers |-> officers] : n \in sizes}

\* The brackets that are only generated: every size up to 16.
Unplayed ==
    Of("single_elim", 2 .. 16, {}) \cup Of("double_elim", 2 .. 16, {})
    \cup Of("round_robin", 2 .. 11, {})

\* Two officers at once on small brackets, one alone on larger ones.
Played ==
    Of("single_elim", {3, 4}, {o1, o2}) \cup Of("double_elim", {2}, {o1, o2})
    \cup Of("round_robin", {2, 3}, {o1, o2})
    \cup Of("single_elim", {5}, {o1}) \cup Of("double_elim", {3, 4}, {o1})

AllFields == Unplayed \cup Played

Twice == Of("single_elim", {4}, {o1, o2})
=============================================================================
