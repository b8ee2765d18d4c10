------------------------------ MODULE MCLogging -------------------------------
(***************************************************************************)
(* An instance of Logger for TLC: two producers, one that calls Flush, and *)
(* one reconfiguration.                                                    *)
(***************************************************************************)
EXTENDS Logger

CONSTANTS p1, p2, f1

\* Lines in order, one watermark, a fatal event flushes.
Mixed ==
    [record |-> 2, output |-> 2, order |-> "mixed", kinds |-> {"file"}, fatal |-> "flush", periodic |-> FALSE,
     backpressure |-> [on |-> TRUE, watermark |-> 1, below |-> 3], profiles |-> <<>>]

\* Grouped lines and a periodic flush, but what p1 logs is written at once: the profile of
\* its module says so, and the profile of its file lowers both levels.
Grouping ==
    [Mixed EXCEPT !.order = "grouped", !.periodic = TRUE, !.fatal = "abort",
        !.profiles = <<[module |-> p1, file |-> "none", set |-> [order |-> "mixed", record |-> 3]],
                       [module |-> "none", file |-> p1, set |-> [record |-> 1, output |-> 1]]>>]

ToGrouping == {Grouping}
OnlyFile == {{"file"}}

\* A low and a fatal event, or two events of one producer.
MCScripts ==
    {[p \in {p1, p2} |-> IF p = p1 THEN s[1] ELSE s[2]] : s \in {<<<<1>>, <<5>>>>, <<<<>>, <<2, 2>>>>}}
===============================================================================
