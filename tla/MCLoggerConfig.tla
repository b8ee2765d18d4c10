---------------------------- MODULE MCLoggerConfig ----------------------------
(***************************************************************************)
(* An instance of LoggerConfig for TLC: short documents, among them every  *)
(* way to put one output_order into the text.                              *)
(***************************************************************************)
EXTENDS LoggerConfig

At(section) == <<section, 0>>

Pair(holder, key, value) == [in |-> holder, key |-> key, value |-> value]

Profile(i, by) == Pair(<<"profile", i>>, by, "m1")

Orders == {Pair(h, "output_order", v) : h \in {At("text"), <<"profile", 1>>}, v \in {"grouped", "mixed", "bad"}}

MCDocuments ==
    {<<>>, <<Pair(At("rolling"), "enabled", "bad")>>, <<Pair(At("remote"), "udp_host", "")>>,
     <<Pair(At("text"), "file_path", "log")>>}
    \cup {<<Profile(1, by), o>> : by \in {"module", "file_path_pattern"}, o \in Orders}
    \cup {<<Pair(At("text"), "output_order", "mixed"), Profile(1, "module"), o>> : o \in Orders}
==============================================================================
