----------------------------- MODULE ConfigNode -----------------------------
(***************************************************************************)
(* cfgx::Node: null, scalars, objects and arrays, the walks along a path   *)
(* and the leaves of a tree. A path is a sequence of keys and of indices   *)
(* from 1; the order of the members of an object is left out. Also the     *)
(* lines of the text files in which trees are kept.                        *)
(***************************************************************************)
EXTENDS Integers, Sequences, SequencesExt, TLC

Null == [kind |-> "null", of |-> {}]
String(v) == [kind |-> "string", of |-> v]
Number(v) == [kind |-> "int", of |-> v]
Object(members) == [kind |-> "object", of |-> members]
Array(items) == [kind |-> "array", of |-> items]
EmptyObject == Object(<<>>)
IsKey(token) == token \notin Nat
Kind(token) == IF IsKey(token) THEN "object" ELSE "array"

(***************************************************************************)
(* GetNode, SetNode, RemoveNode. An error of GetNode or RemoveNode is      *)
(* "missing" or "mismatch".                                                *)
(***************************************************************************)
Error(why) == [ok |-> FALSE, why |-> why]
Child(node, token) ==
    IF node.kind # Kind(token) THEN Error("mismatch")
    ELSE IF token \notin DOMAIN node.of THEN Error("missing")
    ELSE [ok |-> TRUE, node |-> node.of[token]]

GetNode(root, path) ==
    FoldLeft(LAMBDA r, token : IF r.ok THEN Child(r.node, token) ELSE r, [ok |-> TRUE, node |-> root], path)
Exists(root, path) == GetNode(root, path).ok

\* The container of a token: null becomes one; an object gains the key, an array grows with nulls up to the index.
Container(node, token) ==
    LET in == IF node.kind # "null" THEN node ELSE [kind |-> Kind(token), of |-> <<>>]
    IN IF in.kind # Kind(token) \/ token \in DOMAIN in.of THEN in
       ELSE IF IsKey(token) THEN Object(in.of @@ (token :> Null))
       ELSE Array([i \in 1..token |-> IF i \in DOMAIN in.of THEN in.of[i] ELSE Null])

\* [ok, node]: also what a failing call leaves behind.
RECURSIVE SetNode(_, _, _)
SetNode(node, path, value) ==
    IF path = <<>> THEN [ok |-> TRUE, node |-> value]
    ELSE LET in == Container(node, Head(path)) IN
         IF in.kind # Kind(Head(path)) THEN [ok |-> FALSE, node |-> in]
         ELSE LET r == SetNode(in.of[Head(path)], Tail(path), value)
              IN [ok |-> r.ok, node |-> [in EXCEPT !.of[Head(path)] = r.node]]

RemoveIn(node, token) ==
    IF IsKey(token) THEN Object([k \in DOMAIN node.of \ {token} |-> node.of[k]]) ELSE Array(RemoveAt(node.of, token))

RECURSIVE RemoveNode(_, _)
RemoveNode(node, path) ==
    LET child == Child(node, Head(path)) IN
    IF ~child.ok THEN [ok |-> FALSE, why |-> child.why, node |-> node]
    ELSE IF Len(path) = 1 THEN [ok |-> TRUE, node |-> RemoveIn(node, Head(path))]
    ELSE LET r == RemoveNode(child.node, Tail(path)) IN [r EXCEPT !.node = [node EXCEPT !.of[Head(path)] = r.node]]

IsLeaf(node) == node.kind \notin {"object", "array"} \/ node.of = <<>>

\* FlattenLeafNodes: the leaves below a node, empty containers among them.
RECURSIVE Flatten(_, _)
Flatten(node, path) ==
    IF IsLeaf(node) THEN path :> node
    ELSE LET below == [t \in DOMAIN node.of |-> Flatten(node.of[t], Append(path, t))]
         IN [p \in UNION {DOMAIN below[t] : t \in DOMAIN below} |-> below[p[Len(path) + 1]][p]]

Leaves(node) == Flatten(node, <<>>)

(***************************************************************************)
(* The lines of INI, TOML and YAML files. The text of a scalar tells its   *)
(* kind: a string is quoted. A pair's key may be a path of several keys.   *)
(***************************************************************************)
NoText == <<"none", 0>>
Bare(v) == <<"bare", v>>
Quoted(v) == <<"quoted", v>>
NullText == <<"null", 0>>

Comment == [kind |-> "comment"]
Junk == [kind |-> "junk"]
Section(path) == [kind |-> "section", path |-> path]
Pair(key, text) == [kind |-> "pair", path |-> key, text |-> text]

MapLine(indent, key, text) == [kind |-> "map", indent |-> indent, key |-> key, text |-> text]
ItemLine(indent, text) == [kind |-> "item", indent |-> indent, text |-> text]
=============================================================================
