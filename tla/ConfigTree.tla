----------------------------- MODULE ConfigTree -----------------------------
(***************************************************************************)
(* cfgx trees and their layers: SetNode and RemoveNode on the trees the    *)
(* files hold, environment variables, runtime operations, ComposeLayers    *)
(* with its source trace, the differences between two compositions, and    *)
(* the validation rules.                                                   *)
(***************************************************************************)
EXTENDS ConfigNode, FiniteSets

CONSTANTS Paths,     \* paths the edits use: sequences of keys and indices
          Values,    \* trees the edits put there
          Bases,     \* trees the base file may hold at the start
          EnvPaths,  \* what the names of environment variables map to: sequences of keys
          BadName,   \* an environment variable whose name does not map to a path
          Policy,    \* [byPath, bySource, global]: values that stay strings
          Rules,     \* sequence of [kind, ..., failFast]
          MaxEdits   \* bound: edits

VARIABLES trees,     \* the trees of the base, remote and local layer
          env,       \* the environment variables: a set of paths
          ops,       \* of RuntimeOverrides: the operations, in order
          append,    \* append_arrays
          composed, trace, before, diff, accepted,
          dirty,     \* of the properties: a layer changed since the last composition
          edit,      \* the last edit of a tree: [tree, op, ok, result]
          edits

vars == <<trees, env, ops, append, composed, trace, before, diff, accepted, dirty, edit, edits>>
result == <<composed, trace, before, diff, accepted>>

FileLayers == {"base", "remote", "local"}
Order == <<"base", "env", "remote", "local", "runtime">>

(***************************************************************************)
(* The layers of the environment and of the overrides: [ok, node].         *)
(***************************************************************************)
ResolveStrictStringPolicy(layer, path) ==
    IF path \in DOMAIN Policy.byPath THEN Policy.byPath[path]
    ELSE IF layer \in DOMAIN Policy.bySource THEN Policy.bySource[layer] ELSE Policy.global
ParseScalar(strict) == IF strict THEN String("7") ELSE Number(7)

\* The names are sorted, so that a path comes before the paths below it.
SortedNames == SetToSortSeq(env \ {BadName}, LAMBDA p, q : Len(p) < Len(q))

SetIn(r, path, value) == IF r.ok THEN SetNode(r.node, path, value) ELSE r
EnvLayer ==
    IF BadName \in env THEN [ok |-> FALSE, node |-> EmptyObject]
    ELSE FoldLeft(LAMBDA r, p : SetIn(r, p, ParseScalar(ResolveStrictStringPolicy("env", p))),
                  [ok |-> TRUE, node |-> EmptyObject], SortedNames)

Apply(r, op) ==
    CASE op.kind = "replace" -> [ok |-> r.ok, node |-> op.value]
      [] op.kind = "set"     -> SetIn(r, op.path, op.value)
      [] op.kind = "remove"  ->
            LET removed == RemoveNode(r.node, op.path)
            IN IF ~r.ok THEN r ELSE [ok |-> removed.ok \/ removed.why = "missing", node |-> removed.node]

Materialize == FoldLeft(Apply, [ok |-> TRUE, node |-> EmptyObject], ops)

(***************************************************************************)
(* Merge, with the trace: a function from paths of leaves to layers.       *)
(***************************************************************************)
\* CollectSourceTrace on top of an existing trace.
Collect(node, layer, path, t) == [p \in DOMAIN Flatten(node, path) |-> layer] @@ t

Without(t, gone) == [p \in DOMAIN t \ gone |-> t[p]]

\* A mutant: only the entry of the path itself.
EraseEntry(t, path) == Without(t, {path})

EraseSubtree(t, path) == Without(t, {p \in DOMAIN t : IsPrefix(path, p)})

Replaced(overlay, t, layer, path) ==
    [node |-> overlay, trace |-> Collect(overlay, layer, path, EraseSubtree(t, path))]

\* The entry of an empty container that gains members.
Filled(dst, src, t, path) == IF dst.of = <<>> /\ src.of # <<>> THEN Without(t, {path}) ELSE t

RECURSIVE Merge(_, _, _, _, _)
Merge(dst, src, t, layer, path) ==
    IF dst.kind = "object" /\ src.kind = "object" THEN
        LET MergeMember(r, k) ==
                IF k \in DOMAIN dst.of
                THEN LET m == Merge(dst.of[k], src.of[k], r.trace, layer, Append(path, k))
                     IN [node |-> [r.node EXCEPT !.of[k] = m.node], trace |-> m.trace]
                ELSE [node |-> Object(r.node.of @@ (k :> src.of[k])),
                      trace |-> Collect(src.of[k], layer, Append(path, k), r.trace)]
        IN FoldLeft(MergeMember, [node |-> dst, trace |-> Filled(dst, src, t, path)], SetToSeq(DOMAIN src.of))
    ELSE IF dst.kind = "array" /\ src.kind = "array" /\ append THEN
        [node |-> Array(dst.of \o src.of),
         trace |-> FoldLeft(LAMBDA u, i : Collect(src.of[i], layer, Append(path, Len(dst.of) + i), u),
                            Filled(dst, src, t, path), [i \in DOMAIN src.of |-> i])]
    ELSE Replaced(src, t, layer, path)

(***************************************************************************)
(* BuildDiffEntries: the paths, and what happened to them.                 *)
(***************************************************************************)
Diff(old, new) ==
    LET was == Leaves(old) is == Leaves(new)
    IN {<<"added", p>> : p \in DOMAIN is \ DOMAIN was} \cup {<<"removed", p>> : p \in DOMAIN was \ DOMAIN is}
         \cup {<<"changed", p>> : p \in {q \in DOMAIN is \cap DOMAIN was : is[q] # was[q]}}

(***************************************************************************)
(* Validate and the rules: TRUE when the rule reports an issue.            *)
(***************************************************************************)
RequirePath(rule, root) == ~Exists(root, rule.path)
ExpectKind(rule, root) == ~Exists(root, rule.path) \/ GetNode(root, rule.path).node.kind # rule.expected
NumericRange(rule, root) ==
    ~(rule.min <= rule.max /\ Exists(root, rule.path) /\ GetNode(root, rule.path).node.kind = "int"
        /\ GetNode(root, rule.path).node.of \in rule.min..rule.max)
Choice(rule, root) == ~(Exists(root, rule.path) /\ GetNode(root, rule.path).node \in rule.choices)
Mutex(rule, root) == Cardinality({p \in rule.paths : Exists(root, p)}) > 1
Dependency(rule, root) == Exists(root, rule.path) /\ ~Exists(root, rule.on)

Reports(rule, root) ==
    CASE rule.kind = "require"    -> RequirePath(rule, root)
      [] rule.kind = "expect"     -> ExpectKind(rule, root)
      [] rule.kind = "range"      -> NumericRange(rule, root)
      [] rule.kind = "choice"     -> Choice(rule, root)
      [] rule.kind = "mutex"      -> Mutex(rule, root)
      [] rule.kind = "dependency" -> Dependency(rule, root)

\* The issues up to the first rule that fails fast.
Issues(rules, root) ==
    FoldLeft(LAMBDA r, i : IF r.done \/ ~Reports(rules[i], root) THEN r
                           ELSE [issues |-> Append(r.issues, i), done |-> rules[i].failFast],
             [issues |-> <<>>, done |-> FALSE], [i \in DOMAIN rules |-> i]).issues

(***************************************************************************)
(* Actions.                                                                *)
(***************************************************************************)
Count == edits < MaxEdits /\ edits' = edits + 1 /\ dirty' = TRUE
Operations == [kind : {"set"}, path : Paths, value : Values] \cup [kind : {"remove"}, path : Paths]

EditFile(layer) ==
    /\ Count
    /\ \E op \in Operations :
        LET r == IF op.kind = "set" THEN SetNode(trees[layer], op.path, op.value) ELSE RemoveNode(trees[layer], op.path)
        IN /\ trees' = [trees EXCEPT ![layer] = r.node]
           /\ edit' = [tree |-> trees[layer], op |-> op, ok |-> r.ok, after |-> r.node]
    /\ UNCHANGED <<env, ops, append, result>>

SetVariable ==
    /\ Count
    /\ \E name \in EnvPaths \cup {BadName} : name \notin env /\ env' = env \cup {name}
    /\ UNCHANGED <<trees, ops, append, result, edit>>

AddOverride ==
    /\ Count
    /\ \E op \in Operations \cup [kind : {"replace"}, value : Values] : ops' = Append(ops, op)
    /\ UNCHANGED <<trees, env, append, result, edit>>

ClearOverrides == ops # <<>> /\ ops' = <<>> /\ dirty' = TRUE /\ UNCHANGED <<trees, env, append, result, edit, edits>>

LayerTree(layer) ==
    CASE layer \in FileLayers -> trees[layer]
      [] layer = "env"        -> EnvLayer.node
      [] layer = "runtime"    -> Materialize.node
Present(layer) == layer # "runtime" \/ ops # <<>>

\* The composition of the first n layers, and its trace.
Composition(n) ==
    FoldLeft(LAMBDA r, layer : IF Present(layer) THEN Merge(r.node, LayerTree(layer), r.trace, layer, <<>>) ELSE r,
             [node |-> trees["base"], trace |-> Collect(trees["base"], "base", <<>>, <<>>)], SubSeq(Order, 2, n))

ComposeLayers ==
    /\ dirty /\ EnvLayer.ok /\ Materialize.ok /\ dirty' = FALSE
    /\ LET all == Composition(Len(Order)) IN
        /\ composed' = all.node /\ trace' = all.trace
        /\ before' = composed /\ diff' = Diff(composed, all.node)
        /\ accepted' = (Issues(Rules, all.node) = <<>>)
    /\ UNCHANGED <<trees, env, ops, append, edit, edits>>

Init ==
    /\ \E base \in Bases : trees = [layer \in FileLayers |-> IF layer = "base" THEN base ELSE EmptyObject]
    /\ env = {} /\ ops = <<>> /\ append \in BOOLEAN
    /\ composed = EmptyObject /\ trace = (<<>> :> "base") /\ before = EmptyObject /\ diff = {}
    /\ accepted = (Issues(Rules, EmptyObject) = <<>>)
    /\ edit = [ok |-> TRUE, tree |-> EmptyObject, op |-> [kind |-> "replace", value |-> EmptyObject],
               after |-> EmptyObject]
    /\ dirty = TRUE /\ edits = 0

Next ==
    \/ \E layer \in FileLayers : EditFile(layer)
    \/ SetVariable \/ AddOverride \/ ClearOverrides \/ ComposeLayers

Spec == Init /\ [][Next]_vars

(***************************************************************************)
(* Properties.                                                             *)
(***************************************************************************)
\* A failed SetNode or RemoveNode leaves the tree as it was; a successful one puts the value there, or takes one
\* element out, and outside the path, and the array it ends in, every leaf keeps its value.
Within(op, p) == IsPrefix(IF op.kind = "remove" /\ ~IsKey(Last(op.path)) THEN Front(op.path) ELSE op.path, p)
Inhabited(node) == node.kind \notin {"null", "object", "array"}
EditsAreLocal ==
    LET op == edit.op was == Leaves(edit.tree) is == Leaves(edit.after) IN
    /\ ~edit.ok => edit.after = edit.tree
    /\ edit.ok /\ op.kind = "set" => GetNode(edit.after, op.path) = [ok |-> TRUE, node |-> op.value]
    /\ edit.ok /\ op.kind \in {"set", "remove"} =>
        \A p \in DOMAIN was :
            Within(op, p) \/ (IsPrefix(p, op.path) /\ ~Inhabited(was[p])) \/ (p \in DOMAIN is /\ is[p] = was[p])

\* The layer that had the last say on a leaf: it changed it, or wrote it again with a leaf of its own. An empty
\* object says nothing about an object; appended arrays say nothing about the elements that were there.
Says(n, p) ==
    LET layer == Order[n] own == Leaves(LayerTree(layer)) was == GetNode(Composition(n - 1).node, p) IN
    /\ Present(layer)
    /\ \/ GetNode(Composition(n).node, p) # was
       \/ p \in DOMAIN own /\ own[p].kind # "object" /\ ~(append /\ (own[p].kind = "array" \/ \E i \in DOMAIN p : ~IsKey(p[i])))
       \/ ~append /\ \E i \in 0..Len(p) : LET a == SubSeq(p, 1, i) IN
                         Exists(LayerTree(layer), a) /\ GetNode(LayerTree(layer), a).node.kind = "array"

\* The source trace of a composition names every leaf of the result and no other path, with the last layer that
\* had a say on it.
TraceExact ==
    /\ DOMAIN trace = DOMAIN Leaves(composed)
    /\ ~dirty =>
        \A p \in DOMAIN trace :
            trace[p] = Order[CHOOSE n \in DOMAIN Order :
                                /\ n = 1 \/ Says(n, p)
                                /\ \A m \in (n + 1)..Len(Order) : ~Says(m, p)]

\* A reload reports a change exactly when the composition differs.
DiffExact == (diff = {}) <=> (before = composed)

\* A configuration is accepted exactly when every rule holds of it, whatever their order and fail_fast.
AcceptedMeansRulesHold == accepted <=> \A i \in DOMAIN Rules : ~Reports(Rules[i], composed)
=============================================================================
