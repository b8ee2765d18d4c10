----------------------------- MODULE ConfigCases -----------------------------
(***************************************************************************)
(* Values of the parameters of ConfigReload, ConfigTree and ConfigText for *)
(* TLC.                                                                    *)
(***************************************************************************)
EXTENDS ConfigNode

CONSTANTS keyA, keyB, keyC

(***************************************************************************)
(* ConfigReload: with a debounce window, and with a remote source and      *)
(* every tolerance for it.                                                 *)
(***************************************************************************)
ReloadOptions ==
    {[allowMissing |-> FALSE, allowRemoteFailure |-> FALSE, remote |-> FALSE, debounce |-> 1, interval |-> 0],
     [allowMissing |-> TRUE, allowRemoteFailure |-> TRUE, remote |-> TRUE, debounce |-> 0, interval |-> 1],
     [allowMissing |-> TRUE, allowRemoteFailure |-> FALSE, remote |-> TRUE, debounce |-> 0, interval |-> 0]}

(***************************************************************************)
(* ConfigTree: paths through an object, below it and into an array, where  *)
(* a base file has nothing, an object or an array, and a rule of each kind.*)
(***************************************************************************)
EditedPaths == {<<keyA>>, <<keyA, keyB>>, <<keyA, 2>>}
EditedValues == {Number(7), EmptyObject, Array(<<Number(1)>>)}
BaseTrees == {EmptyObject, Object(keyA :> Object(keyB :> Number(7))), Object(keyA :> Array(<<Number(1), EmptyObject>>))}
VariablePaths == {<<keyA>>, <<keyA, keyB>>}
StrictForA == [byPath |-> (<<keyA>> :> TRUE), bySource |-> <<>>, global |-> FALSE]
OneRuleOfEachKind ==
    <<[kind |-> "require", path |-> <<keyA>>, failFast |-> TRUE],
      [kind |-> "mutex", paths |-> {<<keyA, keyB>>, <<keyA, 1>>}, failFast |-> FALSE],
      [kind |-> "range", path |-> <<keyA>>, min |-> 0, max |-> 9, failFast |-> FALSE],
      [kind |-> "expect", path |-> <<keyA>>, expected |-> "int", failFast |-> FALSE],
      [kind |-> "choice", path |-> <<keyA>>, choices |-> {Number(7), String("7")}, failFast |-> FALSE],
      [kind |-> "dependency", path |-> <<keyA, keyB>>, on |-> <<keyA, 2>>, failFast |-> FALSE]>>

(***************************************************************************)
(* ConfigText: what is saved, empty objects and lists in it, and files     *)
(* that are there before the first save, with comments, sections in any    *)
(* order and a line nobody can read.                                       *)
(***************************************************************************)
SavedTrees ==
    {Object(<<>>), Object(keyA :> Number(1)), Object(keyA :> Object(keyB :> String(1))),
     Object((keyA :> Object((keyB :> Number(2)) @@ (keyC :> Number(3)))) @@ (keyB :> Null)),
     Object(keyA :> Array(<<Number(1), String(2)>>)),
     Object((keyB :> Number(4)) @@ (keyA :> Array(<<Object(keyB :> Number(1))>>))),
     Object(keyC :> Object(keyB :> Object(keyA :> Number(5)))),
     Object((keyA :> EmptyObject) @@ (keyB :> Number(6))),
     Object((keyA :> Object((keyB :> Array(<<>>)) @@ (keyC :> Number(7)))) @@ (keyB :> Array(<<EmptyObject, Number(8)>>)))}
FileDrafts ==
    [ini |-> {<<>>, <<Comment, Section(<<keyA>>), Pair(<<keyB>>, Bare(9)), Section(<<keyC, keyB>>), Pair(<<keyA>>, Quoted(9))>>,
              <<Pair(<<keyA, keyB>>, Bare(8)), Section(<<keyA>>), Pair(<<keyC>>, Bare(8)), Comment>>,
              <<Section(<<keyB>>), Junk>>},
     yaml |-> {<<>>, <<MapLine(0, keyA, NoText), ItemLine(1, Bare(9)), Comment, MapLine(0, keyB, Bare(9))>>,
               <<MapLine(0, keyA, NoText), MapLine(1, keyB, Bare(9)), MapLine(1, keyC, Bare(9)), MapLine(0, keyB, Bare(9))>>}]
==============================================================================
