------------------------------ MODULE ToolCases ------------------------------
(***************************************************************************)
(* Values of the parameters of ArgParse, TuiScreen, TuiApp, TuiInput,      *)
(* FsxSync, FsxWatcher, FsxArchive and FileRotation for TLC.               *)
(***************************************************************************)
EXTENDS Integers, Sequences, TLC

CONSTANTS one, big, x, XX, go, sub, None, nameA, nameB, Folder, Absent

(***************************************************************************)
(* ArgParse: texts one and big are the numbers 1 and 9, XX is x in another *)
(* case, go and sub name a command and one below it.                       *)
(***************************************************************************)
NumberOf == (one :> 1) @@ (big :> 9) @@ (x :> None) @@ (XX :> None)
Lower == (one :> one) @@ (big :> big) @@ (x :> x) @@ (XX :> x) @@ (go :> go) @@ (sub :> sub)

Word(t) == [kind |-> "word", text |-> t]
LongWith(name, t) == [kind |-> "long", name |-> name, value |-> t]
Short(letters) == [kind |-> "short", letters |-> letters]
CommandLineTokens ==
    {Word(t) : t \in {one, big, x, XX, go, sub}} \cup {LongWith(n, None) : n \in {"n", "v", "list", "q"}}
    \cup {LongWith("n", one), LongWith("n", big), LongWith("v", one), Short(<<"v">>), Short(<<"n">>),
          Short(<<"v", "t">>), Short(<<"v", "n">>), [kind |-> "terminator"], [kind |-> "help"]}

\* --n, -n or --q takes a number from 0 to 5.
OptionN ==
    [name |-> "n", aliases |-> {"q"}, letters |-> {"n"}, type |-> "int", mode |-> "Override", min |-> 0, max |-> 5,
     fallback |-> FALSE, choices |-> {}, default |-> None, required |-> FALSE]
Flag(n, mode) ==
    [OptionN EXCEPT !.name = n, !.aliases = {}, !.letters = {n}, !.type = "bool", !.mode = mode, !.min = None, !.max = None]
OptionList == [OptionN EXCEPT !.name = "list", !.aliases = {}, !.letters = {}, !.type = "string", !.mode = "Append",
                              !.min = None, !.max = None]
Positional ==
    [name |-> "p", variadic |-> FALSE, type |-> "int", min |-> None, max |-> None, fallback |-> FALSE, choices |-> {},
     default |-> None, required |-> TRUE]

\* A command tree and rules, then defaults, fallbacks and deferred rules in several combinations.
WithCommands ==
    [options |-> {OptionN, Flag("v", "Count"), Flag("t", "Toggle"), [OptionList EXCEPT !.choices = {x}]},
     positionals |-> <<Positional, [Positional EXCEPT !.name = "r", !.variadic = TRUE, !.type = "string", !.required = FALSE]>>,
     commands |-> (go :> {sub}), handler |-> FALSE,
     rules |-> {[kind |-> "mutex", names |-> {"n", "v"}, fast |-> TRUE], [kind |-> "forbids", name |-> "t", fast |-> FALSE]}]
WithDefaults ==
    [options |-> {[OptionN EXCEPT !.default = 1, !.fallback = TRUE], [Flag("v", "Switch") EXCEPT !.required = TRUE],
                  [OptionList EXCEPT !.mode = "Override", !.default = XX, !.choices = {x}],
                  [Flag("t", "Toggle") EXCEPT !.default = 1]},
     positionals |-> <<[Positional EXCEPT !.max = 5, !.default = 9]>>, commands |-> <<>>, handler |-> TRUE,
     rules |-> {[kind |-> "needs", name |-> "list", needed |-> "n", fast |-> TRUE]}]
CountedNumber == [OptionN EXCEPT !.name = "v", !.mode = "Count"]
ParserSpecs ==
    {WithCommands, WithDefaults,
     [WithDefaults EXCEPT !.options = {[OptionN EXCEPT !.default = 9],
                                       [CountedNumber EXCEPT !.aliases = {}, !.letters = {"v"}]}],
     [WithDefaults EXCEPT !.options = {CountedNumber, OptionList}, !.rules = {}]}

(***************************************************************************)
(* TuiScreen: glyph a is one column wide, w and v are two; a frame is two  *)
(* drawings, one over the other.                                           *)
(***************************************************************************)
GlyphWidth == ("a" :> 1) @@ ("w" :> 2) @@ ("v" :> 2)
DrawnTexts == {<<"a">>, <<"w">>, <<"v">>, <<"a", "w">>, <<"w", "w">>}
Drawings ==
    {d \in [x : 1..3, width : {2, 4}, text : DrawnTexts, style : {"plain", "bold"}] :
        d.x + d.width <= 5 /\ (d.style = "plain" \/ d.text \in {<<"w">>, <<"a">>})}
DrawnScreens == {<<>>} \cup {<<d, e>> : d, e \in Drawings}

(***************************************************************************)
(* TuiApp: two roots, one with a panel of rows, and a key of each kind.    *)
(***************************************************************************)
Widgets == {"main", "panel", "rows", "ok", "name", "list", "other", "quit"}
WidgetKind ==
    [w \in Widgets |-> CASE w \in {"main", "rows", "other"} -> "vertical" [] w = "panel" -> "panel"
                         [] w \in {"ok", "quit"} -> "button" [] w = "name" -> "input" [] w = "list" -> "list"]
WidgetChildren ==
    [w \in Widgets |-> CASE w = "main" -> <<"ok", "panel">> [] w = "panel" -> <<"rows">> [] w = "rows" -> <<"name", "list">>
                         [] w = "other" -> <<"quit">> [] OTHER -> <<>>]
LayoutGap == [w \in Widgets |-> IF w = "main" THEN 1 ELSE 0]
LayoutPadding == [w \in Widgets |-> IF w = "other" THEN 1 ELSE 0]
LayoutWeight == [w \in Widgets |-> IF w = "panel" THEN 3 ELSE IF w = "name" THEN 2 ELSE 1]
InputEvents ==
    [type : {"key"}, key : {"tab", "backtab", "up", "left", "down", "enter", "char"}, y : {0}]
    \cup [type : {"mouse"}, key : {"none"}, y : {0, 3, 5}] \cup [type : {"resize"}, key : {"none"}, y : {0}]

(***************************************************************************)
(* TuiInput: keys of one, two, three, four and six bytes.                  *)
(***************************************************************************)
KeyBytes ==
    [up |-> <<"esc", "[", "A">>, ctrl_up |-> <<"esc", "[", "1", ";", "5", "A">>, alt_x |-> <<"esc", "x">>, x |-> <<"x">>,
     f5 |-> <<"esc", "[", "1", "~">>]

(***************************************************************************)
(* Two files and a directory.                                              *)
(***************************************************************************)
FileA == <<nameA>>
FileB == <<nameB>>
BelowA == <<nameA, nameA>>
BelowB == <<nameB, nameA>>
IsFolderMark(v) == v = Folder

(***************************************************************************)
(* FsxSync: contents 1 and 2 have the same size. A sync that replaces the  *)
(* destination or fills it, and a copied tree, under each policy.          *)
(***************************************************************************)
SyncOrder == <<FileA, BelowA, FileB>>
SyncSize == [c \in {1, 2, 3} |-> IF c = 3 THEN 2 ELSE 1]
FolderA == FileA :> Folder
SyncTrees ==
    {<<>>, FileA :> 1, FileB :> 1, FolderA, FolderA @@ (BelowA :> 1) @@ (FileB :> 2),
     FolderA @@ (BelowA :> 2) @@ (FileB :> 3)}
SyncCall(mode, separate, remove, policy) == [mode |-> mode, separate |-> separate, remove |-> remove, policy |-> policy]
SyncCalls ==
    {SyncCall("sync", FALSE, TRUE, "Overwrite")} \cup {SyncCall("sync", TRUE, TRUE, p) : p \in {"Overwrite", "Skip", "Fail"}}
    \cup {SyncCall("sync", TRUE, FALSE, "Overwrite")} \cup {SyncCall("tree", TRUE, FALSE, p) : p \in {"Overwrite", "Skip"}}

(***************************************************************************)
(* FsxWatcher: a snapshot is a record.                                     *)
(***************************************************************************)
WatchOrder == <<FileA, FileB, BelowB>>
WatchPaths == {WatchOrder[i] : i \in DOMAIN WatchOrder}
IsFolderSnapshot(v) == v.folder
NoSnapshot == [folder |-> FALSE, stamp |-> 99]

(***************************************************************************)
(* FsxArchive: contents are their sizes. The archive lies elsewhere, or    *)
(* in the directory it is extracted to, or overlaps the source.            *)
(***************************************************************************)
ArchiveSize == [c \in 0..2 |-> c]
Content(c) == [of |-> c, blocks |-> c]
ArchiveTrees ==
    {<<>>, FolderA, FileA :> Content(1), FolderA @@ (BelowA :> Content(2)) @@ (FileB :> Content(1)),
     FolderA @@ (BelowA :> Content(0)) @@ (FileB :> Content(2))}
ArchiveCalls ==
    {[overlaps |-> TRUE, policy |-> "Fail", place |-> Absent]}
    \cup [overlaps : {FALSE}, policy : {"Skip", "Fail", "Overwrite"}, place : {Absent, FileA, BelowA}]

(***************************************************************************)
(* FileRotation: by size with and without files to keep, by time, by both. *)
(***************************************************************************)
RollingConfigs ==
    {[max |-> 1, keep |-> k, timed |-> FALSE] : k \in {0, 2, 3}} \cup {[max |-> 2, keep |-> 2, timed |-> FALSE]}
    \cup {[max |-> m, keep |-> 1, timed |-> TRUE] : m \in 0..2}
==============================================================================
