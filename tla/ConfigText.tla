----------------------------- MODULE ConfigText -----------------------------
(***************************************************************************)
(* cfgx::SaveToFile and LoadFromFile for INI, YAML and TOML, as lines: an  *)
(* INI or YAML file that exists is rewritten in place so that its comments *)
(* stay. Layout, escapes and list items that open a mapping on their own   *)
(* line are left out.                                                      *)
(***************************************************************************)
EXTENDS ConfigNode, FiniteSets

CONSTANTS Trees,    \* configurations that are saved: objects
          Drafts,   \* [ini, yaml]: lines somebody may have written before the first save
          MaxSaves  \* bound: saves

VARIABLES files,    \* the lines of the file of every format
          last,     \* of the properties: [format, tree, over]: the last save and the lines it went over
          saves

vars == <<files, last, saves>>

Formats == {"ini", "yaml", "toml"}
ScalarLeaves(node) ==
    LET flat == Flatten(node, <<>>)
    IN [p \in {q \in DOMAIN flat : flat[q].kind \notin {"object", "array"}} |-> flat[p]]

(***************************************************************************)
(* Scalars and their text.                                                 *)
(***************************************************************************)
ScalarText(node) == CASE node.kind = "null" -> NullText [] node.kind = "int" -> Bare(node.of)
                      [] node.kind = "string" -> Quoted(node.of)
TomlText(node) == IF node.kind = "null" THEN Quoted("") ELSE IF node.kind = "array" THEN Quoted(node) ELSE ScalarText(node)
ParseScalar(text) == IF text[1] = "quoted" THEN String(text[2]) ELSE IF text = NullText THEN Null ELSE Number(text[2])

(***************************************************************************)
(* INI and TOML: sections and pairs.                                       *)
(***************************************************************************)
ParseLine(r, line) ==
    CASE ~r.ok \/ line.kind = "comment" -> r
      [] r.ok /\ line.kind = "junk"     -> [r EXCEPT !.ok = FALSE]
      [] r.ok /\ line.kind = "section"  -> [r EXCEPT !.section = line.path]
      [] r.ok /\ line.kind = "pair"     ->
            LET s == SetNode(r.node, r.section \o line.path, ParseScalar(line.text))
            IN [r EXCEPT !.ok = s.ok, !.node = s.node]

ParseLines(lines) == FoldLeft(ParseLine, [ok |-> TRUE, node |-> EmptyObject, section |-> <<>>], lines)

\* SplitIniPath: the first key of a longer path names the section.
SectionOf(path) == IF Len(path) > 1 THEN SubSeq(path, 1, 1) ELSE <<>>
KeyOf(path) == IF Len(path) > 1 THEN Tail(path) ELSE path

PairsOf(tree, paths) ==
    LET in == SetToSeq(paths) IN [i \in DOMAIN in |-> Pair(KeyOf(in[i]), ScalarText(ScalarLeaves(tree)[in[i]]))]
SectionsOf(tree, paths) ==
    LET names == SetToSeq({SectionOf(p) : p \in paths}) IN
    FoldLeft(LAMBDA out, name : out \o <<Section(name)>> \o PairsOf(tree, {p \in paths : SectionOf(p) = name}),
             <<>>, names)
TopPaths(paths) == {p \in paths : SectionOf(p) = <<>>}

DumpIni(tree) ==
    LET paths == DOMAIN ScalarLeaves(tree)
    IN PairsOf(tree, TopPaths(paths)) \o SectionsOf(tree, paths \ TopPaths(paths))

\* The lines that are there: an assignment gets the new value, or goes when its path is no leaf any more.
Kept(tree, lines) ==
    LET leaves == ScalarLeaves(tree)
        Step(r, line) ==
            LET path == r.section \o line.path IN
            CASE line.kind = "section" -> [r EXCEPT !.section = line.path, !.lines = Append(@, line)]
              [] line.kind = "pair" /\ path \in DOMAIN leaves ->
                    [r EXCEPT !.lines = Append(@, Pair(line.path, ScalarText(leaves[path]))), !.emitted = @ \cup {path}]
              [] line.kind = "pair" /\ path \notin DOMAIN leaves -> [r EXCEPT !.lines = Append(@, Comment)]
              [] line.kind \in {"comment", "junk"} -> [r EXCEPT !.lines = Append(@, line)]
    IN FoldLeft(Step, [lines |-> <<>>, section |-> <<>>, emitted |-> {}], lines)

\* A mutant: new assignments of the root go to the end.
InsertAtEnd(lines, top) == lines \o top

FirstSection(lines) == SelectInSeq(lines, LAMBDA line : line.kind = "section")
Insert(lines, top) ==
    IF FirstSection(lines) = 0 THEN lines \o top
    ELSE SubSeq(lines, 1, FirstSection(lines) - 1) \o top \o SubSeq(lines, FirstSection(lines), Len(lines))

RenderIni(tree, lines) ==
    LET kept == Kept(tree, lines)
        missing == DOMAIN ScalarLeaves(tree) \ kept.emitted
    IN IF lines = <<>> THEN DumpIni(tree)
       ELSE Insert(kept.lines, PairsOf(tree, TopPaths(missing))) \o SectionsOf(tree, missing \ TopPaths(missing))

\* DumpTomlText: the values of a table before its subtables; a subtable has a header of its own.
RECURSIVE TomlTable(_, _)
TomlTable(node, prefix) ==
    LET values == SetToSeq({k \in DOMAIN node.of : node.of[k].kind # "object"})
        tables == SetToSeq({k \in DOMAIN node.of : node.of[k].kind = "object"})
        pairs == [i \in DOMAIN values |-> Pair(<<values[i]>>, TomlText(node.of[values[i]]))]
    IN FoldLeft(LAMBDA out, k : out \o <<Section(Append(prefix, k))>> \o TomlTable(node.of[k], Append(prefix, k)),
                pairs, tables)

(***************************************************************************)
(* YAML: mappings and lists by indentation.                                *)
(***************************************************************************)
RECURSIVE YamlLines(_, _)
YamlLines(node, depth) ==
    LET Opened(line, child) ==
            IF child.kind \in {"object", "array"} THEN <<line>> \o YamlLines(child, depth + 1)
            ELSE <<[line EXCEPT !.text = ScalarText(child)]>>
    IN IF node.kind = "object"
       THEN FoldLeft(LAMBDA out, k : out \o Opened(MapLine(depth, k, NoText), node.of[k]), <<>>, SetToSeq(DOMAIN node.of))
       ELSE FoldLeft(LAMBDA out, item : out \o Opened(ItemLine(depth, NoText), item), <<>>, node.of)

AddTo(acc, line, child) ==
    IF line.kind = "item" THEN Array(Append(acc.of, child))
    ELSE IF line.key \in DOMAIN acc.of THEN acc ELSE Object(acc.of @@ (line.key :> child))

\* parse_block from line i on: [ok, node, next].
RECURSIVE Block(_, _, _)
Block(lines, i, acc) ==
    LET line == lines[i] kind == IF acc.kind = "object" THEN "map" ELSE "item"
        Rest(next, node) ==
            IF next > Len(lines) \/ lines[next].indent < line.indent THEN [ok |-> TRUE, node |-> node, next |-> next]
            ELSE IF lines[next].indent > line.indent THEN [ok |-> FALSE] ELSE Block(lines, next, node)
        opens == line.text = NoText /\ i < Len(lines) /\ lines[i + 1].indent > line.indent
    IN IF line.kind # kind THEN [ok |-> FALSE]
       ELSE IF opens
       THEN LET child == Block(lines, i + 1, IF lines[i + 1].kind = "map" THEN EmptyObject ELSE Array(<<>>))
            IN IF child.ok THEN Rest(child.next, AddTo(acc, line, child.node)) ELSE child
       ELSE Rest(i + 1, AddTo(acc, line, IF line.text = NoText THEN Null ELSE ParseScalar(line.text)))

ParseYaml(text) ==
    LET lines == SelectSeq(text, LAMBDA line : line.kind # "comment") IN
    IF lines = <<>> THEN [ok |-> TRUE, node |-> EmptyObject]
    ELSE LET r == Block(lines, 1, IF lines[1].kind = "map" THEN EmptyObject ELSE Array(<<>>))
         IN IF r.ok /\ r.next > Len(lines) THEN r ELSE [ok |-> FALSE, node |-> EmptyObject]

\* The lines that are there, with the new values of the scalars they name; list items and other keys stay as they are.
YamlKept(tree, lines) ==
    LET leaves == ScalarLeaves(tree)
        Step(r, line) ==
            IF line.kind = "comment" THEN [r EXCEPT !.lines = Append(@, line)]
            ELSE LET stack == SelectSeq(r.stack, LAMBDA open : open.indent < line.indent)
                     path == Append(IF stack = <<>> THEN <<>> ELSE Last(stack).path, line.key)
                     same == [r EXCEPT !.stack = stack, !.lines = Append(@, line)]
                 IN IF line.kind = "item" THEN same
                    ELSE IF line.text = NoText
                    THEN [same EXCEPT !.stack = Append(@, [indent |-> line.indent, path |-> path])]
                    ELSE IF path \notin DOMAIN leaves THEN same
                    ELSE [same EXCEPT !.lines = Append(r.lines, [line EXCEPT !.text = ScalarText(leaves[path])]),
                                      !.emitted = @ \cup {path}]
    IN FoldLeft(Step, [lines |-> <<>>, stack |-> <<>>, emitted |-> {}], lines)

HasIndex(path) == \E i \in DOMAIN path : ~IsKey(path[i])

RenderYaml(tree, lines) ==
    LET kept == YamlKept(tree, lines)
    IN IF lines # <<>> /\ \A p \in DOMAIN ScalarLeaves(tree) : HasIndex(p) \/ p \in kept.emitted
       THEN kept.lines ELSE YamlLines(tree, 0)

(***************************************************************************)
(* SaveToFile, LoadFromFile.                                               *)
(***************************************************************************)
Render(format, tree, lines) ==
    CASE format = "ini" -> RenderIni(tree, lines) [] format = "yaml" -> RenderYaml(tree, lines)
      [] format = "toml" -> TomlTable(tree, <<>>)

Load(format, lines) == IF format = "yaml" THEN ParseYaml(lines) ELSE ParseLines(lines)

SaveToFile(format) ==
    /\ saves < MaxSaves /\ saves' = saves + 1
    /\ \E tree \in Trees :
        /\ files' = [files EXCEPT ![format] = Render(format, tree, files[format])]
        /\ last' = [format |-> format, tree |-> tree, over |-> files[format]]

Init ==
    /\ \E ini \in Drafts.ini, yaml \in Drafts.yaml : files = [ini |-> ini, yaml |-> yaml, toml |-> <<>>]
    /\ last = [format |-> "none"] /\ saves = 0

Next == \E format \in Formats : SaveToFile(format)

Spec == Init /\ [][Next]_vars

(***************************************************************************)
(* Properties.                                                             *)
(***************************************************************************)
Holds(leaves) ==
    LET loaded == Load(last.format, files[last.format])
    IN loaded.ok /\ ScalarLeaves(loaded.node) = leaves

\* The objects and arrays below the root that have no members.
EmptyContainers(tree) ==
    LET flat == Leaves(tree) IN {p \in DOMAIN flat : p # <<>> /\ flat[p].kind \in {"object", "array"}}
NullAt(paths) == [p \in paths |-> Null]

HasArray(tree) ==
    LET flat == Leaves(tree) IN \E p \in DOMAIN flat : HasIndex(p) \/ flat[p].kind = "array"
HasNull(tree) == \E p \in DOMAIN ScalarLeaves(tree) : ScalarLeaves(tree)[p].kind = "null"

\* A configuration that was saved loads again with the same values, kinds included: over any INI file that could be
\* loaded, as TOML without nulls and lists, as YAML to a new file or over one with the same keys and no lists. Only
\* values are spoken of: an empty object or list is not kept. INI drops it (as an item of a list, which is excluded, it
\* leaves a gap), YAML writes its key or its dash alone, which a new file gives back as a null.
LoadsWhatWasSaved ==
    last.format # "none" =>
        LET over == Load(last.format, last.over) leaves == ScalarLeaves(last.tree) IN
        CASE last.format = "ini"  -> over.ok /\ (\A p \in EmptyContainers(last.tree) : ~HasIndex(p)) => Holds(leaves)
          [] last.format = "toml" -> ~HasNull(last.tree) /\ ~HasArray(last.tree) => Holds(leaves)
          [] last.format = "yaml" /\ last.over = <<>> -> Holds(leaves @@ NullAt(EmptyContainers(last.tree)))
          [] last.format = "yaml" /\ last.over # <<>> ->
                over.ok /\ DOMAIN ScalarLeaves(over.node) = DOMAIN leaves /\ ~HasArray(last.tree) => Holds(leaves)

\* A YAML file that could be loaded holds, after every save, the values that were saved, of a tree without empty
\* objects and lists.
YamlLoadsWhatWasSaved ==
    last.format = "yaml" /\ EmptyContainers(last.tree) = {} /\ Load("yaml", last.over).ok => Holds(ScalarLeaves(last.tree))
=============================================================================
