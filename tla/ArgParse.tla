-------------------------------- MODULE ArgParse --------------------------------
(***************************************************************************)
(* Parser::Parse over a command line that arrives token by token. A        *)
(* parser's configuration is a record; texts are members of small sets,    *)
(* NumberOf tells what number the converters read in one (units included)  *)
(* or None, Lower its spelling without case; a flag's value is 1 or 0.     *)
(* Help text, diagnostics, trace and user converters are left out.         *)
(***************************************************************************)
EXTENDS Integers, FiniteSets, Sequences, SequencesExt

CONSTANTS
    Specs,          \* parser configurations
    Tokens,         \* tokens a command line is made of
    NumberOf, Lower,
    None, Dashed,   \* Dashed: a token that starts with a dash, taken as text
    MaxTokens

VARIABLES spec, argv, scan

argVars == <<spec, argv, scan>>

\* Tokens: a word, --name, --name=text, -abc, -- and the help options.
Word(t) == [kind |-> "word", text |-> t]
Long(name) == [kind |-> "long", name |-> name, value |-> None]
LongWith(name, t) == [kind |-> "long", name |-> name, value |-> t]
Short(letters) == [kind |-> "short", letters |-> letters]
Terminator == [kind |-> "terminator"]

Raw(t) == IF t.kind = "word" THEN t.text ELSE Dashed
Number(raw) == IF raw \in DOMAIN NumberOf THEN NumberOf[raw] ELSE None
Spelling(raw) == IF raw \in DOMAIN Lower THEN Lower[raw] ELSE raw

NamesOf(o) == {o.name} \cup o.aliases
OptionNamed(s, n) == {o \in s.options : n \in NamesOf(o)}
OptionLettered(s, c) == {o \in s.options : c \in o.letters}
IsFlag(o) == o.type = "bool"
OutOfRange(item, n) == (item.min # None /\ n < item.min) \/ (item.max # None /\ n > item.max)

--------------------------------------------------------------------------------
(* ValidateConfigurationOrThrow.                                           *)

DefaultFits(o) ==
    o.default # None =>
        /\ o.type = "int" => o.default \in Int /\ ~OutOfRange(o, o.default)
        /\ IsFlag(o) => o.default \in {0, 1}
        /\ o.choices # {} => \E c \in o.choices : Spelling(c) = Spelling(o.default)

ValidOption(o) ==
    /\ o.name \notin o.aliases
    /\ IsFlag(o) => o.mode \in {"Switch", "Count", "Toggle"}
    /\ ~IsFlag(o) => o.mode \in {"Override", "Append", "Count"}
    /\ o.min # None /\ o.max # None => o.min <= o.max
    /\ o.fallback /\ (o.min # None \/ o.max # None) => o.default # None
    /\ DefaultFits(o)
    /\ \A c, d \in o.choices : Spelling(c) = Spelling(d) => c = d
    /\ o.type = "int" => o.choices \subseteq Int /\ \A c \in o.choices : ~OutOfRange(o, c)

ValidPositional(s, i) ==
    LET p == s.positionals[i] IN
        /\ p.variadic => i = Len(s.positionals)
        /\ p.min # None /\ p.max # None => p.min <= p.max
        /\ p.fallback /\ (p.min # None \/ p.max # None) => p.default # None
        /\ p.default # None => (p.type = "int" => p.default \in Int)
        /\ OptionNamed(s, p.name) = {}

Valid(s) ==
    /\ \A o \in s.options : ValidOption(o)
    /\ \A o, q \in s.options :
           o # q => NamesOf(o) \cap NamesOf(q) = {} /\ o.letters \cap q.letters = {}
    /\ \A i \in DOMAIN s.positionals : ValidPositional(s, i)

--------------------------------------------------------------------------------
(* One value: validate_typed_value, apply_value, apply_positional.         *)

Error == [ok |-> FALSE]
Converted(v) == [ok |-> TRUE, value |-> v]

Chosen(item, v) ==
    IF item.choices = {} THEN Converted(v)
    ELSE LET same == {c \in item.choices : Spelling(c) = Spelling(v)} IN
             IF same = {} THEN Error ELSE Converted(CHOOSE c \in same : TRUE)

InRange(item, v) ==
    IF ~OutOfRange(item, v) THEN Converted(v)
    ELSE IF item.fallback /\ item.default # None THEN Converted(item.default) ELSE Error

TypedValue(item, raw) ==
    IF item.type = "string" THEN Chosen(item, raw)
    ELSE IF Number(raw) = None THEN Error
    ELSE LET c == Chosen(item, Number(raw)) IN IF c.ok THEN InRange(item, c.value) ELSE Error

Slot(values, name) == IF name \in DOMAIN values THEN values[name] ELSE <<>>
Has(values, name) == Slot(values, name) # <<>>
Put(values, name, slot) == [n \in DOMAIN values \cup {name} |-> IF n = name THEN slot ELSE values[n]]

\* What a further occurrence leaves in the option's slot; v is 1 for a flag.
Repeated(o, slot, v) ==
    CASE o.mode = "Switch" -> <<1>>
      [] o.mode = "Toggle" -> <<IF slot # <<>> /\ Last(slot) = 1 THEN 0 ELSE 1>>
      [] o.mode = "Count" -> Append(slot, 1)
      [] o.mode = "Append" -> Append(slot, v)
      [] o.mode = "Override" -> <<v>>

Applied(values, o, v) == Put(values, o.name, Repeated(o, Slot(values, o.name), v))

--------------------------------------------------------------------------------
(* The scan: one step per token.                                           *)

Start(s) ==
    [at |-> IF Valid(s) THEN "first" ELSE "failed", values |-> <<>>, words |-> <<>>, root |-> None, leaf |-> None,
     forced |-> FALSE, waiting |-> None]
Fail(sc) == [sc EXCEPT !.at = "failed"]
Words(sc, t) == [sc EXCEPT !.at = "scan", !.words = Append(@, Raw(t))]

TakeValue(sc, o, raw) ==
    LET c == TypedValue(o, raw) IN
        IF c.ok THEN [sc EXCEPT !.at = "scan", !.values = Applied(@, o, c.value), !.waiting = None] ELSE Fail(sc)

Unknown(s, sc) == IF s.handler THEN [sc EXCEPT !.at = "scan"] ELSE Fail(sc)

ScanOption(s, sc, o, value) ==
    IF IsFlag(o) THEN IF value # None THEN Fail(sc) ELSE [sc EXCEPT !.at = "scan", !.values = Applied(@, o, 1)]
    ELSE IF value # None THEN TakeValue(sc, o, value)
    ELSE [sc EXCEPT !.at = "scan", !.waiting = o]

ScanLong(s, sc, t) ==
    IF OptionNamed(s, t.name) = {} THEN Unknown(s, sc)
    ELSE ScanOption(s, sc, CHOOSE o \in OptionNamed(s, t.name) : TRUE, t.value)

\* -abc: known flags only, and all of them before any is applied.
ScanMerged(s, sc, t) ==
    LET options == [i \in DOMAIN t.letters |-> OptionLettered(s, t.letters[i])] IN
        IF \E i \in DOMAIN options : \A o \in options[i] : ~IsFlag(o) THEN Fail(sc)
        ELSE [sc EXCEPT !.at = "scan",
                 !.values = FoldLeft(LAMBDA v, os : Applied(v, CHOOSE o \in os : TRUE, 1), @, options)]

ScanShort(s, sc, t) ==
    IF Len(t.letters) > 1 THEN ScanMerged(s, sc, t)
    ELSE IF OptionLettered(s, t.letters[1]) = {} THEN Unknown(s, sc)
    ELSE ScanOption(s, sc, CHOOSE o \in OptionLettered(s, t.letters[1]) : TRUE, None)

\* argv[1] may name a root command and argv[2] one of its leaves.
ScanRoot(s, sc, t) == [sc EXCEPT !.at = "root", !.root = t.text]
ScanLeaf(s, sc, t) == [sc EXCEPT !.at = "scan", !.leaf = t.text]

Scan(s, sc, t) ==
    CASE sc.at \in {"failed", "help"} -> sc
      [] sc.at = "first" /\ t.kind = "word" /\ t.text \in DOMAIN s.commands -> ScanRoot(s, sc, t)
      [] sc.at = "root" /\ t.kind = "word" /\ t.text \in s.commands[sc.root] -> ScanLeaf(s, sc, t)
      [] sc.waiting # None -> TakeValue(sc, sc.waiting, Raw(t))
      [] sc.forced -> Words(sc, t)
      [] t.kind = "terminator" -> [sc EXCEPT !.at = "scan", !.forced = TRUE]
      [] t.kind = "help" -> [sc EXCEPT !.at = "help"]
      [] t.kind = "long" -> ScanLong(s, sc, t)
      [] t.kind = "short" -> ScanShort(s, sc, t)
      [] OTHER -> Words(sc, t)

--------------------------------------------------------------------------------
(* After the last token: defaults, positionals, required options, rules.   *)

WithDefaults(s, values) ==
    LET lacking == {o \in s.options : ~Has(values, o.name) /\ o.default # None}
        Default(n) == CHOOSE d \in {o.default : o \in {q \in lacking : q.name = n}} : TRUE
        names == {o.name : o \in lacking}
    IN  [n \in DOMAIN values \cup names |-> IF n \in names THEN <<Default(n)>> ELSE values[n]]

\* The words one positional takes, converted, or Error.
Bound(p, words) ==
    LET taken == IF p.variadic THEN words ELSE SubSeq(words, 1, IF words = <<>> THEN 0 ELSE 1)
        typed == [i \in DOMAIN taken |-> TypedValue(p, taken[i])]
    IN  IF \E i \in DOMAIN typed : ~typed[i].ok THEN Error
        ELSE IF taken # <<>> THEN Converted([i \in DOMAIN typed |-> typed[i].value])
        ELSE IF p.default # None THEN Converted(<<p.default>>)
        ELSE IF p.required THEN Error ELSE Converted(<<>>)

BindPositional(acc, p) ==
    LET b == Bound(p, acc.words) IN
        IF ~acc.ok \/ ~b.ok THEN [acc EXCEPT !.ok = FALSE]
        ELSE [ok |-> TRUE, words |-> IF p.variadic THEN <<>> ELSE IF acc.words = <<>> THEN <<>> ELSE Tail(acc.words),
              values |-> IF b.value = <<>> THEN acc.values ELSE Put(acc.values, p.name, b.value)]

\* A rule says whether the values break it.
Breaks(rule, values) ==
    CASE rule.kind = "mutex" -> Cardinality({n \in rule.names : Has(values, n)}) > 1
      [] rule.kind = "needs" -> Has(values, rule.name) /\ ~Has(values, rule.needed)
      [] rule.kind = "forbids" -> Has(values, rule.name)

\* A mutant of ConstraintsHold: errors that do not fail fast are forgotten.
FastConstraintsHold(s, values) == ~\E rule \in s.rules : rule.fast /\ Breaks(rule, values)

\* ApplyConstraintPipeline: rules that do not fail fast are reported in the end.
ConstraintsHold(s, values) == ~\E rule \in s.rules : Breaks(rule, values)

Rejected == [ok |-> FALSE, help |-> FALSE, values |-> <<>>]

Finish(s, sc) ==
    LET bound == FoldLeft(BindPositional, [ok |-> TRUE, words |-> sc.words, values |-> WithDefaults(s, sc.values)],
                          s.positionals)
    IN  CASE sc.at = "help" -> [ok |-> TRUE, help |-> TRUE, values |-> <<>>]
          [] sc.at = "failed" \/ sc.waiting # None -> Rejected
          [] ~bound.ok \/ bound.words # <<>> -> Rejected
          [] \E o \in s.options : o.required /\ ~Has(bound.values, o.name) -> Rejected
          [] ~ConstraintsHold(s, bound.values) -> Rejected
          [] OTHER -> [ok |-> TRUE, help |-> FALSE, values |-> bound.values]

Parse(s, tokens) == Finish(s, FoldLeft(LAMBDA sc, t : Scan(s, sc, t), Start(s), tokens))

Token ==
    /\ Len(argv) < MaxTokens
    /\ \E t \in Tokens : argv' = Append(argv, t) /\ scan' = Scan(spec, scan, t)
    /\ UNCHANGED spec

Init == spec \in Specs /\ argv = <<>> /\ scan = Start(spec)
Next == Token
Spec == Init /\ [][Next]_argVars

--------------------------------------------------------------------------------
Result == Finish(spec, scan)
Accepted == Result.ok /\ ~Result.help

FitsItem(item, v) ==
    /\ item.type = "int" => v \in Int /\ ~OutOfRange(item, v)
    /\ item.choices # {} => \E c \in item.choices : Spelling(c) = Spelling(v)

\* What an accepted command line leaves is what the configuration allows:
\* every value has its type, range and choices, a default included (of a
\* positional only the type is looked at), single values stay single,
\* required items are there, and every rule holds, deferred ones too (Parse,
\* ValidateConfigurationOrThrow, ApplyConstraintPipeline).
AcceptedMeetsSpec ==
    Accepted =>
        LET values == Result.values IN
        /\ \A o \in spec.options : \A i \in DOMAIN Slot(values, o.name) :
               IF o.mode = "Count" \/ IsFlag(o) THEN Slot(values, o.name)[i] \in {0, 1}
               ELSE FitsItem(o, Slot(values, o.name)[i])
        /\ \A o \in spec.options : o.mode \in {"Switch", "Toggle", "Override"} => Len(Slot(values, o.name)) <= 1
        /\ \A i \in DOMAIN spec.positionals :
               LET p == spec.positionals[i] IN
                   /\ \A j \in DOMAIN Slot(values, p.name) :
                          FitsItem(p, values[p.name][j]) \/ values[p.name][j] = p.default
                   /\ p.required => Has(values, p.name)
        /\ \A o \in spec.options : o.required => Has(values, o.name)
        /\ \A rule \in spec.rules : ~Breaks(rule, values)

\* The command line that says the same in full: every option that differs
\* from its default by its name, then the positionals behind a --.
TextOf(v) == IF v \in Int THEN CHOOSE t \in DOMAIN NumberOf : NumberOf[t] = v ELSE v
Spelled(o, slot) ==
    IF slot = <<o.default>> THEN <<>>
    ELSE IF IsFlag(o) THEN [i \in 1..(IF slot = <<0>> THEN 2 ELSE Len(slot)) |-> Long(o.name)]
    ELSE [i \in DOMAIN slot |-> LongWith(o.name, TextOf(slot[i]))]

RECURSIVE Canonical(_, _)
Canonical(options, values) ==
    IF options = {} THEN <<>>
    ELSE LET o == CHOOSE q \in options : TRUE IN Spelled(o, Slot(values, o.name)) \o Canonical(options \ {o}, values)

Given(values, p) == IF Slot(values, p.name) = <<p.default>> THEN <<>> ELSE Slot(values, p.name)
Positionals(values) ==
    LET words == FlattenSeq([i \in DOMAIN spec.positionals |-> Given(values, spec.positionals[i])])
    IN  [i \in DOMAIN words |-> Word(TextOf(words[i]))]

Commands == (IF scan.root = None THEN <<>> ELSE <<Word(scan.root)>>) \o (IF scan.leaf = None THEN <<>> ELSE <<Word(scan.leaf)>>)

\* An accepted command line means the same whatever way it is written: its
\* values, options first in any order and positionals behind a --, parse to
\* the same values again (Parse).
SameMeaning ==
    Accepted =>
        LET line == Commands \o Canonical(spec.options, Result.values) \o <<Terminator>> \o Positionals(Result.values)
        IN  Parse(spec, line) = Result
================================================================================
