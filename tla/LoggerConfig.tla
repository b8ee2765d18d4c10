----------------------------- MODULE LoggerConfig -----------------------------
(***************************************************************************)
(* Logger::LoadConfigV2FromJsonFile and the profiles it loads.             *)
(*                                                                         *)
(* A document is the sequence of its key/value pairs in the order of the   *)
(* text, each with the object that holds it: <<"text", 0>> (the document), *)
(* <<section, 0>>, or the profile <<"profile", i>>. The loader has no JSON *)
(* parser but searches the text: for a key of the document it takes the    *)
(* first pair of that key anywhere, in a section or a profile too. "bad"   *)
(* is a value the parser of the key refuses, "" an empty string.           *)
(***************************************************************************)
EXTENDS Integers, FiniteSets, SequencesExt, TLC

CONSTANTS Documents,    \* the texts of the files that are loaded
          Modules       \* where events come from

VARIABLES config,       \* config_v2_
          filePath,     \* default_options_.file_path
          accepted      \* what the last load returned, and its document

vars == <<config, filePath, accepted>>

TextKeys == {"global_record_level", "global_output_level", "global_text_field_mask", "global_enable_console",
             "global_enable_file", "global_enable_debugger", "output_order"}
SectionKeys ==
    [rolling |-> {"enabled", "max_file_size_bytes", "keep_recent_files", "time_mode"},
     schedule |-> {"periodic_flush_enabled", "flush_interval_ms"},
     render |-> {"enable_color", "light_theme_only", "allow_third_party_adapter"},
     backpressure |-> {"drop_low_level_when_full", "drop_below_level", "queue_high_watermark"},
     remote |-> {"enable_udp_syslog", "udp_host", "udp_port", "syslog_facility", "syslog_app_name", "syslog_hostname"}]
Sections == DOMAIN SectionKeys
FreeText == {"udp_host", "syslog_app_name", "syslog_hostname"}
ProfileKeys == {"module", "file_path_pattern", "text_field_mask", "output_level", "record_level",
                "enable_console", "enable_file", "enable_debugger", "output_order"}

\* ExtractJsonToken: the values of the key in the text that is searched, first one first.
Tokens(doc, holders, key) == SelectSeq(doc, LAMBDA x : x.in \in holders /\ x.key = key)

Everywhere(doc) == {x.in : x \in ToSet(doc)}

\* A key is set when it is there; an empty free text counts as absent.
IsSet(doc, holders, key) ==
    LET t == Tokens(doc, holders, key) IN t # <<>> /\ ~(key \in FreeText /\ t[1].value = "")

Value(doc, holders, key) == Tokens(doc, holders, key)[1].value

Refuses(doc, holders, keys) == \E k \in keys : IsSet(doc, holders, k) /\ Value(doc, holders, k) = "bad"

\* The fields of an object: what the text sets, the default for the rest.
Fields(doc, holders, keys, default) ==
    [k \in keys |-> IF IsSet(doc, holders, k) THEN Value(doc, holders, k) ELSE default[k]]

Profiles(doc) ==
    LET present == {x.in[2] : x \in {y \in ToSet(doc) : y.in[1] = "profile"}}
    IN  [i \in 1..Cardinality(present) |->
            LET holder == {<<"profile", i>>}
                given == {k \in ProfileKeys : IsSet(doc, holder, k)}
            IN  [k \in given |-> Value(doc, holder, k)]]

Default == [k \in TextKeys \cup UNION {SectionKeys[s] : s \in Sections} |-> "default"]

\* Any malformed value refuses the whole document; the mask alone starts from the current one.
Malformed(doc) ==
    \/ doc = <<>>
    \/ Refuses(doc, Everywhere(doc), TextKeys)
    \/ \E s \in Sections : Refuses(doc, {<<s, 0>>}, SectionKeys[s])
    \/ \E i \in 1..Len(doc) : Refuses(doc, {<<"profile", i>>}, ProfileKeys)

Loaded(doc) ==
    [global |-> Fields(doc, Everywhere(doc), TextKeys,
                       [Default EXCEPT !["global_text_field_mask"] = config.global["global_text_field_mask"]]),
     sections |-> [s \in Sections |-> Fields(doc, {<<s, 0>>}, SectionKeys[s], Default)],
     profiles |-> Profiles(doc)]

\* ProfileResolverV2: the first profile of the module, over it the first one of the file.
Resolve(c, m, key, globalKey) ==
    LET Says(p, by) == by \in DOMAIN p /\ p[by] = m
        ofModule == SelectSeq(c.profiles, LAMBDA p : Says(p, "module"))
        ofFile == SelectSeq(c.profiles, LAMBDA p : Says(p, "file_path_pattern"))
    IN  IF ofFile # <<>> /\ key \in DOMAIN ofFile[1] THEN ofFile[1][key]
        ELSE IF ofModule # <<>> /\ key \in DOMAIN ofModule[1] THEN ofModule[1][key]
        ELSE c.global[globalKey]

LoadConfigV2(doc) ==
    IF Malformed(doc)
    THEN accepted' = [ok |-> FALSE, doc |-> doc] /\ UNCHANGED <<config, filePath>>
    ELSE /\ config' = Loaded(doc)
         /\ filePath' = IF IsSet(doc, Everywhere(doc), "file_path")
                        THEN Value(doc, Everywhere(doc), "file_path") ELSE filePath
         /\ accepted' = [ok |-> TRUE, doc |-> doc]

Init ==
    /\ config = [global |-> [k \in TextKeys |-> "first"],
                 sections |-> [s \in Sections |-> [k \in SectionKeys[s] |-> "first"]], profiles |-> <<>>]
    /\ filePath = "first"
    /\ accepted = [ok |-> FALSE, doc |-> <<>>]

Next == \E doc \in Documents : LoadConfigV2(doc)

Spec == Init /\ [][Next]_vars

\* logsys.h says of a profile's output_order that it overrides the global configuration for
\* this profile: a module that no profile names keeps the global order (the default, when
\* the document gives none of its own).
ProfileOrderStaysLocal ==
    accepted.ok =>
        \A m \in Modules :
            (\A i \in DOMAIN config.profiles :
                \A by \in {"module", "file_path_pattern"} \cap DOMAIN config.profiles[i] : config.profiles[i][by] # m)
            => Resolve(config, m, "output_order", "output_order") =
                 Fields(accepted.doc, {<<"text", 0>>}, TextKeys, Default)["output_order"]
==============================================================================
