------------------------------ MODULE ConfigParser ------------------------------
(***************************************************************************)
(* config::parse (src/config/parser.cpp): the Config that the lines of a   *)
(* file give.  A line is a record: what the parser tells apart.  A value   *)
(* is a text, and what the C++ library makes of it comes from Numbers and  *)
(* Hex.                                                                    *)
(***************************************************************************)
EXTENDS Integers, Sequences

CONSTANTS
    Texts,      \* values that occur
    Numbers,    \* Numbers[kind][text]: stod (in half seconds), stoi or stof, or Throws
    Hex,        \* Hex[text]: its [size, bytes] after a leading '#', the bytes of the number it begins with
    Throws

ASSUME ParserAssumption ==
    /\ Numbers \in [{"number", "integer", "float"} -> [Texts -> Int \cup {Throws}]]
    /\ \A t \in Texts : Hex[t].size \in Nat /\ Hex[t].bytes \in [1..4 -> 0..255]
    /\ Throws \notin Int

\* What a line can be, once trimmed.  "other" is one that is skipped: blank, a
\* comment, or without '='.
Other           == [type |-> "other"]
Header(section) == [type |-> "header", section |-> section]
OpenHeader      == [type |-> "open"]        \* '[' without ']'
Pair(k, v)      == [type |-> "pair", key |-> k, value |-> v]

Lines == {Other, OpenHeader} \cup [type : {"header"}, section : STRING]
                             \cup [type : {"pair"}, key : STRING, value : Texts]

\* The keys of each section, and how their values are read
Fields ==
    [general    |-> [grace_period |-> "number", fingerprint |-> "bool", dpms_timeout |-> "number"],
     background |-> [screenshot |-> "bool", blur_radius |-> "integer", color |-> "color"],
     clock      |-> [enabled |-> "bool", time_format |-> "text", time_font |-> "text",
                     time_color |-> "color", date_format |-> "text", date_font |-> "text",
                     date_color |-> "color"],
     input      |-> [dot_size |-> "float", dot_gap |-> "float", dot_color |-> "color",
                     field_width |-> "float", field_height |-> "float", field_color |-> "color",
                     field_radius |-> "float"],
     label      |-> [font |-> "text", color |-> "color"],
     error      |-> [font |-> "text", color |-> "color"]]

rgba(r, g, b, a) == <<r, g, b, a>>

\* Config's defaults; numbers of seconds in halves
Defaults ==
    [general    |-> [grace_period |-> 10, fingerprint |-> FALSE, dpms_timeout |-> 60],
     background |-> [screenshot |-> TRUE, blur_radius |-> 20, color |-> rgba(20, 20, 32, 255)],
     clock      |-> [enabled |-> TRUE, time_format |-> "%H:%M", time_font |-> "Sans Bold 64",
                     time_color |-> rgba(255, 255, 255, 255), date_format |-> "%A, %B %d",
                     date_font |-> "Sans 20", date_color |-> rgba(170, 170, 170, 255)],
     input      |-> [dot_size |-> 8, dot_gap |-> 20, dot_color |-> rgba(240, 240, 245, 255),
                     field_width |-> 300, field_height |-> 50, field_color |-> rgba(255, 255, 255, 20),
                     field_radius |-> 10],
     label      |-> [font |-> "Sans 24", color |-> rgba(221, 221, 224, 255)],
     error      |-> [font |-> "Sans 16", color |-> rgba(224, 64, 64, 255)]]

parse_bool(text) == text \in {"true", "1", "yes"}

\* RRGGBBAA with eight characters, else RRGGBB
parse_color(text) ==
    LET b == Hex[text].bytes
    IN  IF Hex[text].size = 8 THEN rgba(b[1], b[2], b[3], b[4]) ELSE rgba(b[2], b[3], b[4], 255)

Convert(kind, text) ==
    CASE kind = "bool"  -> parse_bool(text)
      [] kind = "color" -> parse_color(text)
      [] kind = "text"  -> text
      [] OTHER          -> Numbers[kind][text]

IsField(section, key) == section \in DOMAIN Fields /\ key \in DOMAIN Fields[section]

\* stod, stoi and stof throw, and nobody catches.
Unreadable(kind, text) == kind \in DOMAIN Numbers /\ Numbers[kind][text] = Throws

Assign(p, key, text) ==
    LET kind == Fields[p.section][key]
    IN  IF Unreadable(kind, text)
        THEN [p EXCEPT !.threw = TRUE]
        ELSE [p EXCEPT !.cfg[p.section][key] = Convert(kind, text)]

\* Slip: a '[' that is not closed ends the section.
Line_OpenEnds(p, line) ==
    IF p.threw THEN p
    ELSE CASE line.type = "open"                                 -> [p EXCEPT !.section = ""]
           [] line.type = "header"                               -> [p EXCEPT !.section = line.section]
           [] line.type = "pair" /\ IsField(p.section, line.key) -> Assign(p, line.key, line.value)
           [] OTHER                                              -> p

\* One turn of the loop over the lines
Line(p, line) ==
    IF p.threw THEN p
    ELSE CASE line.type = "header"                               -> [p EXCEPT !.section = line.section]
           [] line.type = "pair" /\ IsField(p.section, line.key) -> Assign(p, line.key, line.value)
           [] OTHER                                              -> p

Fresh == [section |-> "", cfg |-> Defaults, threw |-> FALSE]

\* The loop's state after each line
AfterLine(lines) ==
    LET after[i \in 0..Len(lines)] == IF i = 0 THEN Fresh ELSE Line(after[i - 1], lines[i])
    IN  after

\* The file's Config; threw when std::stod and the like did.  No file is like no lines.
Parse(lines) == AfterLine(lines)[Len(lines)]

-----------------------------------------------------------------------------
(* Reference: what each field's value should be *)

\* The section line i belongs to: that of the last header before it
SectionAt(lines, i) ==
    LET headers == {j \in 1..(i - 1) : lines[j].type = "header"}
    IN  IF headers = {} THEN "" ELSE lines[CHOOSE j \in headers : \A k \in headers : k <= j].section

\* The lines that give the field a value
Givers(lines, section, key) ==
    {i \in DOMAIN lines : /\ lines[i].type = "pair" /\ lines[i].key = key
                          /\ SectionAt(lines, i) = section}

Malformed(lines) ==
    \E section \in DOMAIN Fields : \E key \in DOMAIN Fields[section] :
        \E i \in Givers(lines, section, key) : Unreadable(Fields[section][key], lines[i].value)

\* Every field has its last giver's value, or its default.
LastWins(lines, cfg) ==
    \A section \in DOMAIN Fields : \A key \in DOMAIN Fields[section] :
        LET givers == Givers(lines, section, key)
        IN  cfg[section][key] =
              IF givers = {} THEN Defaults[section][key]
              ELSE Convert(Fields[section][key],
                           lines[CHOOSE i \in givers : \A j \in givers : j <= i].value)
=============================================================================
