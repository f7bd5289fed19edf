----------------------------- MODULE PortConfig -----------------------------
(***************************************************************************)
(* How the configuration that PortAssign works with is read: the options   *)
(* of the main program (iwdpm_configure), the choice between a text and    *)
(* the name of a file (iwdpm_select_port), and the parser of               *)
(* src/src/port_config.c.                                                  *)
(*                                                                         *)
(* A line is a sequence of fields: its parts between commas, those that    *)
(* are empty or only blanks, those that the regular expression of pc_parse *)
(* matches or not, and the comment it may end with.                        *)
(***************************************************************************)
EXTENDS Integers, Sequences
LOCAL INSTANCE SequencesExt
LOCAL INSTANCE FiniteSetsExt

CONSTANTS
    DeviceList,     \* the id "null"
    AnyDevice,      \* the id "*"
    NoText          \* a part that is left out

Blank == [kind |-> "blank"]
Bad == [kind |-> "bad"]
Comment == [kind |-> "comment"]
Field(id, min, max) == [kind |-> "entry", id |-> id, min |-> min, max |-> max]

\* pc_parse: any device and one port by default.
Parse(field) ==
    [id |-> IF field.id = NoText THEN AnyDevice ELSE field.id,
     min |-> field.min,
     max |-> IF field.max = NoText THEN field.min ELSE field.max]

\* pc_add_line reads fields up to a comment, or one that cannot be parsed.
FieldsRead(line) ==
    LET stops == {i \in DOMAIN line : line[i].kind \in {"bad", "comment"}}
    IN  IF stops = {} THEN Len(line) ELSE Min(stops) - 1

AddLineFails(line) ==
    FieldsRead(line) < Len(line) /\ line[FieldsRead(line) + 1].kind = "bad"

\* What pc_add_line adds, though it fails.
LineEntries(line) ==
    LET fields == SelectSeq(SubSeq(line, 1, FieldsRead(line)), LAMBDA f : f.kind = "entry")
    IN  [i \in DOMAIN fields |-> Parse(fields[i])]

\* pc_add_file goes on after a line that fails.
FileEntries(lines) == FlattenSeq([i \in DOMAIN lines |-> LineEntries(lines[i])])

\* iwdpm_select_port: a text that is no configuration names a file; what was read
\* of the text is cleared.
NamesFile(config) == AddLineFails(config)
ConfigEntries(config, lines) ==
    IF NamesFile(config) THEN FileEntries(lines) ELSE LineEntries(config)

-----------------------------------------------------------------------------
(* The options of the command line.                                          *)

\* What the program starts with: "null:9221,:9222-9322".
Defaults ==
    [config |-> <<Field(DeviceList, 9221, NoText), Field(NoText, 9222, 9322)>>,
     frontend |-> "http", ret |-> 0]

\* -u: a device and its ports, 9222 if none are given.
Udid(self, field) ==
    IF field = Bad THEN [self EXCEPT !.ret = 2]
    ELSE [self EXCEPT !.config = <<[field EXCEPT !.min = IF @ = NoText THEN 9222 ELSE @]>>]

\* One round of the loop, which ends when an option is wrong or asks for help.
AfterOption(self, option) ==
    IF self.ret # 0 THEN self
    ELSE CASE option.name = "u" -> Udid(self, option.value)
           [] option.name = "c" -> [self EXCEPT !.config = option.value]
           [] option.name = "f" -> [self EXCEPT !.frontend = option.value]
           [] option.name = "F" -> [self EXCEPT !.frontend = "none"]
           [] option.name = "h" -> [self EXCEPT !.ret = -1]
           [] option.name = "V" -> [self EXCEPT !.ret = -2]
           [] option.name \in {"s", "d"} -> self
           [] OTHER -> [self EXCEPT !.ret = 2]

\* iwdpm_configure, with whether arguments are left; ret 0 if the program starts.
Configure(options, hasMore) ==
    LET self == FoldLeft(AfterOption, Defaults, options)
    IN  IF self.ret = 0 /\ hasMore THEN [self EXCEPT !.ret = 2] ELSE self
=============================================================================
