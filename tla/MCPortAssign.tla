---------------------------- MODULE MCPortAssign ----------------------------
(* Constants of the checked instances of PortAssign. *)
EXTENDS PortAssign, TLC

CONSTANTS a, b, c, NoText

Config == INSTANCE PortConfig

\* The program is started for a device, and then, which counts, with a file.
MCOptions == <<[name |-> "u", value |-> Config!Field(a, NoText, NoText)], [name |-> "d"],
               [name |-> "c", value |-> <<Config!Bad>>]>>
MCConfig == Config!Configure(MCOptions, FALSE).config
MCIsFile == Config!NamesFile(MCConfig)

\* Like "null:9221,:9222-9322": the list, then a range that the devices share; a
\* line that is wrong, and what it hides.
MCShared == << <<Config!Comment>>,
               <<Config!Field(DeviceList, 1, NoText), Config!Field(NoText, 2, 4)>>,
               <<Config!Bad, Config!Field(b, 1, 1)>> >>

\* One device has a port of its own that the range also has, one is ignored.
MCOwn == << <<Config!Field(a, 3, 3)>>,
            <<Config!Blank, Config!Field(b, -1, NoText), Config!Comment>>,
            <<Config!Field(NoText, 1, 3)>> >>

MCFile == {Config!ConfigEntries(MCConfig, lines) : lines \in {MCShared, MCOwn}}
=============================================================================
