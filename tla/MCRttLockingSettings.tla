----------------------- MODULE MCRttLockingSettings -----------------------
(***************************************************************************)
(* Three instances of RttLocking for TLC in one: setting says which of     *)
(* them a behaviour is about.                                              *)
(***************************************************************************)
EXTENDS MCRttLocking

VARIABLE setting

MCDeepGranules == {0, 2, 3, 5}

\* Tables on two levels below the root, taken apart and rebuilt under the walks.
MCDeepCommands ==
    {Command("rtt_create", 0, 2), Command("rtt_create", 2, 3)} \cup
    {Command("rtt_destroy", 0, level) : level \in {2, 3}} \cup
    {Command("data_create_unknown", 5, 3), Command("data_destroy", 0, 3)}

MCAnyCommands == MCCommands \cup MCBlockCommands \cup MCDeepCommands

\* One level of tables below the root: everything but the two commands that unlock the
\* realm descriptor twice, and these with what they can disturb.
Flat == INSTANCE RttLocking WITH
    Granules <- MCGranules, StartLevel <- 2, Commands <- MCCommands
Block == INSTANCE RttLocking WITH
    Granules <- MCGranules, StartLevel <- 2, Commands <- MCBlockCommands

SettingsInit ==
    /\ setting \in {"all", "block", "deep"}
    /\ IF setting = "deep" THEN LInit ELSE Flat!LInit

\* The commands of "deep" are some of those the configuration has.
IssuesDeep ==
    \A c \in Cpus : cpu[c].pc = "idle" /\ cpu'[c].pc # "idle" => cpu'[c].cmd \in MCDeepCommands

SettingsNext ==
    /\ UNCHANGED setting
    /\ \/ setting = "all" /\ Flat!LNext
       \/ setting = "block" /\ Block!LNext
       \/ setting = "deep" /\ LNext /\ IssuesDeep

SettingsSpec == SettingsInit /\ [][SettingsNext]_<<setting, lvars>>

\* LockedAsAsserted and NoWaitCycle are RttLocking's own.

\* The commands are those of RmmRtt, one at a time, and every lock is sound; where the
\* realm descriptor is unlocked twice, the tables stay consistent.
deepView == <<GstateView, refcount, s2tt, SecretView, rdState, measured, setRipas, tlb, lvl>>
view == <<Flat!GstateView, refcount, s2tt, Flat!SecretView, rdState, measured, setRipas, tlb, lvl>>
CommandsAreAtomic ==
    /\ setting = "all" => Flat!Atomic!Init
    /\ setting = "deep" => Atomic!Init
    /\ [](setting = "all" => Flat!LockedByOne)
    /\ [](setting = "block" => Block!TablesConsistent)
    /\ [][/\ setting = "all" => view' = view \/ Flat!Atomic!Next
          /\ setting = "deep" => deepView' = deepView \/ Atomic!Next]_<<setting, lvars>>
=============================================================================
