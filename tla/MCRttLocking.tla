---------------------------- MODULE MCRttLocking ----------------------------
(* Instances of RttLocking for TLC: one realm, two CPUs. *)
EXTENDS RttLocking, TLC

CONSTANTS r1, c1, c2

\* The addresses interleave, so that address order differs from argument order.
MCGranules == {0, 2, 3}
MCRootOf == [rd \in Rds |-> 3]
MCRdAddr == [rd \in Rds |-> 1]
MCRecAddr == [rd \in Rds |-> 4]

MCRequests == {[addr |-> 0, top |-> 1, ripas |-> "empty", change |-> FALSE]}

\* All commands are for the first page and the tables that translate it.
Command(op, pa, level) ==
    [op |-> op, rd |-> r1, pa |-> pa, addr |-> 0, level |-> level, top |-> 1]
DataCreates == {Command("data_create", g, 3) : g \in {0, 2}}
Tables(levels) ==
    {Command("rtt_create", g, level) : g \in {0, 2}, level \in levels} \cup
    {Command(op, 0, level) : op \in {"rtt_fold", "rtt_destroy"}, level \in levels}
RestOfData ==
    {Command("data_create_unknown", g, 3) : g \in {0, 2}} \cup {Command("data_destroy", 0, 3)}
RipasCommands == {Command("init_ripas", 0, 3), Command("set_ripas", 0, 3)}

\* Everything but the two commands that unlock the realm descriptor twice.
MCCommands == Tables({3}) \cup DataCreates \cup RestOfData \cup RipasCommands

\* The page outside the protected range.
MCUnprotectedCommands ==
    {[c EXCEPT !.addr = 2] : c \in Tables({3}) \cup
        {Command("map_unprotected", 0, level) : level \in {2, 3}} \cup
        {Command("unmap_unprotected", 0, level) : level \in {2, 3}}}

MCBlockCommands ==
    Tables({3}) \cup DataCreates \cup {Command("ipa_block", 0, 3), Command("ipa_unblock", 0, 3)}

CpuSymmetry == Permutations(Cpus)
=============================================================================
