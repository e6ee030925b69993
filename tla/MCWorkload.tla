----------------------------- MODULE MCWorkload -----------------------------
(***************************************************************************)
(* An instance of Workload for TLC.  Contract 1 is a default that the user *)
(* may override; one capability asks for a fact with a fallback, the other *)
(* one for the same fact without; contract 2 probes directly and asks for  *)
(* a fact of its own.  One table is no contract.  The directory has a file *)
(* for each ID, and one whose name says nothing about the ID in it.        *)
(***************************************************************************)
EXTENDS Workload, TLC

Check(id, fact, probe) == [id |-> id, fact |-> fact, probe |-> probe]

Capability(id, importance, checks) ==
  [id |-> id, importance |-> importance, checks |-> checks]

Table(id, capabilities) == [id |-> id, capabilities |-> capabilities]

Default == Table(1, <<Capability("a", "critical", <<Check("a", "f", "command")>>)>>)
Own     == Table(1, <<Capability("a", "critical", <<Check("a", "f", None)>>),
                      Capability("b", "useful", <<Check("a", "g", "path"),
                                                  Check("b", None, "environment")>>)>>)
Other   == Table(2, <<Capability("a", "useful", <<Check("a", "f", "systemd_unit")>>)>>)
Faulty  == Table(2, <<Capability("a", "useful", <<Check("a", "g", "stated_fact")>>)>>)

MCTables   == {Default, Own, Other, Faulty}
MCDefaults == {Default}
MCFileOf   == <<1, 2>>
MCSymmetry == Permutations(Commands)

Directory(first, second, third) == <<first, second, third>>

MCInitialFiles == {Directory(None, None, None), Directory(None, Other, None),
                   Directory(Own, None, Other)}

(* The steps of an assessment read and write nothing that other commands   *)
(* see: assessments are followed only where nothing else is under way.     *)
Judging(c) == proc[c].pc \in {"ask", "check"} \/ proc[c].chosen # {}

AssessAlone ==
  \A c \in Commands : Judging(c) => \A d \in Commands \ {c} : proc[d].pc = "idle"
=============================================================================
