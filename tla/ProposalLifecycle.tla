------------------------- MODULE ProposalLifecycle -------------------------
(***************************************************************************)
(* What jiritsu-proposals promises about the durable record of a proposal, *)
(* seen from outside: its lifecycle history only ever grows, and it grows  *)
(* along the edges of the lifecycle graph.  The state of a proposal is the *)
(* last entry of its history.  Nothing here knows of commands, locks,      *)
(* crashes or files: the module Proposals is shown to implement it.        *)
(***************************************************************************)
EXTENDS Naturals, Sequences

CONSTANT Proposals          \* proposal IDs

VARIABLE history            \* the states a proposal went through, <<>> before create

(* The calls of transition() in operations.py, one edge each. *)
Edges ==
  { <<"draft", "classified">>, <<"draft", "rejected">>,
    <<"classified", "approved">>, <<"classified", "rejected">>,
    <<"approved", "applying">>,
    <<"applying", "committed">>, <<"applying", "rolled_back">>,
    <<"applying", "failed">> }

TerminalStates == {"committed", "failed", "rejected", "rolled_back"}

States == {"draft", "classified", "approved", "applying"} \cup TerminalStates

Init == history = [p \in Proposals |-> <<>>]

Create(p) ==
  /\ history[p] = <<>>
  /\ history' = [history EXCEPT ![p] = <<"draft">>]

Move(p, s) ==
  /\ history[p] # <<>>
  /\ <<history[p][Len(history[p])], s>> \in Edges
  /\ history' = [history EXCEPT ![p] = Append(@, s)]

Next == \E p \in Proposals : Create(p) \/ \E s \in States : Move(p, s)

Spec == Init /\ [][Next]_history
=============================================================================
