--------------------------- MODULE MCStatedCache ---------------------------
(***************************************************************************)
(* An instance of StatedCache for TLC: a static fact, whose source is      *)
(* watched, and a dynamic one.                                             *)
(***************************************************************************)
EXTENDS StatedCache

MCFacts == {"hostname", "memory"}
MCStatic == {"hostname"}
MCWatchedLive == {"hostname"}

(* Combined gives what the drain loop of refresh_worker computes: requests *)
(* combined from the left, in the order of the channel.                    *)
ASSUME CombinesInTurn ==
  \A requests \in BoundedSeq(RefreshRequests, 4) :
    requests # <<>> =>
      FoldLeft(Combine, Head(requests), Tail(requests)) = Combined(ToSet(requests))
=============================================================================
