----------------------------- MODULE MCLiveFeed -----------------------------
(* TLC instance of LiveFeed.  Two posts that overlap beside a client that stalls or is
   lost; a client that loses either channel, or both; two pages that mount at once. *)
EXTENDS LiveFeed

Budget(reported, mounted, onEvents, onMetrics) ==
  [posts |-> reported, mounts |-> mounted, events |-> onEvents, metrics |-> onMetrics]

MCBudgets == {Budget(2, 1, 1, 0), Budget(0, 1, 1, 1), Budget(0, 1, 2, 0), Budget(0, 2, 1, 0)}

(* A socket for every mount and every fault of a channel. *)
MCSockets == ({"events"} \X (1..3)) \cup ({"metrics"} \X (1..2))
=============================================================================
