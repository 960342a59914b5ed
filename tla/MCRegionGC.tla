----------------------------- MODULE MCRegionGC -----------------------------
(***************************************************************************)
(* Instances of RegionGC for TLC.                                          *)
(***************************************************************************)
EXTENDS RegionGC

CONSTANTS w1, w2

\* Nothing in any region; a region that ends the scan, before or after others;
\* a live or outdated record at once, after empty regions, or out of reach.
SomeHeads ==
    {<<"none", "none", "none", "none">>,
     <<"unreadable", "live", "none", "stale">>,
     <<"none", "none", "unreadable", "live">>,
     <<"live", "none", "none", "none">>,
     <<"none", "stale", "unreadable", "none">>,
     <<"none", "none", "none", "live">>}

MCInit == Init /\ head \in SomeHeads

MCSpec == MCInit /\ [][Next]_vars /\ Fairness

=============================================================================
