--------------------------- MODULE MCReplayGuard ---------------------------
(***************************************************************************)
(* ReplayGuard on a small instance.  The genuine requests cover two        *)
(* signatures at one timestamp and two at different ones, the default      *)
(* timestamp 0 that an absent entry reads as, and two agents in one        *)
(* record.                                                                 *)
(***************************************************************************)
EXTENDS ReplayGuard

CONSTANTS a1, a2, s1, s2

MCTimestamps == {0, 1}

Signed(a, n, s) == [agent |-> a, timestamp |-> n, signature |-> s]

MCGenuine ==
    {Signed(a1, 1, s1), Signed(a1, 1, s2), Signed(a2, 0, s1), Signed(a2, 1, s2)}

=============================================================================
