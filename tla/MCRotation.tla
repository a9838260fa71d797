----------------------------- MODULE MCRotation -----------------------------
(***************************************************************************)
(* Rotation with one request at a time over two models of a provider with  *)
(* two members.                                                            *)
(***************************************************************************)
EXTENDS Rotation, TLC

CONSTANTS p1

\* Sound here: no property or constant tells them apart.
Symmetry == Permutations(Members) \cup Permutations(Routes)

MCRouteOf == [x \in Routes |-> p1]

MCMemberOf == [m \in Members |-> p1]

\* Never written, or inside a rate limit.
MCFound == {None, Reported(None, 1)}

\* No pin, or one whose window ends.
MCFoundPins == [member : Members, until : {1}] \cup {None}

=============================================================================
