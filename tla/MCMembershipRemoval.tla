------------------------- MODULE MCMembershipRemoval ------------------------
(***************************************************************************)
(* MembershipRemoval on a pool of one member.                              *)
(***************************************************************************)
EXTENDS MembershipRemoval

CONSTANTS g1, p1

MCProviderOf == [m \in Members |-> p1]

MCLimit == [p \in Providers |-> 1]

OneGateway == [t \in Tasks |-> g1]

OneRemoverGateway == [r \in Removers |-> g1]

=============================================================================
