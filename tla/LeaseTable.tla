----------------------------- MODULE LeaseTable -----------------------------
(***************************************************************************)
(* What the lease register promises its callers: one table, on which every *)
(* take and every release acts at once and whole, whatever gateway it came *)
(* through.  There is no lock here, no file, no gateway and no failure;    *)
(* LeaseRegister, which has all of them, implements this specification     *)
(* with its file as the table.                                             *)
(***************************************************************************)
EXTENDS Integers, FiniteSets

CONSTANTS
    Leases,      \* records [session, member, agent, at]
    Sessions,
    Identities,  \* the agents, and the console
    Console,     \* the identity that may act on every lease
    ProviderOf,  \* the provider a member belongs to
    Limit        \* sessions one member of a provider carries

VARIABLE table

Empty == table = {}

\* A lease the table holds for the session already, under one identity.
SameClaim(k, l) ==
    /\ k.session = l.session
    /\ k.agent = l.agent
    /\ ProviderOf[k.member] = ProviderOf[l.member]

\* A take: one lease more, on a member below its limit, for a session that
\* has none of that provider under that identity.
Grant(l) ==
    /\ \A k \in table : ~SameClaim(k, l)
    /\ Cardinality({k \in table : k.member = l.member}) < Limit[ProviderOf[l.member]]
    /\ table' = table \cup {l}

\* A release: every lease named ends, and all of them are the caller's own.
End(named, identity) ==
    /\ identity = Console \/ \A l \in named : l.agent = identity
    /\ table' = table \ named

\* A release names one lease id, which says nothing of the agent, or all the
\* leases of a session.
OfSession(s) == {l \in table : l.session = s}

SameId(k) ==
    {l \in OfSession(k.session) : ProviderOf[l.member] = ProviderOf[k.member] /\ l.at = k.at}

Change ==
    \/ \E identity \in Identities :
          \/ \E s \in Sessions : End(OfSession(s), identity)
          \/ \E l \in table : End(SameId(l), identity)
    \/ \E l \in Leases : Grant(l)

TableSpec == Empty /\ [][Change]_table

=============================================================================
