--------------------------- MODULE MCAccountSide ----------------------------
(***************************************************************************)
(* The pool's accounts: how they are signed in, bought, enrolled, banked,  *)
(* listed, counted and given back a spent plan.  A behaviour is one of the *)
(* seven parts at work while the others stand in an initial state; the     *)
(* parts share no variable.                                                *)
(***************************************************************************)
EXTENDS SignIn, Acquisition, SavedResets, PoolOverlay, Enrolment, Listings,
        UsageLedger, TLC

CONSTANTS p1, p2, a1, a2, i1, m1, m2, m3, c1, c2

VARIABLE part

Parts == {"sign-in", "acquisition", "resets", "overlay", "enrolment", "listings",
          "ledger"}

-----------------------------------------------------------------------------
MCExpiries == {1}

\* A spent plan, an open one, a relayed report that passed, a blocked member.
MCReadings ==
    LET Read(b, w, r, as, ws, t) ==
           [blocked |-> b, awaiting |-> w, relayed |-> r, answers |-> as,
            windows |-> ws, tier |-> t]
    IN {Read(FALSE, FALSE, FALSE, TRUE, {"used"}, "stated"),
        Read(FALSE, FALSE, FALSE, TRUE, {"open"}, "stated"),
        Read(FALSE, TRUE, TRUE, TRUE, {"passed"}, "unstated"),
        Read(TRUE, FALSE, FALSE, FALSE, {}, "other")}

MCAccountOf == (m1 :> "x") @@ (m2 :> "y") @@ (m3 :> "z")

\* Two accounts that want one subscription id, the second named by a mail.
MCIdOf == [a \in Persons |-> i1]

MCReceiptOf == [m \in Mails |-> {a2}]

-----------------------------------------------------------------------------
\* A part that is not at work is in one of its initial states.
PartInit ==
    /\ part \in Parts
    /\ part # "resets" => protocol = [m \in Subscribers |-> CHOOSE r \in ResetProtocols : TRUE]
    /\ part # "overlay" => vaulted = {}
    /\ part # "listings" => store = [of |-> NoReading, young |-> FALSE, declared |-> FALSE]
    /\ part # "ledger" => file = [m \in Members |-> None]
    /\ SignInInit
    /\ AcquisitionInit
    /\ SavedResetsInit
    /\ OverlayInit
    /\ EnrolmentInit
    /\ ListingsInit
    /\ Init

PartNext ==
    /\ \/ /\ part = "sign-in" /\ SignInNext
          /\ UNCHANGED <<acquisitionVars, resetVars, overlayVars, enrolmentVars,
                         listingVars, vars>>
       \/ /\ part = "acquisition" /\ AcquisitionNext
          /\ UNCHANGED <<signInVars, resetVars, overlayVars, enrolmentVars,
                         listingVars, vars>>
       \/ /\ part = "resets" /\ SavedResetsNext
          /\ UNCHANGED <<signInVars, acquisitionVars, overlayVars, enrolmentVars,
                         listingVars, vars>>
       \/ /\ part = "overlay" /\ OverlayNext
          /\ UNCHANGED <<signInVars, acquisitionVars, resetVars, enrolmentVars,
                         listingVars, vars>>
       \/ /\ part = "enrolment" /\ EnrolmentNext
          /\ UNCHANGED <<signInVars, acquisitionVars, resetVars, overlayVars,
                         listingVars, vars>>
       \/ /\ part = "listings" /\ ListingsNext
          /\ UNCHANGED <<signInVars, acquisitionVars, resetVars, overlayVars,
                         enrolmentVars, vars>>
       \/ /\ part = "ledger" /\ Next
          /\ UNCHANGED <<signInVars, acquisitionVars, resetVars, overlayVars,
                         enrolmentVars, listingVars>>
    /\ UNCHANGED part

partVars == <<part, signInVars, acquisitionVars, resetVars, overlayVars, enrolmentVars,
              listingVars, vars>>

PartSpec == PartInit /\ [][PartNext]_partVars

=============================================================================
