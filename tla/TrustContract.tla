---------------------------- MODULE TrustContract ----------------------------
(***************************************************************************)
(* What pairing promises, with no wire protocol in it: two devices, the    *)
(* PIN codes (SAS) their users approved, the record each keeps of the      *)
(* other, and which of them has applied application data of the other.     *)
(* Session.tla is shown to implement this specification.                   *)
(***************************************************************************)
CONSTANTS Role,   \* the two devices
          Sas     \* the short authentication strings a ceremony can show

VARIABLES confirmed,  \* confirmed[r]: the SAS values the user of r approved
          trust,      \* trust[r]: r's stored record of the other device
          delivered   \* the devices that applied clipboard data or an Offer of the other

vars == <<confirmed, trust, delivered>>

\* Both users approved one and the same SAS.
BothConfirmed == \E s \in Sas : \A r \in Role : s \in confirmed[r]

Init ==
    /\ confirmed = [r \in Role |-> {}]
    /\ trust = [r \in Role |-> "none"]
    /\ delivered = {}

Approve(r) ==
    /\ \E s \in Sas : confirmed' = [confirmed EXCEPT ![r] = @ \cup {s}]
    /\ UNCHANGED <<trust, delivered>>

Pin(r) ==
    /\ BothConfirmed
    /\ trust' = [trust EXCEPT ![r] = "Trusted"]
    /\ UNCHANGED <<confirmed, delivered>>

Revoke(r) ==
    /\ trust[r] # "none"
    /\ trust' = [trust EXCEPT ![r] = "Revoked"]
    /\ UNCHANGED <<confirmed, delivered>>

Deliver(r) ==
    /\ BothConfirmed
    /\ delivered' = delivered \cup {r}
    /\ UNCHANGED <<confirmed, trust>>

Next == \E r \in Role : Approve(r) \/ Pin(r) \/ Revoke(r) \/ Deliver(r)

Spec == Init /\ [][Next]_vars
=============================================================================
