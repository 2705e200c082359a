------------------------- MODULE PublicationContract -------------------------
(***************************************************************************)
(* What the review desk of the service promises, with no database, no      *)
(* request and no transaction in it.                                       *)
(*                                                                         *)
(* An agent run submits field definitions for review.  An administrator    *)
(* decides each of them once.  A policy version is shown to citizens only  *)
(* with field definitions that are canonical or that an administrator has  *)
(* approved, and a new submission may take a shown version back.           *)
(***************************************************************************)
CONSTANTS
    Item,       \* field definition reviews
    Field,      \* keys of profile field definitions
    Canonical,  \* keys of Field that are approved from the start
    Version     \* versions of the policy

VARIABLES
    decision,   \* the state of each review
    approvedAs, \* the key under which a review was approved
    shown       \* the field keys of each version that citizens see, {} if hidden

vars == <<decision, approvedAs, shown>>

Decided == {"approved", "rejected"}

\* The keys an administrator has let citizens see.
Cleared ==
    {key \in Field :
        \/ key \in Canonical
        \/ \E i \in Item : decision[i] = "approved" /\ approvedAs[i] = key}

TypeOK ==
    /\ decision \in [Item -> {"none", "pending"} \cup Decided]
    /\ approvedAs \in [Item -> Field]
    /\ shown \in [Version -> SUBSET Field]

Init ==
    /\ decision = [i \in Item |-> "none"]
    /\ approvedAs \in [Item -> Field]
    /\ shown = [v \in Version |-> {}]

\* A run opens reviews and may replace, hence hide, a version.
Submit(items, version) ==
    /\ \A i \in items : decision[i] = "none"
    /\ decision' = [i \in Item |-> IF i \in items THEN "pending" ELSE decision[i]]
    /\ \/ shown' = shown
       \/ shown' = [shown EXCEPT ![version] = {}]
    /\ UNCHANGED approvedAs

Decide(i, verdict, key) ==
    /\ decision[i] = "pending"
    /\ decision' = [decision EXCEPT ![i] = verdict]
    /\ approvedAs' = [approvedAs EXCEPT ![i] = key]
    /\ UNCHANGED shown

Show(version, keys) ==
    /\ shown[version] = {}
    /\ keys \subseteq Cleared
    /\ shown' = [shown EXCEPT ![version] = keys]
    /\ UNCHANGED <<decision, approvedAs>>

Next ==
    \/ \E items \in SUBSET Item, version \in Version : Submit(items, version)
    \/ \E i \in Item, verdict \in Decided, key \in Field : Decide(i, verdict, key)
    \/ \E version \in Version, keys \in SUBSET Field : Show(version, keys)

Spec == Init /\ [][Next]_vars

\* Citizens are never shown a field definition that nobody approved.
ShownIsCleared == \A v \in Version : shown[v] \subseteq Cleared

\* A review that is decided stays decided the same way.
DecisionIsFinal ==
    [][\A i \in Item : decision[i] \in Decided =>
          /\ decision'[i] = decision[i]
          /\ approvedAs'[i] = approvedAs[i]]_vars
=============================================================================
