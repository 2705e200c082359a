---------------------- MODULE PublicationContractProofs ----------------------
(***************************************************************************)
(* What the contract means for a citizen, for every set of reviews, fields *)
(* and versions: the two promises of PublicationContract hold of it.       *)
(***************************************************************************)
EXTENDS PublicationContract, TLAPS

LEMMA ContractTyped == Spec => []TypeOK
<1>1. Init => TypeOK
  BY DEF Init, TypeOK
<1>2. TypeOK /\ [Next]_vars => TypeOK'
  <2> SUFFICES ASSUME TypeOK, [Next]_vars PROVE TypeOK'
    OBVIOUS
  <2>1. ASSUME NEW items \in SUBSET Item, NEW version \in Version, Submit(items, version)
        PROVE  TypeOK'
    BY <2>1 DEF TypeOK, Submit
  <2>2. ASSUME NEW i \in Item, NEW verdict \in Decided, NEW key \in Field,
               Decide(i, verdict, key)
        PROVE  TypeOK'
    BY <2>2 DEF TypeOK, Decide
  <2>3. ASSUME NEW version \in Version, NEW keys \in SUBSET Field, Show(version, keys)
        PROVE  TypeOK'
    BY <2>3 DEF TypeOK, Show
  <2>4. CASE UNCHANGED vars
    BY <2>4 DEF TypeOK, vars
  <2>5. QED
    BY <2>1, <2>2, <2>3, <2>4 DEF Next
<1>3. QED
  BY <1>1, <1>2, PTL DEF Spec

\* A review that is decided keeps its verdict and its key in every step.
LEMMA DecidedStays ==
  ASSUME TypeOK, [Next]_vars, NEW i \in Item, decision[i] \in Decided
  PROVE  decision'[i] = decision[i] /\ approvedAs'[i] = approvedAs[i]
<1>1. decision[i] # "none" /\ decision[i] # "pending"
  BY DEF Decided
<1>2. ASSUME NEW items \in SUBSET Item, NEW version \in Version, Submit(items, version)
      PROVE  decision'[i] = decision[i] /\ approvedAs'[i] = approvedAs[i]
  BY <1>1, <1>2 DEF Submit
<1>3. ASSUME NEW j \in Item, NEW verdict \in Decided, NEW key \in Field, Decide(j, verdict, key)
      PROVE  decision'[i] = decision[i] /\ approvedAs'[i] = approvedAs[i]
  BY <1>1, <1>3 DEF Decide, TypeOK
<1>4. ASSUME NEW version \in Version, NEW keys \in SUBSET Field, Show(version, keys)
      PROVE  decision'[i] = decision[i] /\ approvedAs'[i] = approvedAs[i]
  BY <1>4 DEF Show
<1>5. CASE UNCHANGED vars
  BY <1>5 DEF vars
<1>6. QED
  BY <1>2, <1>3, <1>4, <1>5 DEF Next

LEMMA ClearedGrows == ASSUME TypeOK, [Next]_vars PROVE Cleared \subseteq Cleared'
<1>1. ASSUME NEW key \in Field, NEW i \in Item, decision[i] = "approved" /\ approvedAs[i] = key
      PROVE  decision'[i] = "approved" /\ approvedAs'[i] = key
  BY <1>1, DecidedStays DEF Decided
<1>2. QED
  BY <1>1 DEF Cleared

\* No version ever shows citizens a field definition that neither the catalog
\* nor an administrator approved (docs/DECISIONS.md:13).
THEOREM ContractShowsCleared == Spec => []ShownIsCleared
<1>1. Init => ShownIsCleared
  BY DEF Init, ShownIsCleared
<1>2. TypeOK /\ ShownIsCleared /\ [Next]_vars => ShownIsCleared'
  <2> SUFFICES ASSUME TypeOK, ShownIsCleared, [Next]_vars, NEW v \in Version
               PROVE  shown'[v] \subseteq Cleared'
    BY DEF ShownIsCleared
  <2>1. Cleared \subseteq Cleared' /\ shown[v] \subseteq Cleared
    BY ClearedGrows DEF ShownIsCleared
  <2>2. ASSUME NEW items \in SUBSET Item, NEW version \in Version, Submit(items, version)
        PROVE  shown'[v] \subseteq Cleared'
    BY <2>1, <2>2 DEF Submit, TypeOK
  <2>3. ASSUME NEW i \in Item, NEW verdict \in Decided, NEW key \in Field,
               Decide(i, verdict, key)
        PROVE  shown'[v] \subseteq Cleared'
    BY <2>1, <2>3 DEF Decide
  <2>4. ASSUME NEW version \in Version, NEW keys \in SUBSET Field, Show(version, keys)
        PROVE  shown'[v] \subseteq Cleared'
    BY <2>1, <2>4 DEF Show, TypeOK
  <2>5. CASE UNCHANGED vars
    BY <2>1, <2>5 DEF vars
  <2>6. QED
    BY <2>2, <2>3, <2>4, <2>5 DEF Next
<1>3. QED
  BY <1>1, <1>2, ContractTyped, PTL DEF Spec

\* An administrator's decision is never turned into the opposite one, nor
\* given another key (docs/contracts/api.md:189-190).
THEOREM ContractDecidesOnce == Spec => DecisionIsFinal
<1>1. TypeOK /\ [Next]_vars =>
        [\A i \in Item : decision[i] \in Decided =>
            /\ decision'[i] = decision[i]
            /\ approvedAs'[i] = approvedAs[i]]_vars
  BY DecidedStays
<1>2. QED
  BY <1>1, ContractTyped, PTL DEF Spec, DecisionIsFinal
=============================================================================
