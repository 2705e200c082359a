----------------------------- MODULE PolicyBuilder -----------------------------
(***************************************************************************)
(* From the draft of the language model to the versions of a policy:       *)
(* build_policy_package, the comparison with the previous version, the     *)
(* reviews of the proposed fields and the publication.                     *)
(*                                                                         *)
(* One policy family is followed over several notices.  Everything happens *)
(* one step after the other here: PolicyReview has the interleavings, this *)
(* module has what is in a package.                                        *)
(***************************************************************************)
EXTENDS FieldRegistry, PolicyDiff

CONSTANTS
    Key,         \* keys of profile fields
    Draft,       \* what the model may extract
    Corpus,      \* the documents it extracts from
    Canonical,   \* definitions that may be registered at the start
    MaxVersion   \* bound on the versions of the family

VARIABLES
    catalog,    \* the canonical definitions
    approvals,  \* the definitions that reviews have approved, of all runs
    previous,   \* the published version, or None
    source,     \* the draft the published version was built from
    build,      \* what the last run has built, or None
    origin,     \* its draft and documents, and the definitions it has read
    pending     \* the reviews that are left to decide, by their key

vars == <<catalog, approvals, previous, source, build, origin, pending>>

Definition == [key : Key, label : STRING, type : STRING, status : {"approved", "pending"}]

\* The schema of PolicyDraft, which the answer of the model is parsed with.
ConditionType ==
    [field    : Key,
     label    : STRING,
     type     : STRING,
     operator : STRING,
     min      : Int \cup {None},
     max      : Int \cup {None},
     values   : Seq(STRING),
     document : STRING,
     quote    : STRING]

ActionType == [document : STRING, quote : STRING]

DraftType == [conditions : Seq(ConditionType), actions : Seq(ActionType), terms : STRING]

\* A registry has one definition under a key, and only approved ones.
AreApproved(S) ==
    /\ S \subseteq Definition
    /\ \A d \in S : d.status = "approved"

IsRegistry(S) ==
    /\ AreApproved(S)
    /\ \A d, e \in S : d.key = e.key => d = e

ASSUME BuilderAssumption ==
    /\ Draft \subseteq DraftType
    /\ \A corpus \in Corpus : {corpus.conflict, corpus.otherTitle} \subseteq BOOLEAN
    /\ \A S \in Canonical : IsRegistry(S)
    /\ MaxVersion \in Nat \ {0}

NoBuild == [package |-> None, issues |-> {}, proposals |-> <<>>, reviews |-> {}]

Init ==
    /\ catalog \in Canonical
    /\ approvals = {}
    /\ previous = None
    /\ source = None
    /\ build = NoBuild
    /\ origin = None
    /\ pending = {}
-------------------------------------------------------------------------------
(***************************************************************************)
(* A condition and its evidence.                                           *)
(***************************************************************************)
\* _eligibility_rule raises where the operator lacks its operand; a scalar is
\* a single value, and that of "exists" says yes or no.
ValidCondition(c) ==
    CASE c.operator = "between" -> None \notin {c.min, c.max}
      [] c.operator = "in"      -> c.values # <<>>
      [] c.operator = "exists"  -> c.values \in {<<"true">>, <<"false">>}
      [] OTHER                  -> Len(c.values) = 1

EligibilityRule(c, key) ==
    [field    |-> key,
     operator |-> c.operator,
     min      |-> c.min,
     max      |-> c.max,
     values   |-> c.values]

\* The documents by name: the notice itself, and every attachment that could
\* be read; of two with one name, the later.
QuoteFound(corpus, item) ==
    /\ item.document \in DOMAIN corpus.documents
    /\ item.quote \in corpus.documents[item.document]

EvidenceItems(draft) == draft.conditions \o draft.actions

CorpusIssues(corpus) ==
    (IF corpus.conflict THEN {"document_conflict"} ELSE {})
    \cup (IF corpus.otherTitle THEN {"image_title_conflict"} ELSE {})

\* Mutant: the quotes of the actions are not looked up.
ValidateConditions(corpus, draft) ==
    CorpusIssues(corpus)
    \cup {i.quote : i \in {j \in ToSet(draft.conditions) : ~QuoteFound(corpus, j)}}

ValidateEvidence(corpus, draft) ==
    CorpusIssues(corpus)
    \cup {i.quote : i \in {j \in ToSet(EvidenceItems(draft)) : ~QuoteFound(corpus, j)}}
-------------------------------------------------------------------------------
(***************************************************************************)
(* The package.                                                            *)
(***************************************************************************)
\* A dict keeps the place of the first item of a key and the value of the last.
FirstPlaces(list) ==
    {i \in DOMAIN list : \A m \in 1..(i - 1) : list[m].key # list[i].key}

LastOfKey(list, key) ==
    list[CHOOSE i \in DOMAIN list :
            /\ list[i].key = key
            /\ \A m \in (i + 1)..Len(list) : list[m].key # key]

FirstOfKeys(list) == Items(list, FirstPlaces(list))

DictOf(list) == LET firsts == FirstOfKeys(list) IN
                [n \in DOMAIN firsts |-> LastOfKey(list, firsts[n].key)]

Conditions(draft) == [i \in DOMAIN draft.conditions |->
                         LET c == draft.conditions[i] IN
                         [key |-> c.field, label |-> c.label, type |-> c.type]]

ValidPlaces(draft) == {i \in DOMAIN draft.conditions : ValidCondition(draft.conditions[i])}

Rules(draft, found) ==
    Items([i \in DOMAIN draft.conditions |->
              EligibilityRule(draft.conditions[i], found.resolved[i].key)],
          ValidPlaces(draft))

Evidence(draft) == [i \in DOMAIN EvidenceItems(draft) |-> EvidenceItems(draft)[i].quote]

BuildPackage(definitions, corpus, draft) ==
    LET found   == ResolveFields(definitions, Conditions(draft))
        rules   == Rules(draft, found)
        invalid == Len(rules) # Len(draft.conditions)
        package == [version  |-> 1,
                    rules    |-> rules,
                    fields   |-> DictOf(found.resolved),
                    terms    |-> draft.terms,
                    evidence |-> Evidence(draft),
                    changes  |-> {},
                    newTerms |-> FALSE]
    IN  [package   |-> IF rules = <<>> THEN None ELSE package,
         issues    |-> ValidateEvidence(corpus, draft)
                       \cup (IF invalid THEN {"invalid_condition"} ELSE {}),
         proposals |-> found.proposals,
         reviews   |-> {LastOfKey(found.proposals, d.key) : d \in ToSet(found.proposals)}]

\* Every definition that is in force.
Registered == catalog \cup approvals

Override(S, own) == {d \in S : \A e \in own : e.key # d.key} \cup own

Keys(S) == {d.key : d \in S}

\* What list_approved_field_definitions may return: one definition for each
\* key, an approved review's before the catalog's.  The reviews are read in no
\* particular order, so of two under one key it is either.
Readings ==
    LET available == Override(catalog, approvals) IN
    {S \in SUBSET available : IsRegistry(S) /\ Keys(S) = Keys(available)}

\* The definitions of the previous version take precedence.
Definitions(prev, read) ==
    IF prev = None
    THEN read
    ELSE Override(read, {e \in ToSet(prev.fields) : e.status = "approved"})

Built(prev, definitions, corpus, draft) ==
    LET b == BuildPackage(definitions, corpus, draft) IN
    IF b.package = None
    THEN b
    ELSE [b EXCEPT !.package = ApplyPolicyDiff(prev, @)]

ReviewRequired(b) == b.issues # {} \/ b.proposals # <<>>
-------------------------------------------------------------------------------
(***************************************************************************)
(* The steps.                                                              *)
(***************************************************************************)
Idle == build = NoBuild

\* A run of the agent on a notice of the family.  Its reviews are stored
\* under the run and the key: of two proposals with one key, the later.
Run(corpus, draft) ==
    /\ Idle
    /\ previous # None => previous.version < MaxVersion
    /\ \E read \in Readings :
          LET definitions == Definitions(previous, read) IN
          /\ build' = Built(previous, definitions, corpus, draft)
          /\ origin' = [draft |-> draft, corpus |-> corpus, definitions |-> definitions]
    /\ pending' = Keys(build'.reviews)
    /\ UNCHANGED <<catalog, approvals, previous, source>>

\* The definition of old becomes d; of two definitions with one key the first
\* stays.
ReplaceFields(fields, old, d) ==
    FirstOfKeys([i \in DOMAIN fields |-> IF fields[i].key = old THEN d ELSE fields[i]])

\* Mutant: the rule keeps the key that was proposed.
ReplaceDefinitionOnly(package, old, d) ==
    [package EXCEPT !.fields = ReplaceFields(@, old, d)]

ReplacePolicyField(package, old, d) ==
    [package EXCEPT
        !.fields  = ReplaceFields(@, old, d),
        !.rules   = [i \in DOMAIN @ |-> IF @[i].field = old
                                        THEN [@[i] EXCEPT !.field = d.key] ELSE @[i]],
        !.changes = {IF c.field = old THEN [c EXCEPT !.field = d.key] ELSE c : c \in @}]

\* Mutant: the field stays as it was proposed, but for its key.
RenamedField(d, key) == [d EXCEPT !.key = key]

ApprovedField(d, key) == [d EXCEPT !.key = key, !.status = "approved"]

\* An administrator approves the field, as it was proposed or under another
\* key, which may be one that another definition has.
ApproveReview(old, key) ==
    /\ old \in pending
    /\ \E d \in build.reviews :
          /\ d.key = old
          /\ LET approved == ApprovedField(d, key) IN
             /\ approvals' = approvals \cup {approved}
             /\ build' = IF build.package = None THEN build
                         ELSE [build EXCEPT !.package =
                                  ReplacePolicyField(@, old, approved)]
    /\ pending' = pending \ {old}
    /\ UNCHANGED <<catalog, previous, source, origin>>

Publish ==
    /\ build.package # None
    /\ pending = {}
    /\ previous' = build.package
    /\ source' = origin.draft
    /\ build' = NoBuild
    /\ origin' = None
    /\ UNCHANGED <<catalog, approvals, pending>>

\* The version is rejected, or nothing could be built.
Drop ==
    /\ build # NoBuild
    /\ build' = NoBuild
    /\ origin' = None
    /\ pending' = {}
    /\ UNCHANGED <<catalog, approvals, previous, source>>

Next ==
    \/ \E corpus \in Corpus, draft \in Draft : Run(corpus, draft)
    \/ \E old, key \in Key : ApproveReview(old, key)
    \/ Publish
    \/ Drop

Spec == Init /\ [][Next]_vars
-------------------------------------------------------------------------------
(***************************************************************************)
(* Properties.                                                             *)
(***************************************************************************)
\* A build refers to its own conditions and evidence.
TypeOK ==
    /\ AreApproved(Registered)
    /\ pending \subseteq Keys(build.reviews)
    /\ \A package \in {previous, build.package} \ {None} :
          /\ package.version \in 1..MaxVersion
          /\ \A i \in DOMAIN package.fields : package.fields[i] \in Definition
          /\ \A c \in package.changes : c.evidence \in DOMAIN package.evidence

\* No definition slips past the administrators: each one in the package is one
\* that was approved before the run, or what they have made of a review of this
\* run, or a proposal of the run whose key they are still asked about; and what
\* they are asked about is a key that the package has.  Where a draft uses one
\* key for two fields, the proposal in the package may be the other one.
ReviewedIsUsed ==
    build.package # None =>
       /\ \A e \in ToSet(build.package.fields) :
             \/ e \in origin.definitions
             \/ \E d \in build.reviews : d.key \notin pending /\ e = ApprovedField(d, e.key)
             \/ e \in ToSet(build.proposals) /\ e.key \in pending
       /\ pending \subseteq Keys(ToSet(build.package.fields))

\* A published rule asks only for fields that its own list of definitions
\* explains, each approved and under one key, whatever keys the reviews chose.
PublishedIsExplained ==
    previous # None =>
       /\ \A f \in RuleFields(previous) : \E d \in ToSet(previous.fields) : d.key = f
       /\ \A d \in ToSet(previous.fields) : d.status = "approved"
       /\ \A i, j \in DOMAIN previous.fields :
             previous.fields[i].key = previous.fields[j].key => i = j

\* A run that asks for no review has found every quote, of conditions and
\* of actions, in the document it names, and all its fields were approved
\* (D-006).
SilentRunIsGrounded ==
    build # NoBuild /\ ~ReviewRequired(build) =>
       /\ \A i \in ToSet(EvidenceItems(origin.draft)) : QuoteFound(origin.corpus, i)
       /\ ~origin.corpus.conflict /\ ~origin.corpus.otherTitle
       /\ build.package # None =>
             RuleFields(build.package) \subseteq Keys(Registered)

\* The conditions that made a rule.
RuleConditions(draft) == Items(draft.conditions, ValidPlaces(draft))

\* Do the labels of a draft lead to one definition each, the one that the rule
\* of the published version asks for?  A key that the draft uses may be
\* that of this definition only.
Recognised(definitions, draft, version) ==
    /\ \A c \in ToSet(Conditions(draft)) :
          \E d \in definitions :
             /\ Matching(definitions, c) = {d}
             /\ \A e \in definitions : e.key = c.key => e = d
    /\ \A n \in DOMAIN version.rules :
          \E d \in ToSet(version.fields) :
             /\ d.key = version.rules[n].field
             /\ Fingerprint(d) = Fingerprint(RuleConditions(draft)[n])

\* A notice that says what the published version says brings neither changes
\* nor proposals, whatever keys the reviews gave its fields: its labels lead
\* to the keys of the published rules.
RebuildIsQuiet ==
    previous # None =>
       \A read \in Readings :
          LET definitions == Definitions(previous, read) IN
          Recognised(definitions, source, previous) =>
             \A corpus \in Corpus :
                LET again == Built(previous, definitions, corpus, source) IN
                again.proposals = <<>> /\ again.package.changes = {}

\* The answers to its question that a condition accepts, as the matcher of
\* the citizen app reads it.
Accepts(r, answers) ==
    CASE r.operator = "between" -> {n \in answers \cap Int : r.min <= n /\ n <= r.max}
      [] OTHER                  -> answers \cap ToSet(r.values)

\* A change is called expanded or narrowed only if whoever met the condition
\* before does so now, or the other way round.
ChangesTellTheTruth ==
    build.package # None /\ previous # None =>
       \A c \in build.package.changes : c.type \in {"expanded", "narrowed"} =>
          LET answers == UNION {{r.min, r.max} \cup ToSet(r.values) :
                                   r \in {c.before[1], c.after[1]}} \ {None}
              old == Accepts(c.before[1], answers)
              new == Accepts(c.after[1], answers)
          IN  IF c.type = "expanded" THEN old \subseteq new ELSE new \subseteq old

\* When every condition of the draft made a rule, a change other than a
\* removal cites the evidence of a condition on its field, not that of another
\* one, also after a review has changed the key.
ChangeCitesItsField ==
    build.package # None /\ Len(build.package.rules) = Len(origin.draft.conditions) =>
       \A c \in build.package.changes :
          c.type # "removed" => build.package.rules[c.evidence].field = c.field
================================================================================
