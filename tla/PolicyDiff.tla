------------------------------ MODULE PolicyDiff ------------------------------
(***************************************************************************)
(* The changes of a new version against the previous one (policy_diff).    *)
(*                                                                         *)
(* The conditions of a rule are grouped by field; a field whose list of    *)
(* conditions differs is a change.  Changes are a set here: their order is *)
(* that of the field names.                                                *)
(***************************************************************************)
EXTENDS Integers, Sequences, SequencesExt

CONSTANT None  \* a value that a document leaves out

\* The members of T up to n, in ascending order.
Ascending(T, n) ==
    LET list[i \in 0..n] ==
            IF i = 0 THEN <<>>
            ELSE IF i \in T THEN Append(list[i - 1], i) ELSE list[i - 1]
    IN  list[n]

\* The items of a list at some of its places, in their order.
Items(list, T) == LET places == Ascending(T, Len(list)) IN
                  [n \in DOMAIN places |-> list[places[n]]]

RulesOf(package, field) ==
    Items(package.rules, {i \in DOMAIN package.rules : package.rules[i].field = field})

RuleFields(package) == {package.rules[i].field : i \in DOMAIN package.rules}

\* Mutant: the bounds are compared the wrong way round.
SwappedBetween(before, after) ==
    IF after.min >= before.min /\ after.max <= before.max THEN "expanded"
    ELSE IF after.min <= before.min /\ after.max >= before.max THEN "narrowed"
    ELSE "changed"

BetweenChange(before, after) ==
    IF after.min <= before.min /\ after.max >= before.max THEN "expanded"
    ELSE IF after.min >= before.min /\ after.max <= before.max THEN "narrowed"
    ELSE "changed"

InChange(before, after) ==
    LET old == ToSet(before.values)
        new == ToSet(after.values)
    IN  CASE old \subseteq new /\ old # new -> "expanded"
          [] new \subseteq old /\ old # new -> "narrowed"
          [] OTHER                          -> "changed"

SingleRuleChange(before, after) ==
    CASE before.operator # after.operator -> "changed"
      [] before.operator = "between" /\ after.operator = "between"
                                          -> BetweenChange(before, after)
      [] before.operator = "in" /\ after.operator = "in"
                                          -> InChange(before, after)
      [] OTHER                            -> "changed"

ChangeType(before, after) ==
    CASE before = <<>>                      -> "added"
      [] before # <<>> /\ after = <<>>      -> "removed"
      [] Len(before) = 1 /\ Len(after) = 1  -> SingleRuleChange(before[1], after[1])
      [] OTHER                              -> "changed"

\* Mutant: the evidence of the last condition on the field.
LastEvidence(package, field) ==
    IF field \in RuleFields(package) THEN Len(package.rules) ELSE 1

\* The first condition on the field and the evidence item at its place; the
\* first item where the field has no condition any more.
EvidenceOf(package, field) ==
    LET places == {i \in DOMAIN package.rules : package.rules[i].field = field} IN
    IF places = {} THEN 1 ELSE CHOOSE i \in places : \A j \in places : i <= j

ConditionChanges(previous, current) ==
    {[field    |-> f,
      before   |-> RulesOf(previous, f),
      after    |-> RulesOf(current, f),
      type     |-> ChangeType(RulesOf(previous, f), RulesOf(current, f)),
      evidence |-> EvidenceOf(current, f)] :
        f \in {g \in RuleFields(previous) \cup RuleFields(current) :
                  RulesOf(previous, g) # RulesOf(current, g)}}

\* The dates and the actions are one value.
MetadataChange(previous, current) == previous.terms # current.terms

\* A version of its own where there is no previous policy.
ApplyPolicyDiff(previous, current) ==
    IF previous = None
    THEN current
    ELSE [current EXCEPT !.version  = previous.version + 1,
                         !.changes  = ConditionChanges(previous, current),
                         !.newTerms = MetadataChange(previous, current)]
===============================================================================
