-------------------------------- MODULE Matcher --------------------------------
(***************************************************************************)
(* The verdict of a policy for the answers that a citizen has given, and   *)
(* the next question (evaluateRule, selectNextQuestion, recordAnswer).     *)
(*                                                                         *)
(* A rule is a condition on one field or an "and" or "or" of rules.  What  *)
(* a condition asks for with its operator is the set of answers it         *)
(* accepts: every answer or none for "exists", whose value the answer is   *)
(* not compared with.                                                      *)
(***************************************************************************)
EXTENDS Naturals, Sequences, SequencesExt

CONSTANTS
    Rule,        \* rules and their parts
    Field,       \* keys of profile fields
    Value,       \* answers
    ValidDays,   \* for each field, how long an answer is valid, or NoEnd
    Unanswered, NoEnd, NoQuestion

IsCondition(r) == r.kind = "condition"

ASSUME RulesAreClosed ==
    \A r \in Rule : IF IsCondition(r)
                    THEN r.field \in Field /\ r.accepts \subseteq Value
                    ELSE r.kind \in {"and", "or"} /\ ToSet(r.of) \subseteq Rule

\* A rule is a tree, as it is parsed from JSON: wherever one goes from a rule to
\* its parts, one comes to an end.
ASSUME RulesAreTrees ==
    \A T \in SUBSET Rule : T # {} =>
       \E r \in T : IsCondition(r) \/ \A i \in DOMAIN r.of : r.of[i] \notin T

ASSUME ValidityIsADay == \A f \in Field : ValidDays[f] \in (Nat \ {0}) \cup {NoEnd}

Status == {"YES", "NO", "UNKNOWN", "STALE"}
-------------------------------------------------------------------------------
\* Mutant: the answer is used one day longer.
IsStaleLater(answer, day) ==
    /\ answer # Unanswered
    /\ answer.until # NoEnd
    /\ answer.until + 1 < day

IsStale(answer, day) ==
    /\ answer # Unanswered
    /\ answer.until # NoEnd
    /\ answer.until < day

EvaluateCondition(c, profile, day) ==
    LET answer == profile[c.field] IN
    CASE answer = Unanswered                     -> "UNKNOWN"
      [] answer # Unanswered /\ IsStale(answer, day) -> "STALE"
      [] OTHER -> IF answer.value \in c.accepts THEN "YES" ELSE "NO"

Undecided(parts, decided) ==
    CASE "STALE" \in parts                             -> "STALE"
      [] "STALE" \notin parts /\ "UNKNOWN" \in parts   -> "UNKNOWN"
      [] OTHER                                         -> decided

EvaluateAnd(parts) == IF "NO" \in parts THEN "NO" ELSE Undecided(parts, "YES")

EvaluateOr(parts) == IF "YES" \in parts THEN "YES" ELSE Undecided(parts, "NO")

EvaluateRule(rule, profile, day) ==
    LET verdict[r \in Rule] ==
            IF IsCondition(r)
            THEN EvaluateCondition(r, profile, day)
            ELSE LET parts == {verdict[r.of[i]] : i \in DOMAIN r.of} IN
                 IF r.kind = "and" THEN EvaluateAnd(parts) ELSE EvaluateOr(parts)
    IN  verdict[rule]

CollectConditionFields(rule) ==
    LET fields[r \in Rule] ==
            IF IsCondition(r)
            THEN <<r.field>>
            ELSE FlattenSeq([i \in DOMAIN r.of |-> fields[r.of[i]]])
    IN  fields[rule]

\* Mutant: a field that has an answer is asked for again.
AskAnyField(rule, approved, profile, day) ==
    IF EvaluateRule(rule, profile, day) \notin {"UNKNOWN", "STALE"}
    THEN NoQuestion
    ELSE LET open == SelectSeq(CollectConditionFields(rule), LAMBDA f : f \in approved) IN
         IF open = <<>> THEN NoQuestion ELSE Head(open)

\* The first field of the rule that has an approved definition and no answer;
\* or no valid answer, where the verdict is stale.
SelectNextQuestion(rule, approved, profile, day) ==
    LET status == EvaluateRule(rule, profile, day)
        Open(f) == /\ f \in approved
                   /\ \/ status = "STALE" /\ IsStale(profile[f], day)
                      \/ status = "UNKNOWN" /\ profile[f] = Unanswered
        open    == SelectSeq(CollectConditionFields(rule), Open)
    IN  IF open = <<>> THEN NoQuestion ELSE Head(open)

AnswerOn(f, value, day) ==
    [value |-> value,
     until |-> IF ValidDays[f] = NoEnd THEN NoEnd ELSE day + ValidDays[f]]

\* Mutant: the other answers are left out.
RecordOnly(profile, f, value, day) ==
    [g \in Field |-> IF g = f THEN AnswerOn(f, value, day) ELSE Unanswered]

RecordAnswer(profile, f, value, day) ==
    [profile EXCEPT ![f] = AnswerOn(f, value, day)]
-------------------------------------------------------------------------------
(***************************************************************************)
(* What a verdict promises.                                                *)
(***************************************************************************)
ValidOn(answer, day) ==
    answer # Unanswered /\ (answer.until = NoEnd \/ answer.until >= day)

\* The answers that the citizen may come to give: those that are valid today
\* stay.
Completions(profile, day) ==
    {answers \in [Field -> Value] :
        \A f \in Field : ValidOn(profile[f], day) => answers[f] = profile[f].value}

Met(rule, answers) ==
    LET met[r \in Rule] ==
            /\ IsCondition(r) => answers[r.field] \in r.accepts
            /\ r.kind = "and" => \A i \in DOMAIN r.of : met[r.of[i]]
            /\ r.kind = "or" => \E i \in DOMAIN r.of : met[r.of[i]]
    IN  met[rule]

\* YES and NO hold whatever the citizen answers to the questions that are
\* open.
IsFinal(rule, profile, day) ==
    LET verdict == EvaluateRule(rule, profile, day) IN
    \A answers \in Completions(profile, day) :
       /\ verdict = "YES" => Met(rule, answers)
       /\ verdict = "NO" => ~Met(rule, answers)
================================================================================
