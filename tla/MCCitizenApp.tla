----------------------------- MODULE MCCitizenApp -----------------------------
(***************************************************************************)
(* A small instance of CitizenApp for TLC.                                 *)
(***************************************************************************)
EXTENDS CitizenApp

CONSTANT p

Condition(f, accepts) == [kind |-> "condition", field |-> f, accepts |-> accepts]

Age == Condition("age", {1})
Job == Condition("job", {0})
Bus == Condition("bus", {1})

\* Two things are asked for, one of them in two ways, of which one is a field
\* without an approved definition.
Either == [kind |-> "or", of |-> <<Bus, Job>>]
Both   == [kind |-> "and", of |-> <<Either, Age>>]

MCRule == {Age, Job, Bus, Either, Both}

MCRuleOf == [n \in Policy |-> Both]

\* An answer on the age is valid for a day.
MCValidDays == [f \in Field |-> IF f = "age" THEN 1 ELSE NoEnd]
================================================================================
