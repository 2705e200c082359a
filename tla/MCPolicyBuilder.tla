---------------------------- MODULE MCPolicyBuilder ----------------------------
(***************************************************************************)
(* A small instance of PolicyBuilder for TLC.                              *)
(***************************************************************************)
EXTENDS PolicyBuilder

CONSTANTS ka, kb, kc

Field(key, label, type) == [field |-> key, label |-> label, type |-> type]

Between(f, min, max) ==
    f @@ [operator |-> "between", min |-> min, max |-> max, values |-> <<>>]

OneOf(f, values) ==
    f @@ [operator |-> "in", min |-> None, max |-> None, values |-> values]

Quoting(condition, document, quote) ==
    condition @@ [document |-> document, quote |-> quote]

\* A narrow and a wide range, a narrow and a wide list.
Narrow(f)   == Quoting(Between(f, 1, 2), "html", "q")
Wide(f)     == Quoting(Between(f, 0, 3), "pdf", "p")
Student(f)  == Quoting(OneOf(f, <<"student">>), "html", "q")
Anyone(f)   == Quoting(OneOf(f, <<"worker", "student">>), "html", "q")

\* A range and a list without their operands, a question that is not answered
\* by yes or no, and a quote of no document.
OpenEnded(f) == Quoting(Between(f, 1, None), "html", "q")
Answered(f, value) ==
    Quoting(f @@ [operator |-> "exists", min |-> None, max |-> None, values |-> <<value>>],
            "html", "q")
EmptyList(f) == Quoting(OneOf(f, <<>>), "html", "q")
Invented(f)  == Quoting(OneOf(f, <<"student">>), "html", "nowhere")

Age(key) == Field(key, "age", "number")
Job(key) == Field(key, "job", "enum")

Action(document, quote) == [document |-> document, quote |-> quote]

DraftOf(list, quote) ==
    [conditions |-> list, actions |-> <<Action("html", quote)>>, terms |-> quote]

\* Conditions that change from one notice to the next, in number, order,
\* range and key; one field under two keys, two fields under one; conditions
\* that make no rule; an action that quotes nothing.
MCDraft ==
    {DraftOf(<<Narrow(Age(ka))>>, "q"),
     DraftOf(<<Wide(Age(kb))>>, "nowhere"),
     DraftOf(<<Student(Job(kb)), Narrow(Age(ka))>>, "q"),
     DraftOf(<<Wide(Age(ka)), Anyone(Job(kb))>>, "q"),
     DraftOf(<<Wide(Age(ka)), Student(Job(ka))>>, "q"),
     DraftOf(<<Narrow(Age(ka)), Student(Job(ka)), Wide(Age(kb))>>, "q"),
     DraftOf(<<OpenEnded(Age(ka)), Invented(Job(kb))>>, "q"),
     DraftOf(<<EmptyList(Job(kb)), Answered(Job(kb), "student")>>, "q")}

CorpusOf(documents, conflict, otherTitle) ==
    [documents |-> documents, conflict |-> conflict, otherTitle |-> otherTitle]

\* The notice with its attachment; and alone, as its attachments disagree and
\* its image is that of another notice.
MCCorpus ==
    {CorpusOf([html |-> {"q"}, pdf |-> {"p"}], FALSE, FALSE),
     CorpusOf([html |-> {"q"}], TRUE, TRUE)}

Approved(key, label, type) ==
    [key |-> key, label |-> label, type |-> type, status |-> "approved"]

\* An empty registry, one that has one of the fields under a third key, and
\* one in which a label is ambiguous.
MCCanonical ==
    {{},
     {Approved(kc, "job", "enum")},
     {Approved(kc, "age", "number"), Approved(kb, "age", "number")}}
================================================================================
