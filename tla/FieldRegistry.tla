----------------------------- MODULE FieldRegistry -----------------------------
(***************************************************************************)
(* How the fields that a draft asks for find their definitions             *)
(* (FieldRegistry.resolve_fields).                                         *)
(*                                                                         *)
(* A candidate takes the registered definition of its key; failing that    *)
(* the definition this draft has already proposed under the same label and *)
(* type; failing that the one registered definition of that label and      *)
(* type.  Otherwise, also where several registered definitions match, it   *)
(* is proposed for review.                                                 *)
(***************************************************************************)
EXTENDS Naturals, Sequences, FiniteSets, SequencesExt

Fingerprint(d) == <<d.label, d.type>>

Proposal(c) == [key |-> c.key, label |-> c.label, type |-> c.type, status |-> "pending"]

Matching(S, c) == {d \in S : Fingerprint(d) = Fingerprint(c)}

Nothing == [resolved |-> <<>>, proposals |-> <<>>]

Resolve(found, d) == [found EXCEPT !.resolved = Append(@, d)]

\* Mutant: the candidate keeps its key, which nobody is asked about.
ResolveToItself(registry, found, c) ==
    IF Matching(ToSet(found.proposals), c) # {}
    THEN Resolve(found, Proposal(c))
    ELSE [Resolve(found, Proposal(c)) EXCEPT !.proposals = Append(@, Proposal(c))]

\* Mutant: the definition comes from the candidate, which nobody has reviewed.
ResolveToCandidate(registry, found, c) ==
    IF Matching(registry, c) # {}
    THEN Resolve(found, [Proposal(c) EXCEPT !.status = "approved"])
    ELSE [Resolve(found, Proposal(c)) EXCEPT !.proposals = Append(@, Proposal(c))]

ResolveCandidate(registry, found, c) ==
    LET exact    == {d \in registry : d.key = c.key}
        proposed == Matching(ToSet(found.proposals), c)
        matches  == Matching(registry, c)
    IN  CASE exact # {}                -> Resolve(found, CHOOSE d \in exact : TRUE)
          [] exact = {} /\ proposed # {} -> Resolve(found, CHOOSE d \in proposed : TRUE)
          [] exact = {} /\ proposed = {} /\ Cardinality(matches) = 1
                                       -> Resolve(found, CHOOSE d \in matches : TRUE)
          [] OTHER -> [Resolve(found, Proposal(c)) EXCEPT !.proposals = Append(@, Proposal(c))]

ResolveFields(registry, candidates) ==
    LET found[n \in 0..Len(candidates)] ==
            IF n = 0 THEN Nothing
            ELSE ResolveCandidate(registry, found[n - 1], candidates[n])
    IN  found[Len(candidates)]

Unresolved(found) == {d.key : d \in {e \in ToSet(found.resolved) : e.status # "approved"}}
================================================================================
