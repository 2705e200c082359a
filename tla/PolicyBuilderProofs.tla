-------------------------- MODULE PolicyBuilderProofs -------------------------
(***************************************************************************)
(* What a package holds, from the draft to the published version, for      *)
(* drafts of any length: the loops of the builder turn by turn, what the   *)
(* words expanded and narrowed of a change mean, and the invariants of the *)
(* runs, reviews and publications of a policy family.                      *)
(***************************************************************************)
EXTENDS PolicyBuilder, FiniteSetTheorems, SequenceTheorems, WellFoundedInduction, TLAPS

-----------------------------------------------------------------------------
(***************************************************************************)
(* The invariant.                                                          *)
(***************************************************************************)
RuleType ==
    [field    : Key,
     operator : STRING,
     min      : Int \cup {None},
     max      : Int \cup {None},
     values   : Seq(STRING)]

\* A condition that made a rule has the operands of its operator.
HasOperands(r) == r.operator = "between" => r.min \in Int /\ r.max \in Int

ValidRule == {r \in RuleType : HasOperands(r)}

ChangeKind == {"added", "removed", "expanded", "narrowed", "changed"}

ChangeRecord ==
    [field    : Key,
     before   : Seq(ValidRule),
     after    : Seq(ValidRule),
     type     : ChangeKind,
     evidence : Nat]

PackageType ==
    [version  : 1..MaxVersion,
     rules    : Seq(ValidRule),
     fields   : Seq(Definition),
     terms    : STRING,
     evidence : Seq(STRING),
     changes  : SUBSET ChangeRecord,
     newTerms : BOOLEAN]

\* One definition under a key.
UniqueKeys(list) ==
    \A i, j \in 1..Len(list) : list[i].key = list[j].key => i = j

Explained(rules, fields) ==
    \A n \in 1..Len(rules) : \E i \in 1..Len(fields) : fields[i].key = rules[n].field

\* The rules are those of the draft, in its order, whatever their fields.
FromDraft(rules, draft) ==
    /\ Len(rules) = Len(RuleConditions(draft))
    /\ \A n \in 1..Len(rules) :
          rules[n] = EligibilityRule(RuleConditions(draft)[n], rules[n].field)

TrueChange(c, rules) ==
    /\ c.type = ChangeType(c.before, c.after)
    /\ c.evidence \in 1..Len(rules)
    /\ c.type # "removed" => rules[c.evidence].field = c.field

Whole(p, draft) ==
    /\ p \in PackageType
    /\ draft \in Draft
    /\ Len(p.rules) > 0
    /\ Len(p.rules) <= Len(p.evidence)
    /\ UniqueKeys(p.fields)
    /\ Explained(p.rules, p.fields)
    /\ FromDraft(p.rules, draft)
    /\ \A c \in p.changes : TrueChange(c, p.rules)

RegisteredFields(fields, S) ==
    \A i \in 1..Len(fields) :
       fields[i].status = "approved" => \E d \in S : d.key = fields[i].key

\* Nothing waits that is not in pending.
PendingAsked(fields, asked) ==
    \A i \in 1..Len(fields) : fields[i].status = "pending" => fields[i].key \in asked

\* A definition was approved before, or is what a decided review made of it, or
\* is proposed and still under review; and what is under review is used.
Accounted(e, read, reviews, proposals, asked) ==
    \/ e \in read
    \/ \E d \in reviews : d.key \notin asked /\ e = ApprovedField(d, e.key)
    \/ e \in ToSet(proposals) /\ e.key \in asked

ReviewUsed(fields, asked) ==
    \A k \in asked : \E i \in 1..Len(fields) : fields[i].key = k

IsBuild(b) ==
    /\ b = [package   |-> b.package,
            issues    |-> b.issues,
            proposals |-> b.proposals,
            reviews   |-> b.reviews]
    /\ b.reviews \subseteq Definition
    /\ b.proposals = <<>> => b.reviews = {}

PreviousInvariant ==
    previous # None =>
       /\ Whole(previous, source)
       /\ \A i \in 1..Len(previous.fields) : previous.fields[i].status = "approved"
       /\ RegisteredFields(previous.fields, Registered)

BuildInvariant ==
    /\ IsBuild(build)
    /\ pending \subseteq Keys(build.reviews)
    /\ build # NoBuild =>
          /\ origin.draft \in Draft /\ origin.corpus \in Corpus
          /\ ValidateEvidence(origin.corpus, origin.draft) \subseteq build.issues

PackageInvariant ==
    build.package # None =>
       /\ Whole(build.package, origin.draft)
       /\ RegisteredFields(build.package.fields, Registered)
       /\ PendingAsked(build.package.fields, pending)
       /\ \A i \in 1..Len(build.package.fields) :
             Accounted(build.package.fields[i], origin.definitions,
                       build.reviews, build.proposals, pending)
       /\ ReviewUsed(build.package.fields, pending)

BuilderInvariant ==
    /\ AreApproved(Registered)
    /\ PreviousInvariant
    /\ BuildInvariant
    /\ PackageInvariant
-----------------------------------------------------------------------------
(***************************************************************************)
(* Induction and loops.  The induction theorems of the library cannot be   *)
(* instantiated; that the natural numbers are well-founded can.            *)
(***************************************************************************)
LEMMA NatMinimum ==
  ASSUME NEW T, T \subseteq Nat, T # {}
  PROVE  \E n \in T : \A m \in T : n <= m
<1> DEFINE R == OpToRel(<, Nat)
<1>1. IsWellFoundedOn(R, Nat)
  BY NatLessThanWellFounded
<1>2. \A m, n \in Nat : <<m, n>> \in R <=> m < n
  BY DEF OpToRel
<1> HIDE DEF R
<1>3. PICK n \in T : \A m \in T : ~(<<m, n>> \in R)
  BY <1>1, WFMin, Zenon
<1>4. ASSUME NEW m \in T PROVE n <= m
  <2>1. m \in Nat /\ n \in Nat
    OBVIOUS
  <2>2. ~(m < n)
    BY <1>2, <1>3, <2>1
  <2> QED
    BY <2>1, <2>2
<1> QED
  BY <1>4

LEMMA IntervalInduction ==
  ASSUME NEW N \in Nat, NEW T, 0 \in T,
         \A n \in 0..(N - 1) : n \in T => n + 1 \in T
  PROVE  \A n \in 0..N : n \in T
<1> DEFINE B == {n \in 0..N : n \notin T}
<1> SUFFICES ASSUME B # {} PROVE FALSE
  OBVIOUS
<1>1. B \subseteq Nat
  OBVIOUS
<1> HIDE DEF B
<1>2. PICK n \in B : \A m \in B : n <= m
  BY <1>1, NatMinimum
<1> USE DEF B
<1>3. n # 0 /\ n - 1 \in 0..(N - 1)
  BY <1>2
<1>4. n - 1 \in T
  BY <1>2, <1>3
<1> QED
  BY <1>2, <1>3, <1>4

\* The turns of a loop stay in S; f has the value after each turn.
Turns(F, N, S) == \A n \in 1..N : \A x \in S : F[n][x] \in S

Runs(f, F, N, S, base) ==
    f \in [0..N -> S] /\ f[0] = base /\ \A n \in 1..N : f[n] = F[n][f[n - 1]]

LEMMA LoopRuns ==
  ASSUME NEW N \in Nat, NEW S, NEW base \in S, NEW F, Turns(F, N, S)
  PROVE  \E f : Runs(f, F, N, S, base)
<1> DEFINE T == {k \in 0..N : \E f : Runs(f, F, k, S, base)}
<1>1. 0 \in T
  <2>1. Runs([i \in 0..0 |-> base], F, 0, S, base)
    BY DEF Runs
  <2> QED
    BY <2>1
<1>2. ASSUME NEW k \in 0..(N - 1), k \in T
      PROVE  k + 1 \in T
  <2>1. PICK f : Runs(f, F, k, S, base)
    BY <1>2
  <2> DEFINE g == [i \in 0..(k + 1) |-> IF i = k + 1 THEN F[k + 1][f[k]] ELSE f[i]]
  <2>2. Runs(g, F, k + 1, S, base)
    <3>1. g[0] = base
      BY <2>1 DEF Runs
    <3>2. g \in [0..(k + 1) -> S]
      BY <2>1 DEF Runs, Turns
    <3>3. ASSUME NEW n \in 1..(k + 1) PROVE g[n] = F[n][g[n - 1]]
      BY <2>1 DEF Runs
    <3> QED
      BY <3>1, <3>2, <3>3 DEF Runs
  <2> HIDE DEF g
  <2> QED
    BY <2>2
<1> HIDE DEF T
<1>3. \A k \in 0..N : k \in T
  BY <1>1, <1>2, IntervalInduction, Zenon
<1>4. N \in T
  BY <1>3
<1> QED
  BY <1>4 DEF T
-----------------------------------------------------------------------------
(***************************************************************************)
(* Lists.                                                                  *)
(***************************************************************************)
AscendingStep(T, f, i) ==
    IF i = 0 THEN <<>> ELSE IF i \in T THEN Append(f[i - 1], i) ELSE f[i - 1]

LEMMA AscendingRuns ==
  ASSUME NEW T, NEW n \in Nat
  PROVE  \E f \in [0..n -> Seq(T \cap 1..n)] :
            /\ \A i \in 0..n : f[i] = AscendingStep(T, f, i)
            /\ Ascending(T, n) = f[n]
<1> DEFINE S == Seq(T \cap 1..n)
           F == [i \in 1..n |-> [x \in S |-> IF i \in T THEN Append(x, i) ELSE x]]
           Def(f) == [i \in 0..n |-> AscendingStep(T, f, i)]
           list == CHOOSE f : f = Def(f)
<1>1. Turns(F, n, S)
  BY DEF Turns
<1>2. PICK f : Runs(f, F, n, S, <<>>)
  <2>1. <<>> \in S
    OBVIOUS
  <2> HIDE DEF F, S
  <2> QED
    BY <1>1, <2>1, LoopRuns
<1>3. f = Def(f)
  <2> HIDE DEF S
  <2>1. ASSUME NEW i \in 0..n PROVE f[i] = AscendingStep(T, f, i)
    <3>1. CASE i = 0
      BY <1>2, <3>1 DEF Runs, AscendingStep
    <3>2. ASSUME NEW k \in 1..n PROVE f[k] = AscendingStep(T, f, k)
      <4>1. f[k - 1] \in S /\ f[k] = F[k][f[k - 1]]
        <5> HIDE DEF F
        <5>1. k - 1 \in 0..n
          OBVIOUS
        <5> QED
          BY <1>2, <5>1 DEF Runs
      <4> QED
        BY <4>1 DEF AscendingStep
    <3> QED
      BY <3>1, <3>2
  <2> QED
    BY <1>2, <2>1 DEF Runs
<1>4. list = Def(list)
  BY <1>3, Zenon
<1>5. Ascending(T, n) = list[n]
  BY DEF Ascending, AscendingStep
<1> HIDE DEF list
<1>6. list \in [0..n -> S] /\ \A i \in 0..n : list[i] = AscendingStep(T, list, i)
  <2>1. \A i \in 0..n : list[i] = AscendingStep(T, list, i)
    BY <1>4
  <2> DEFINE P == {i \in 0..n : list[i] \in S}
  <2>2. 0 \in P
    <3>1. list[0] \in S
      <4>1. list[0] = <<>>
        BY <2>1 DEF AscendingStep
      <4> QED
        BY <4>1
    <3> HIDE DEF S
    <3> QED
      BY <3>1
  <2>3. ASSUME NEW i \in 0..(n - 1), i \in P PROVE i + 1 \in P
    <3>1. list[i] \in S
      BY <2>3
    <3>2. list[i + 1] = IF i + 1 \in T THEN Append(list[i], i + 1) ELSE list[i]
      <4>1. i + 1 \in 0..n /\ i + 1 # 0 /\ (i + 1) - 1 = i
        OBVIOUS
      <4> HIDE DEF S, P
      <4> QED
        BY <2>1, <4>1 DEF AscendingStep
    <3>3. list[i + 1] \in S
      <4>1. i + 1 \in T => i + 1 \in T \cap 1..n
        OBVIOUS
      <4> QED
        BY <3>1, <3>2, <4>1, AppendProperties
    <3>4. i + 1 \in 0..n
      OBVIOUS
    <3> HIDE DEF S
    <3> QED
      BY <3>3, <3>4
  <2> HIDE DEF P
  <2>4. \A i \in 0..n : i \in P
    BY <2>2, <2>3, IntervalInduction, Zenon
  <2>5. \A i \in 0..n : list[i] \in S
    BY <2>4 DEF P
  <2>6. list \in [0..n -> S]
    BY <1>4, <2>5
  <2> QED
    BY <2>1, <2>6
<1> QED
  BY <1>5, <1>6

\* s lists the members of T up to k, in ascending order.
Enumerates(s, T, k) ==
    /\ s \in Seq(T \cap 1..k)
    /\ Len(s) <= k
    /\ \A i, j \in 1..Len(s) : i < j => s[i] < s[j]
    /\ \A x \in T \cap 1..k : \E i \in 1..Len(s) : s[i] = x

LEMMA EnumeratesNext ==
  ASSUME NEW T, NEW k \in Nat, NEW s, Enumerates(s, T, k)
  PROVE  Enumerates(IF k + 1 \in T THEN Append(s, k + 1) ELSE s, T, k + 1)
<1>0. s \in Seq(T \cap 1..k) /\ Len(s) \in Nat
  BY LenProperties DEF Enumerates
<1>1. s \in Seq(T \cap 1..(k + 1))
  <2>1. T \cap 1..k \subseteq T \cap 1..(k + 1)
    OBVIOUS
  <2> QED
    BY <1>0, <2>1, SeqMonotonic
<1>2. \A i \in 1..Len(s) : s[i] \in T /\ s[i] \in 1..k
  <2>1. \A i \in 1..Len(s) : s[i] \in T \cap 1..k
    BY <1>0, ElementOfSeq
  <2> QED
    BY <2>1
<1>3. CASE k + 1 \in T
  <2> DEFINE u == Append(s, k + 1)
  <2>1. /\ u \in Seq(T \cap 1..(k + 1))
        /\ Len(u) = Len(s) + 1
        /\ \A i \in 1..Len(s) : u[i] = s[i]
        /\ u[Len(s) + 1] = k + 1
    <3>1. k + 1 \in T \cap 1..(k + 1)
      BY <1>3
    <3> HIDE DEF u
    <3>2. /\ u \in Seq(T \cap 1..(k + 1))
          /\ Len(u) = Len(s) + 1
          /\ \A i \in 1..Len(s) + 1 : u[i] = IF i = Len(s) + 1 THEN k + 1 ELSE s[i]
      BY <1>1, <1>0, <3>1, AppendProperties DEF u
    <3> QED
      BY <1>0, <3>2
  <2> HIDE DEF u
  <2>2. ASSUME NEW i \in 1..Len(u), NEW j \in 1..Len(u), i < j
        PROVE  u[i] < u[j]
    <3>1. i \in 1..Len(s) /\ u[i] = s[i] /\ s[i] \in 1..k
      BY <1>0, <1>2, <2>1, <2>2
    <3>2. CASE j \in 1..Len(s)
      BY <2>1, <2>2, <3>1, <3>2 DEF Enumerates
    <3>3. CASE j = Len(s) + 1
      BY <2>1, <3>1, <3>3
    <3> QED
      BY <1>0, <2>1, <3>2, <3>3
  <2>3. ASSUME NEW x \in T \cap 1..(k + 1)
        PROVE  \E i \in 1..Len(u) : u[i] = x
    <3>1. CASE x = k + 1
      BY <1>0, <2>1, <3>1
    <3>2. CASE x \in 1..k
      <4>1. PICK i \in 1..Len(s) : s[i] = x
        BY <3>2 DEF Enumerates
      <4> QED
        BY <1>0, <2>1, <4>1
    <3> QED
      BY <3>1, <3>2
  <2>4. Len(u) <= k + 1
    BY <1>0, <2>1 DEF Enumerates
  <2>5. Enumerates(u, T, k + 1)
    BY <2>1, <2>2, <2>3, <2>4 DEF Enumerates
  <2> QED
    BY <1>3, <2>5 DEF u
<1>4. CASE k + 1 \notin T
  <2>1. T \cap 1..(k + 1) = T \cap 1..k
    BY <1>4
  <2>2. Len(s) <= k + 1
    BY <1>0 DEF Enumerates
  <2>3. Enumerates(s, T, k + 1)
    BY <2>1, <2>2 DEF Enumerates
  <2> QED
    BY <1>4, <2>3
<1> QED
  BY <1>3, <1>4

LEMMA AscendingLists ==
  ASSUME NEW T, NEW n \in Nat
  PROVE  Enumerates(Ascending(T, n), T, n)
<1>1. PICK f \in [0..n -> Seq(T \cap 1..n)] :
         /\ \A i \in 0..n : f[i] = AscendingStep(T, f, i)
         /\ Ascending(T, n) = f[n]
  BY AscendingRuns
<1> DEFINE P == {k \in 0..n : Enumerates(f[k], T, k)}
<1>2. 0 \in P
  <2>1. f[0] = <<>>
    BY <1>1 DEF AscendingStep
  <2>2. Enumerates(<<>>, T, 0)
    BY DEF Enumerates
  <2> QED
    BY <2>1, <2>2
<1>3. ASSUME NEW k \in 0..(n - 1), k \in P PROVE k + 1 \in P
  <2>1. f[k + 1] = IF k + 1 \in T THEN Append(f[k], k + 1) ELSE f[k]
    <3>1. k + 1 \in 0..n /\ k + 1 # 0 /\ (k + 1) - 1 = k
      OBVIOUS
    <3> QED
      BY <1>1, <3>1 DEF AscendingStep
  <2>2. Enumerates(f[k], T, k) /\ k \in Nat
    BY <1>3
  <2>3. Enumerates(f[k + 1], T, k + 1)
    BY <2>1, <2>2, EnumeratesNext
  <2> QED
    BY <2>3
<1> HIDE DEF P
<1>4. \A k \in 0..n : k \in P
  BY <1>2, <1>3, IntervalInduction, Zenon
<1>5. Enumerates(f[n], T, n)
  BY <1>4 DEF P
<1> QED
  BY <1>1, <1>5

\* What Items picks: the items at the places of T, in their order.
LEMMA ItemsPicked ==
  ASSUME NEW X, NEW list \in Seq(X), NEW T
  PROVE  LET places == Ascending(T, Len(list)) IN
         /\ Items(list, T) \in Seq(X)
         /\ Len(Items(list, T)) = Len(places)
         /\ Len(Items(list, T)) <= Len(list)
         /\ Enumerates(places, T, Len(list))
         /\ \A n \in 1..Len(places) :
               places[n] \in T \cap 1..Len(list) /\ Items(list, T)[n] = list[places[n]]
<1> DEFINE places == Ascending(T, Len(list))
<1>1. Len(list) \in Nat /\ list \in [1..Len(list) -> X]
  BY LenProperties
<1>2. Enumerates(places, T, Len(list))
  BY <1>1, AscendingLists
<1>3. Items(list, T) = [n \in DOMAIN places |-> list[places[n]]]
  BY DEF Items
<1> HIDE DEF places
<1>4. places \in Seq(T \cap 1..Len(list)) /\ Len(places) <= Len(list)
  BY <1>2 DEF Enumerates
<1>5. DOMAIN places = 1..Len(places) /\ Len(places) \in Nat
  BY <1>4, LenProperties
<1>6. \A n \in 1..Len(places) : places[n] \in T \cap 1..Len(list)
  BY <1>4, ElementOfSeq
<1>7. Items(list, T) \in [1..Len(places) -> X]
  BY <1>1, <1>3, <1>5, <1>6
<1>8. Items(list, T) \in Seq(X)
  BY <1>5, <1>7, SeqDef
<1>9. Len(Items(list, T)) = Len(places)
  BY <1>5, <1>7
<1> QED
  BY <1>2, <1>3, <1>4, <1>5, <1>6, <1>8, <1>9 DEF places
\* The members of a list.
LEMMA ListMembers ==
  ASSUME NEW X, NEW list \in Seq(X)
  PROVE  /\ Len(list) \in Nat
         /\ DOMAIN list = 1..Len(list)
         /\ \A i \in 1..Len(list) : list[i] \in X
         /\ ToSet(list) \subseteq X
         /\ \A x : x \in ToSet(list) <=> \E i \in 1..Len(list) : list[i] = x
<1>1. Len(list) \in Nat /\ DOMAIN list = 1..Len(list)
  BY LenProperties
<1>2. \A i \in 1..Len(list) : list[i] \in X
  BY ElementOfSeq
<1>3. \A x : x \in ToSet(list) <=> \E i \in 1..Len(list) : list[i] = x
  BY <1>1 DEF ToSet
<1> QED
  BY <1>1, <1>2, <1>3

\* The first of the items with the key of item i.
LEMMA FirstPlaceOf ==
  ASSUME NEW X, NEW list \in Seq(X), NEW i \in 1..Len(list)
  PROVE  \E j \in FirstPlaces(list) \cap 1..Len(list) : list[j].key = list[i].key
<1> DEFINE same == {j \in 1..Len(list) : list[j].key = list[i].key}
<1>1. Len(list) \in Nat /\ DOMAIN list = 1..Len(list)
  BY ListMembers
<1>2. same \subseteq Nat /\ i \in same
  BY <1>1
<1>3. PICK j \in same : \A m \in same : j <= m
  <2> HIDE DEF same
  <2> QED
    BY <1>2, NatMinimum
<1>4. \A m \in 1..(j - 1) : list[m].key # list[j].key
  <2> SUFFICES ASSUME NEW m \in 1..(j - 1), list[m].key = list[j].key PROVE FALSE
    OBVIOUS
  <2>1. m \in same
    BY <1>1, <1>3
  <2> QED
    BY <1>1, <1>3, <2>1
<1> QED
  BY <1>1, <1>3, <1>4 DEF FirstPlaces

\* FirstOfKeys keeps one item of every key, the first.
LEMMA FirstOfKeysKeeps ==
  ASSUME NEW X, NEW list \in Seq(X)
  PROVE  LET firsts == FirstOfKeys(list) IN
         /\ firsts \in Seq(X)
         /\ UniqueKeys(firsts)
         /\ \A n \in 1..Len(firsts) : \E i \in 1..Len(list) : firsts[n] = list[i]
         /\ \A i \in 1..Len(list) : \E n \in 1..Len(firsts) : firsts[n].key = list[i].key
<1> DEFINE firsts == FirstOfKeys(list)
           places == Ascending(FirstPlaces(list), Len(list))
<1>1. /\ Len(list) \in Nat
      /\ firsts \in Seq(X)
      /\ Len(firsts) = Len(places)
      /\ Enumerates(places, FirstPlaces(list), Len(list))
      /\ \A n \in 1..Len(places) :
            places[n] \in FirstPlaces(list) \cap 1..Len(list) /\ firsts[n] = list[places[n]]
  BY ItemsPicked, ListMembers DEF FirstOfKeys
<1>2. Len(firsts) \in Nat
  BY <1>1, ListMembers
<1> HIDE DEF firsts, places
<1>3. ASSUME NEW m \in 1..Len(firsts), NEW n \in 1..Len(firsts),
             firsts[m].key = firsts[n].key, m < n
      PROVE  FALSE
  <2>1. /\ places[m] < places[n]
        /\ places[m] \in 1..Len(list)
        /\ places[n] \in FirstPlaces(list) \cap 1..Len(list)
        /\ list[places[m]].key = list[places[n]].key
    BY <1>1, <1>3 DEF Enumerates
  <2>2. places[m] \in 1..(places[n] - 1)
    BY <1>1, <2>1
  <2> QED
    BY <2>1, <2>2 DEF FirstPlaces
<1>4. UniqueKeys(firsts)
  <2> SUFFICES ASSUME NEW m \in 1..Len(firsts), NEW n \in 1..Len(firsts),
                      firsts[m].key = firsts[n].key
               PROVE  m = n
    BY DEF UniqueKeys
  <2>1. ~(m < n) /\ ~(n < m)
    BY <1>3
  <2> QED
    BY <1>2, <2>1
<1>5. ASSUME NEW i \in 1..Len(list)
      PROVE  \E n \in 1..Len(firsts) : firsts[n].key = list[i].key
  <2>1. PICK j \in FirstPlaces(list) \cap 1..Len(list) : list[j].key = list[i].key
    BY FirstPlaceOf
  <2>2. PICK n \in 1..Len(places) : places[n] = j
    BY <1>1, <2>1 DEF Enumerates
  <2> QED
    BY <1>1, <2>1, <2>2
<1> QED
  BY <1>1, <1>4, <1>5 DEF firsts

\* LastOfKey is the last item of a key that the list has.
LEMMA LastOfKeyIs ==
  ASSUME NEW X, NEW list \in Seq(X), NEW i \in 1..Len(list), NEW key, list[i].key = key
  PROVE  \E j \in 1..Len(list) : LastOfKey(list, key) = list[j] /\ list[j].key = key
<1> DEFINE after == {Len(list) - j : j \in {m \in 1..Len(list) : list[m].key = key}}
<1>1. Len(list) \in Nat /\ DOMAIN list = 1..Len(list)
  BY ListMembers
<1>2. after \subseteq Nat /\ Len(list) - i \in after
  BY <1>1
<1>3. PICK n \in after : \A m \in after : n <= m
  <2> HIDE DEF after
  <2> QED
    BY <1>2, NatMinimum
<1>4. PICK j \in 1..Len(list) : list[j].key = key /\ n = Len(list) - j
  BY <1>3
<1>5. \A m \in (j + 1)..Len(list) : list[m].key # key
  <2> SUFFICES ASSUME NEW m \in (j + 1)..Len(list), list[m].key = key PROVE FALSE
    OBVIOUS
  <2>1. Len(list) - m \in after
    BY <1>1
  <2> HIDE DEF after
  <2>2. n <= Len(list) - m
    BY <1>3, <2>1
  <2> QED
    BY <1>1, <1>4, <2>2
<1>6. \E m \in DOMAIN list : list[m].key = key /\ \A k \in (m + 1)..Len(list) : list[k].key # key
  BY <1>1, <1>4, <1>5
<1> QED
  BY <1>1, <1>6 DEF LastOfKey

\* DictOf has one item for every key, an item of the list.
LEMMA DictOfKeeps ==
  ASSUME NEW X, NEW list \in Seq(X)
  PROVE  LET dict == DictOf(list) IN
         /\ dict \in Seq(X)
         /\ UniqueKeys(dict)
         /\ \A n \in 1..Len(dict) : \E i \in 1..Len(list) : dict[n] = list[i]
         /\ \A i \in 1..Len(list) : \E n \in 1..Len(dict) : dict[n].key = list[i].key
<1> DEFINE dict == DictOf(list)
           firsts == FirstOfKeys(list)
<1>1. /\ firsts \in Seq(X)
      /\ UniqueKeys(firsts)
      /\ \A n \in 1..Len(firsts) : \E i \in 1..Len(list) : firsts[n] = list[i]
      /\ \A i \in 1..Len(list) : \E n \in 1..Len(firsts) : firsts[n].key = list[i].key
  BY FirstOfKeysKeeps
<1>2. dict = [n \in DOMAIN firsts |-> LastOfKey(list, firsts[n].key)]
  BY DEF DictOf
<1> HIDE DEF dict, firsts
<1>3. Len(firsts) \in Nat /\ DOMAIN firsts = 1..Len(firsts)
  BY <1>1, ListMembers
<1>4. ASSUME NEW n \in 1..Len(firsts)
      PROVE  \E j \in 1..Len(list) : dict[n] = list[j] /\ list[j].key = firsts[n].key
  <2>1. PICK i \in 1..Len(list) : firsts[n] = list[i]
    BY <1>1
  <2>2. PICK j \in 1..Len(list) :
           LastOfKey(list, firsts[n].key) = list[j] /\ list[j].key = firsts[n].key
    BY <2>1, LastOfKeyIs
  <2> QED
    BY <1>2, <1>3, <2>2
<1>5. \A j \in 1..Len(list) : list[j] \in X
  BY ListMembers
<1>6. dict \in [1..Len(firsts) -> X]
  BY <1>2, <1>3, <1>4, <1>5
<1>7. dict \in Seq(X) /\ Len(dict) = Len(firsts)
  BY <1>3, <1>6, SeqDef
<1>8. UniqueKeys(dict)
  <2> SUFFICES ASSUME NEW m \in 1..Len(firsts), NEW n \in 1..Len(firsts),
                      dict[m].key = dict[n].key
               PROVE  m = n
    BY <1>7 DEF UniqueKeys
  <2>1. firsts[m].key = firsts[n].key
    BY <1>4
  <2> QED
    BY <1>1, <2>1 DEF UniqueKeys
<1>9. \A i \in 1..Len(list) : \E n \in 1..Len(dict) : dict[n].key = list[i].key
  <2> SUFFICES ASSUME NEW i \in 1..Len(list)
               PROVE  \E n \in 1..Len(dict) : dict[n].key = list[i].key
    OBVIOUS
  <2>1. PICK n \in 1..Len(firsts) : firsts[n].key = list[i].key
    BY <1>1
  <2> QED
    BY <1>4, <1>7, <2>1
<1> QED
  BY <1>4, <1>7, <1>8, <1>9 DEF dict
-----------------------------------------------------------------------------
(***************************************************************************)
(* The resolution of the candidates of a draft.                            *)
(***************************************************************************)
Candidate == [key : Key, label : STRING, type : STRING]

FoundType == [resolved : Seq(Definition), proposals : Seq(Definition)]

LEMMA ProposalType ==
  ASSUME NEW c \in Candidate
  PROVE  Proposal(c) \in Definition /\ Proposal(c).status = "pending"
  BY DEF Candidate, Proposal, Definition

\* The candidate c adds its definition, a registered or a proposed one.
Adds(next, S, found, c) ==
    /\ next = [resolved |-> next.resolved, proposals |-> next.proposals]
    /\ \E d \in Definition :
          /\ next.resolved = Append(found.resolved, d)
          /\ \/ d \in S \cup ToSet(found.proposals) /\ next.proposals = found.proposals
             \/ d = Proposal(c) /\ next.proposals = Append(found.proposals, d)

LEMMA CandidateResolved ==
  ASSUME NEW S, S \subseteq Definition, NEW found \in FoundType, NEW c \in Candidate
  PROVE  Adds(ResolveCandidate(S, found, c), S, found, c)
<1> DEFINE exact    == {d \in S : d.key = c.key}
           proposed == Matching(ToSet(found.proposals), c)
           matches  == Matching(S, c)
           next     == ResolveCandidate(S, found, c)
           fresh    == [Resolve(found, Proposal(c)) EXCEPT !.proposals = Append(@, Proposal(c))]
<1>0. found = [resolved |-> found.resolved, proposals |-> found.proposals]
  BY DEF FoundType
<1>1. /\ exact \subseteq S
      /\ proposed \subseteq ToSet(found.proposals)
      /\ matches \subseteq S
      /\ S \cup ToSet(found.proposals) \subseteq Definition
  <2>1. found.proposals \in Seq(Definition)
    BY DEF FoundType
  <2>2. ToSet(found.proposals) \subseteq Definition
    BY <2>1, ListMembers
  <2> QED
    BY <2>2 DEF Matching
<1>2. next = CASE exact # {}                    -> Resolve(found, CHOOSE d \in exact : TRUE)
               [] exact = {} /\ proposed # {} -> Resolve(found, CHOOSE d \in proposed : TRUE)
               [] exact = {} /\ proposed = {} /\ Cardinality(matches) = 1
                                              -> Resolve(found, CHOOSE d \in matches : TRUE)
               [] OTHER -> fresh
  BY DEF ResolveCandidate
<1> HIDE DEF exact, proposed, matches, next, fresh
<1>3. ASSUME Cardinality(matches) = 1 PROVE matches # {}
  BY <1>3, FS_EmptySet
<1>4. (\E d \in S \cup ToSet(found.proposals) : next = Resolve(found, d)) \/ next = fresh
  <2>1. CASE exact # {}
    BY <1>1, <1>2, <2>1
  <2>2. CASE exact = {} /\ proposed # {}
    BY <1>1, <1>2, <2>2
  <2>3. CASE exact = {} /\ proposed = {} /\ Cardinality(matches) = 1
    <3>1. (CHOOSE d \in matches : TRUE) \in matches
      BY <1>3, <2>3
    <3> QED
      BY <1>1, <1>2, <2>3, <3>1
  <2>4. CASE exact = {} /\ proposed = {} /\ Cardinality(matches) # 1
    BY <1>2, <2>4
  <2> QED
    BY <2>1, <2>2, <2>3, <2>4
<1>5. CASE \E d \in S \cup ToSet(found.proposals) : next = Resolve(found, d)
  <2>1. PICK d \in S \cup ToSet(found.proposals) : next = Resolve(found, d)
    BY <1>5
  <2>2. /\ next.resolved = Append(found.resolved, d)
        /\ next.proposals = found.proposals
        /\ next = [resolved |-> next.resolved, proposals |-> next.proposals]
    BY <1>0, <2>1 DEF Resolve
  <2> QED
    BY <1>1, <2>1, <2>2 DEF next, Adds
<1>6. CASE next = fresh
  <2>1. /\ next.resolved = Append(found.resolved, Proposal(c))
        /\ next.proposals = Append(found.proposals, Proposal(c))
        /\ next = [resolved |-> next.resolved, proposals |-> next.proposals]
    BY <1>0, <1>6 DEF Resolve, fresh
  <2> QED
    BY <2>1, ProposalType DEF next, Adds
<1> QED
  BY <1>4, <1>5, <1>6

LEMMA ResolvedType ==
  ASSUME NEW S, S \subseteq Definition, NEW found \in FoundType, NEW c \in Candidate
  PROVE  ResolveCandidate(S, found, c) \in FoundType
<1> DEFINE next == ResolveCandidate(S, found, c)
<1>1. /\ next = [resolved |-> next.resolved, proposals |-> next.proposals]
      /\ \E d \in Definition :
            /\ next.resolved = Append(found.resolved, d)
            /\ \/ next.proposals = found.proposals
               \/ next.proposals = Append(found.proposals, d)
  BY CandidateResolved DEF Adds
<1> HIDE DEF next
<1>2. found.resolved \in Seq(Definition) /\ found.proposals \in Seq(Definition)
  BY DEF FoundType
<1>3. next.resolved \in Seq(Definition) /\ next.proposals \in Seq(Definition)
  <2>1. \A list \in Seq(Definition), d \in Definition : Append(list, d) \in Seq(Definition)
    BY AppendProperties
  <2> QED
    BY <1>1, <1>2, <2>1
<1> QED
  BY <1>1, <1>3 DEF FoundType, next

\* The loop over the candidates, turn by turn.
LEMMA ResolveRuns ==
  ASSUME NEW S, S \subseteq Definition, NEW cs \in Seq(Candidate)
  PROVE  \E f \in [0..Len(cs) -> FoundType] :
            /\ f[0] = Nothing
            /\ \A n \in 1..Len(cs) : f[n] = ResolveCandidate(S, f[n - 1], cs[n])
            /\ ResolveFields(S, cs) = f[Len(cs)]
<1> DEFINE N == Len(cs)
           F == [n \in 1..N |-> [x \in FoundType |-> ResolveCandidate(S, x, cs[n])]]
           Def(f) == [n \in 0..N |-> IF n = 0 THEN Nothing
                                     ELSE ResolveCandidate(S, f[n - 1], cs[n])]
           found == CHOOSE f : f = Def(f)
<1>0. N \in Nat /\ \A n \in 1..N : cs[n] \in Candidate
  BY ListMembers
<1>1. Nothing \in FoundType
  BY DEF Nothing, FoundType
<1>2. Turns(F, N, FoundType)
  BY <1>0, ResolvedType DEF Turns
<1>3. PICK f : Runs(f, F, N, FoundType, Nothing)
  <2> HIDE DEF F, N
  <2> QED
    BY <1>0, <1>1, <1>2, LoopRuns
<1>4. f = Def(f)
  <2>1. ASSUME NEW n \in 1..N PROVE f[n] = ResolveCandidate(S, f[n - 1], cs[n])
    <3>1. f[n - 1] \in FoundType /\ f[n] = F[n][f[n - 1]]
      <4> HIDE DEF F, N
      <4>1. n - 1 \in 0..N
        BY <1>0
      <4> QED
        BY <1>3, <4>1 DEF Runs
    <3> QED
      BY <3>1
  <2> HIDE DEF F, N
  <2>2. f \in [0..N -> FoundType] /\ f[0] = Nothing
    BY <1>3 DEF Runs
  <2>3. \A n \in 0..N : f[n] = IF n = 0 THEN Nothing ELSE ResolveCandidate(S, f[n - 1], cs[n])
    BY <1>0, <2>1, <2>2
  <2> QED
    BY <2>2, <2>3
<1>5. found = Def(found)
  BY <1>4, Zenon
<1>6. ResolveFields(S, cs) = found[N]
  BY DEF ResolveFields
<1> HIDE DEF found, N
<1>7. /\ found[0] = Nothing
      /\ \A n \in 1..N : found[n] = ResolveCandidate(S, found[n - 1], cs[n])
      /\ DOMAIN found = 0..N
  <2>1. found[0] = Nothing
    BY <1>0, <1>5
  <2>2. ASSUME NEW n \in 1..N PROVE found[n] = ResolveCandidate(S, found[n - 1], cs[n])
    <3>1. n \in 0..N /\ n # 0
      BY <1>0
    <3> QED
      BY <1>5, <3>1
  <2> QED
    BY <1>5, <2>1, <2>2
<1>8. found \in [0..N -> FoundType]
  <2> DEFINE P == {n \in 0..N : found[n] \in FoundType}
  <2>1. 0 \in P
    BY <1>0, <1>1, <1>7
  <2>2. ASSUME NEW n \in 0..(N - 1), n \in P PROVE n + 1 \in P
    <3>1. found[n] \in FoundType
      BY <2>2
    <3>2. n + 1 \in 1..N /\ n + 1 \in 0..N /\ (n + 1) - 1 = n
      BY <1>0
    <3>3. found[n + 1] = ResolveCandidate(S, found[n], cs[n + 1])
      BY <1>7, <3>2
    <3>4. found[n + 1] \in FoundType
      BY <1>0, <3>1, <3>2, <3>3, ResolvedType
    <3> QED
      BY <3>2, <3>4
  <2> HIDE DEF P
  <2>3. \A n \in 0..N : n \in P
    BY <1>0, <2>1, <2>2, IntervalInduction, Zenon
  <2>4. \A n \in 0..N : found[n] \in FoundType
    BY <2>3 DEF P
  <2>5. found = [n \in 0..N |-> found[n]]
    BY <1>5
  <2> QED
    BY <2>4, <2>5
<1> QED
  BY <1>6, <1>7, <1>8 DEF N

LEMMA AppendMembers ==
  ASSUME NEW X, NEW list \in Seq(X), NEW x \in X
  PROVE  /\ Append(list, x) \in Seq(X)
         /\ Len(Append(list, x)) = Len(list) + 1
         /\ ToSet(Append(list, x)) = ToSet(list) \cup {x}
<1>1. /\ Append(list, x) \in Seq(X)
      /\ Len(Append(list, x)) = Len(list) + 1
      /\ \A i \in 1..Len(list) + 1 : Append(list, x)[i] = IF i = Len(list) + 1 THEN x ELSE list[i]
  BY AppendProperties
<1>2. Len(list) \in Nat
  BY ListMembers
<1> DEFINE more == Append(list, x)
<1>3. \A y : y \in ToSet(more) <=> \E i \in 1..Len(more) : more[i] = y
  BY <1>1, ListMembers
<1>4. \A y : y \in ToSet(list) <=> \E i \in 1..Len(list) : list[i] = y
  BY ListMembers
<1> HIDE DEF more
<1>5. /\ Len(more) = Len(list) + 1
      /\ more[Len(list) + 1] = x
      /\ \A i \in 1..Len(list) : more[i] = list[i]
  BY <1>1, <1>2 DEF more
<1>6. ASSUME NEW y PROVE y \in ToSet(more) <=> y \in ToSet(list) \cup {x}
  <2>1. ASSUME NEW i \in 1..Len(more), more[i] = y PROVE y \in ToSet(list) \cup {x}
    BY <1>2, <1>4, <1>5, <2>1
  <2>2. ASSUME NEW i \in 1..Len(list), list[i] = y PROVE y \in ToSet(more)
    BY <1>2, <1>3, <1>5, <2>2
  <2>3. x \in ToSet(more)
    BY <1>2, <1>3, <1>5
  <2> QED
    BY <1>3, <1>4, <2>1, <2>2, <2>3
<1> QED
  BY <1>1, <1>6 DEF more

\* After k candidates: every definition is registered or proposed, every
\* proposal is that of a candidate and the definition of one.
Found(found, S, cs, k) ==
    /\ found \in FoundType
    /\ Len(found.resolved) = k
    /\ ToSet(found.resolved) \subseteq S \cup ToSet(found.proposals)
    /\ ToSet(found.proposals) \subseteq ToSet(found.resolved)
    /\ \A d \in ToSet(found.proposals) : \E i \in 1..Len(cs) : d = Proposal(cs[i])

LEMMA FoundNext ==
  ASSUME NEW S, S \subseteq Definition, NEW cs \in Seq(Candidate),
         NEW k \in 0..(Len(cs) - 1), NEW found, Found(found, S, cs, k)
  PROVE  Found(ResolveCandidate(S, found, cs[k + 1]), S, cs, k + 1)
<1> DEFINE next == ResolveCandidate(S, found, cs[k + 1])
<1>0. k + 1 \in 1..Len(cs) /\ cs[k + 1] \in Candidate
  BY ListMembers
<1>1. found \in FoundType /\ found.resolved \in Seq(Definition) /\ found.proposals \in Seq(Definition)
  BY DEF Found, FoundType
<1>2. next \in FoundType
  BY <1>0, <1>1, ResolvedType
<1>3. Adds(next, S, found, cs[k + 1])
  BY <1>0, <1>1, CandidateResolved
<1> HIDE DEF next
<1>4. PICK d \in Definition :
         /\ next.resolved = Append(found.resolved, d)
         /\ \/ d \in S \cup ToSet(found.proposals) /\ next.proposals = found.proposals
            \/ d = Proposal(cs[k + 1]) /\ next.proposals = Append(found.proposals, d)
  BY <1>3 DEF Adds
<1>5. /\ Len(next.resolved) = Len(found.resolved) + 1
      /\ ToSet(next.resolved) = ToSet(found.resolved) \cup {d}
  BY <1>1, <1>4, AppendMembers
<1>6. CASE d \in S \cup ToSet(found.proposals) /\ next.proposals = found.proposals
  BY <1>2, <1>5, <1>6 DEF Found, next
<1>7. CASE d = Proposal(cs[k + 1]) /\ next.proposals = Append(found.proposals, d)
  <2>1. ToSet(next.proposals) = ToSet(found.proposals) \cup {d}
    BY <1>1, <1>7, AppendMembers
  <2> QED
    BY <1>0, <1>2, <1>5, <1>7, <2>1 DEF Found, next
<1> QED
  BY <1>4, <1>6, <1>7

LEMMA FieldsFound ==
  ASSUME NEW S, S \subseteq Definition, NEW cs \in Seq(Candidate)
  PROVE  Found(ResolveFields(S, cs), S, cs, Len(cs))
<1>1. PICK f \in [0..Len(cs) -> FoundType] :
         /\ f[0] = Nothing
         /\ \A n \in 1..Len(cs) : f[n] = ResolveCandidate(S, f[n - 1], cs[n])
         /\ ResolveFields(S, cs) = f[Len(cs)]
  BY ResolveRuns
<1>2. Len(cs) \in Nat
  BY ListMembers
<1> DEFINE P == {k \in 0..Len(cs) : Found(f[k], S, cs, k)}
<1>3. 0 \in P
  <2>1. Found(Nothing, S, cs, 0)
    <3>1. Nothing.resolved = <<>> /\ Nothing.proposals = <<>> /\ Nothing \in FoundType
      BY DEF Nothing, FoundType
    <3>2. ToSet(<<>>) = {}
      BY DEF ToSet
    <3> QED
      BY <3>1, <3>2 DEF Found
  <2> QED
    BY <1>1, <1>2, <2>1
<1>4. ASSUME NEW k \in 0..(Len(cs) - 1), k \in P PROVE k + 1 \in P
  <2>1. k + 1 \in 1..Len(cs) /\ k + 1 \in 0..Len(cs) /\ (k + 1) - 1 = k
    BY <1>2
  <2>2. f[k + 1] = ResolveCandidate(S, f[k], cs[k + 1])
    BY <1>1, <2>1
  <2>3. Found(f[k], S, cs, k)
    BY <1>4
  <2>4. Found(f[k + 1], S, cs, k + 1)
    BY <2>2, <2>3, FoundNext
  <2> QED
    BY <2>1, <2>4
<1> HIDE DEF P
<1>5. \A k \in 0..Len(cs) : k \in P
  BY <1>2, <1>3, <1>4, IntervalInduction, Zenon
<1>6. Found(f[Len(cs)], S, cs, Len(cs))
  BY <1>2, <1>5 DEF P
<1> QED
  BY <1>1, <1>6

\* A registry that has one definition for a candidate, under the key of the
\* candidate or none under that key, finds it without a proposal.
Recognises(S, c) ==
    \E d \in S : Matching(S, c) = {d} /\ \A e \in S : e.key = c.key => e = d

LEMMA CandidateRecognised ==
  ASSUME NEW S, NEW found, found.proposals = <<>>, NEW c, NEW d \in S,
         Matching(S, c) = {d}, \A e \in S : e.key = c.key => e = d
  PROVE  ResolveCandidate(S, found, c) = Resolve(found, d)
<1> DEFINE exact    == {e \in S : e.key = c.key}
           proposed == Matching(ToSet(found.proposals), c)
           matches  == Matching(S, c)
           next     == ResolveCandidate(S, found, c)
           fresh    == [Resolve(found, Proposal(c)) EXCEPT !.proposals = Append(@, Proposal(c))]
<1>1. next = CASE exact # {}                    -> Resolve(found, CHOOSE e \in exact : TRUE)
               [] exact = {} /\ proposed # {} -> Resolve(found, CHOOSE e \in proposed : TRUE)
               [] exact = {} /\ proposed = {} /\ Cardinality(matches) = 1
                                              -> Resolve(found, CHOOSE e \in matches : TRUE)
               [] OTHER -> fresh
  BY DEF ResolveCandidate
<1>2. exact \subseteq {d}
  OBVIOUS
<1>3. proposed = {}
  <2>1. ToSet(<<>>) = {}
    BY DEF ToSet
  <2> QED
    BY <2>1 DEF Matching
<1>4. matches = {d} /\ Cardinality(matches) = 1
  BY FS_Singleton
<1> HIDE DEF exact, proposed, matches, next, fresh
<1>5. CASE exact # {}
  <2>1. (CHOOSE e \in exact : TRUE) = d
    BY <1>2, <1>5
  <2> QED
    BY <1>1, <1>5, <2>1 DEF next
<1>6. CASE exact = {}
  <2>1. (CHOOSE e \in matches : TRUE) = d
    BY <1>4
  <2> QED
    BY <1>1, <1>3, <1>4, <1>6, <2>1 DEF next
<1> QED
  BY <1>5, <1>6

\* After k candidates: each has the one definition it matches.
Quiet(found, S, cs, k) ==
    /\ found.proposals = <<>>
    /\ Len(found.resolved) = k
    /\ \A i \in 1..k : Matching(S, cs[i]) = {found.resolved[i]}

LEMMA FieldsRecognised ==
  ASSUME NEW S, S \subseteq Definition, NEW cs \in Seq(Candidate),
         \A i \in 1..Len(cs) : Recognises(S, cs[i])
  PROVE  /\ ResolveFields(S, cs).proposals = <<>>
         /\ \A i \in 1..Len(cs) : Matching(S, cs[i]) = {ResolveFields(S, cs).resolved[i]}
<1>1. PICK f \in [0..Len(cs) -> FoundType] :
         /\ f[0] = Nothing
         /\ \A n \in 1..Len(cs) : f[n] = ResolveCandidate(S, f[n - 1], cs[n])
         /\ ResolveFields(S, cs) = f[Len(cs)]
  BY ResolveRuns
<1>2. Len(cs) \in Nat
  BY ListMembers
<1> DEFINE P == {k \in 0..Len(cs) : Quiet(f[k], S, cs, k)}
<1>3. 0 \in P
  <2>1. f[0].resolved = <<>> /\ f[0].proposals = <<>>
    BY <1>1 DEF Nothing
  <2>2. Quiet(f[0], S, cs, 0)
    BY <2>1 DEF Quiet
  <2> QED
    BY <1>2, <2>2
<1>4. ASSUME NEW k \in 0..(Len(cs) - 1), k \in P PROVE k + 1 \in P
  <2>1. k + 1 \in 1..Len(cs) /\ k + 1 \in 0..Len(cs) /\ (k + 1) - 1 = k /\ k \in Nat
    BY <1>2
  <2>2. f[k + 1] = ResolveCandidate(S, f[k], cs[k + 1])
    BY <1>1, <2>1
  <2>3. Quiet(f[k], S, cs, k)
    BY <1>4
  <2>4. PICK d \in S : Matching(S, cs[k + 1]) = {d} /\ \A e \in S : e.key = cs[k + 1].key => e = d
    BY <2>1 DEF Recognises
  <2>5. f[k + 1] = Resolve(f[k], d)
    BY <2>2, <2>3, <2>4, CandidateRecognised DEF Quiet
  <2>6. f[k] \in FoundType
    BY <1>1, <2>1
  <2>7. f[k + 1].proposals = <<>> /\ f[k + 1].resolved = Append(f[k].resolved, d)
    BY <2>3, <2>5, <2>6 DEF Resolve, FoundType, Quiet
  <2>8. /\ Len(f[k + 1].resolved) = k + 1
        /\ \A i \in 1..(k + 1) : f[k + 1].resolved[i] = IF i = k + 1 THEN d ELSE f[k].resolved[i]
    <3>1. f[k].resolved \in Seq(Definition) /\ d \in Definition
      BY <2>6 DEF FoundType
    <3> QED
      BY <2>3, <2>7, <3>1, AppendProperties DEF Quiet
  <2>9. ASSUME NEW i \in 1..(k + 1) PROVE Matching(S, cs[i]) = {f[k + 1].resolved[i]}
    <3> HIDE DEF P
    <3>1. CASE i = k + 1
      <4>1. f[k + 1].resolved[k + 1] = d
        <5>1. k + 1 \in 1..(k + 1)
          BY <2>1
        <5> QED
          BY <2>8, <5>1, Zenon
      <4> QED
        BY <2>4, <3>1, <4>1
    <3>2. CASE i \in 1..k
      <4>1. Matching(S, cs[i]) = {f[k].resolved[i]}
        BY <2>3, <3>2 DEF Quiet
      <4>2. f[k + 1].resolved[i] = f[k].resolved[i]
        BY <2>1, <2>8, <3>2
      <4> QED
        BY <4>1, <4>2
    <3>3. i = k + 1 \/ i \in 1..k
      BY <2>1
    <3> QED
      BY <3>1, <3>2, <3>3
  <2>10. Quiet(f[k + 1], S, cs, k + 1)
    BY <2>7, <2>8, <2>9 DEF Quiet
  <2> QED
    BY <2>1, <2>10
<1> HIDE DEF P
<1>5. \A k \in 0..Len(cs) : k \in P
  BY <1>2, <1>3, <1>4, IntervalInduction, Zenon
<1>6. Quiet(f[Len(cs)], S, cs, Len(cs))
  BY <1>2, <1>5 DEF P
<1> QED
  BY <1>1, <1>6 DEF Quiet

-----------------------------------------------------------------------------

LEMMA BetweenExpands ==
    ASSUME NEW before, before.min \in Int, before.max \in Int,
           NEW after, after.min \in Int, after.max \in Int,
           NEW n \in Int
    PROVE  /\ BetweenChange(before, after) = "expanded" /\ before.min <= n /\ n <= before.max
                 => after.min <= n /\ n <= after.max
           /\ BetweenChange(before, after) = "narrowed" /\ after.min <= n /\ n <= after.max
                 => before.min <= n /\ n <= before.max
  BY DEF BetweenChange

LEMMA ListExpands ==
    ASSUME NEW before, NEW after
    PROVE  /\ InChange(before, after) = "expanded" => ToSet(before.values) \subseteq ToSet(after.values)
           /\ InChange(before, after) = "narrowed" => ToSet(after.values) \subseteq ToSet(before.values)
<1> DEFINE old == ToSet(before.values)
           new == ToSet(after.values)
<1>1. InChange(before, after) = CASE old \subseteq new /\ old # new -> "expanded"
                                  [] new \subseteq old /\ old # new -> "narrowed"
                                  [] OTHER                          -> "changed"
  BY DEF InChange
<1> HIDE DEF old, new
<1>2. /\ InChange(before, after) = "expanded" => old \subseteq new
      /\ InChange(before, after) = "narrowed" => new \subseteq old
  BY <1>1
<1> QED
  BY <1>2 DEF old, new

\* _single_rule_change calls a change of a condition expanded only if whoever
\* met it meets it now, and narrowed only if whoever meets it now met it
\* before: the core of ChangesTellTheTruth, for all bounds, lists and answers.
THEOREM SingleChangeIsTrue ==
    ASSUME NEW before, HasOperands(before),
           NEW after, HasOperands(after),
           NEW answers
    PROVE  /\ SingleRuleChange(before, after) = "expanded"
                 => Accepts(before, answers) \subseteq Accepts(after, answers)
           /\ SingleRuleChange(before, after) = "narrowed"
                 => Accepts(after, answers) \subseteq Accepts(before, answers)
<1>1. CASE before.operator = "between" /\ after.operator = "between"
  <2>1. SingleRuleChange(before, after) = BetweenChange(before, after)
    BY <1>1 DEF SingleRuleChange
  <2>2. /\ before.min \in Int /\ before.max \in Int
        /\ after.min \in Int /\ after.max \in Int
    BY <1>1 DEF HasOperands
  <2>3. /\ Accepts(before, answers) = {n \in answers \cap Int : before.min <= n /\ n <= before.max}
        /\ Accepts(after, answers) = {n \in answers \cap Int : after.min <= n /\ n <= after.max}
    BY <1>1 DEF Accepts
  <2> QED
    BY <2>1, <2>2, <2>3, BetweenExpands
<1>2. CASE before.operator = "in" /\ after.operator = "in"
  <2>1. SingleRuleChange(before, after) = InChange(before, after)
    BY <1>2 DEF SingleRuleChange
  <2>2. /\ Accepts(before, answers) = answers \cap ToSet(before.values)
        /\ Accepts(after, answers) = answers \cap ToSet(after.values)
    BY <1>2 DEF Accepts
  <2> QED
    BY <2>1, <2>2, ListExpands
<1>3. CASE ~(before.operator = "between" /\ after.operator = "between")
           /\ ~(before.operator = "in" /\ after.operator = "in")
  BY <1>3 DEF SingleRuleChange
<1> QED
  BY <1>1, <1>2, <1>3
-----------------------------------------------------------------------------
(***************************************************************************)
(* The rules and the changes.                                              *)
(***************************************************************************)
LEMMA DraftConditions ==
  ASSUME NEW draft \in Draft
  PROVE  /\ draft.conditions \in Seq(ConditionType)
         /\ draft.actions \in Seq(ActionType)
         /\ draft.terms \in STRING
         /\ Len(draft.conditions) \in Nat
         /\ DOMAIN draft.conditions = 1..Len(draft.conditions)
         /\ Conditions(draft) \in Seq(Candidate)
         /\ Len(Conditions(draft)) = Len(draft.conditions)
         /\ \A i \in 1..Len(draft.conditions) :
               /\ Conditions(draft)[i].key = draft.conditions[i].field
               /\ Conditions(draft)[i].label = draft.conditions[i].label
               /\ Conditions(draft)[i].type = draft.conditions[i].type
<1>1. draft \in DraftType
  BY BuilderAssumption
<1>2. /\ draft.conditions \in Seq(ConditionType)
      /\ draft.actions \in Seq(ActionType)
      /\ draft.terms \in STRING
  BY <1>1 DEF DraftType
<1>3. /\ Len(draft.conditions) \in Nat
      /\ DOMAIN draft.conditions = 1..Len(draft.conditions)
      /\ \A i \in 1..Len(draft.conditions) : draft.conditions[i] \in ConditionType
  BY <1>2, ListMembers
<1>4. \A c \in ConditionType : c.field \in Key /\ c.label \in STRING /\ c.type \in STRING
  BY DEF ConditionType
<1>5. /\ DOMAIN Conditions(draft) = 1..Len(draft.conditions)
      /\ \A i \in 1..Len(draft.conditions) :
            Conditions(draft)[i] = [key   |-> draft.conditions[i].field,
                                    label |-> draft.conditions[i].label,
                                    type  |-> draft.conditions[i].type]
  BY <1>3 DEF Conditions
<1>6. Conditions(draft) \in [1..Len(draft.conditions) -> Candidate]
  <2>1. ASSUME NEW i \in 1..Len(draft.conditions) PROVE Conditions(draft)[i] \in Candidate
    <3>1. draft.conditions[i] \in ConditionType
      BY <1>3
    <3>2. Conditions(draft)[i] = [key   |-> draft.conditions[i].field,
                                  label |-> draft.conditions[i].label,
                                  type  |-> draft.conditions[i].type]
      BY <1>5
    <3> QED
      BY <1>4, <3>1, <3>2 DEF Candidate
  <2>2. Conditions(draft) = [i \in 1..Len(draft.conditions) |-> Conditions(draft)[i]]
    BY <1>3 DEF Conditions
  <2> QED
    BY <2>1, <2>2
<1>7. Conditions(draft) \in Seq(Candidate) /\ Len(Conditions(draft)) = Len(draft.conditions)
  BY <1>3, <1>6, SeqDef
<1>8. ASSUME NEW i \in 1..Len(draft.conditions)
      PROVE  /\ Conditions(draft)[i].key = draft.conditions[i].field
             /\ Conditions(draft)[i].label = draft.conditions[i].label
             /\ Conditions(draft)[i].type = draft.conditions[i].type
  <2>1. Conditions(draft)[i] = [key   |-> draft.conditions[i].field,
                                label |-> draft.conditions[i].label,
                                type  |-> draft.conditions[i].type]
    BY <1>5
  <2> QED
    BY <2>1
<1> QED
  BY <1>2, <1>3, <1>7, <1>8

LEMMA RuleOfCondition ==
  ASSUME NEW c \in ConditionType, NEW key \in Key
  PROVE  /\ EligibilityRule(c, key) \in RuleType
         /\ ValidCondition(c) => EligibilityRule(c, key) \in ValidRule
<1>1. EligibilityRule(c, key) \in RuleType
  BY DEF EligibilityRule, RuleType, ConditionType
<1>2. ASSUME ValidCondition(c), c.operator = "between"
      PROVE  c.min \in Int /\ c.max \in Int
  <2>1. None \notin {c.min, c.max}
    BY <1>2 DEF ValidCondition
  <2> QED
    BY <2>1 DEF ConditionType
<1>3. ValidCondition(c) => HasOperands(EligibilityRule(c, key))
  BY <1>2 DEF HasOperands, EligibilityRule
<1> QED
  BY <1>1, <1>3 DEF ValidRule

\* Rule n is that of the n-th condition with its operands, under the key of
\* the definition that its candidate has found.
RulesOfDraft(rules, draft, found) ==
    /\ rules \in Seq(ValidRule)
    /\ Len(rules) = Len(RuleConditions(draft))
    /\ Len(rules) <= Len(draft.conditions)
    /\ \A n \in 1..Len(rules) : \E i \in 1..Len(draft.conditions) :
          /\ RuleConditions(draft)[n] = draft.conditions[i]
          /\ rules[n] = EligibilityRule(draft.conditions[i], found.resolved[i].key)

LEMMA RulesBuilt ==
  ASSUME NEW draft \in Draft, NEW found, found.resolved \in Seq(Definition),
         Len(found.resolved) = Len(draft.conditions)
  PROVE  RulesOfDraft(Rules(draft, found), draft, found)
<1> DEFINE cs     == draft.conditions
           all    == [i \in DOMAIN cs |-> EligibilityRule(cs[i], found.resolved[i].key)]
           rules  == Rules(draft, found)
           places == Ascending(ValidPlaces(draft), Len(cs))
<1>1. /\ cs \in Seq(ConditionType)
      /\ Len(cs) \in Nat
      /\ DOMAIN cs = 1..Len(cs)
      /\ \A i \in 1..Len(cs) : cs[i] \in ConditionType
  BY DraftConditions, ListMembers
<1>2. \A i \in 1..Len(cs) : found.resolved[i].key \in Key
  <2>1. \A i \in 1..Len(cs) : found.resolved[i] \in Definition
    BY ListMembers
  <2> QED
    BY <2>1 DEF Definition
<1>3. \A i \in 1..Len(cs) : all[i] = EligibilityRule(cs[i], found.resolved[i].key)
  BY <1>1
<1>4. all \in Seq(RuleType) /\ Len(all) = Len(cs)
  <2>1. \A i \in 1..Len(cs) : all[i] \in RuleType
    BY <1>1, <1>2, <1>3, RuleOfCondition
  <2>2. all = [i \in 1..Len(cs) |-> all[i]]
    BY <1>1
  <2> HIDE DEF all
  <2>3. all \in [1..Len(cs) -> RuleType]
    BY <2>1, <2>2
  <2> QED
    BY <1>1, <2>3, SeqDef
<1>5. rules = Items(all, ValidPlaces(draft)) /\ RuleConditions(draft) = Items(cs, ValidPlaces(draft))
  BY DEF Rules, RuleConditions
<1>6. \A i \in ValidPlaces(draft) : ValidCondition(cs[i])
  BY DEF ValidPlaces
<1> HIDE DEF all, rules, cs
<1>7. /\ rules \in Seq(RuleType)
      /\ Len(rules) = Len(places)
      /\ Len(rules) <= Len(cs)
      /\ \A n \in 1..Len(places) :
            /\ places[n] \in ValidPlaces(draft) \cap 1..Len(cs)
            /\ rules[n] = all[places[n]]
  BY <1>4, <1>5, ItemsPicked
<1>8. /\ Len(RuleConditions(draft)) = Len(places)
      /\ \A n \in 1..Len(places) : RuleConditions(draft)[n] = cs[places[n]]
  BY <1>1, <1>5, ItemsPicked
<1> HIDE DEF places
<1>9. ASSUME NEW n \in 1..Len(rules)
      PROVE  /\ rules[n] \in ValidRule
             /\ \E i \in 1..Len(cs) :
                   /\ RuleConditions(draft)[n] = cs[i]
                   /\ rules[n] = EligibilityRule(cs[i], found.resolved[i].key)
  <2>1. /\ places[n] \in 1..Len(cs)
        /\ ValidCondition(cs[places[n]])
        /\ rules[n] = EligibilityRule(cs[places[n]], found.resolved[places[n]].key)
    BY <1>3, <1>6, <1>7
  <2>2. rules[n] \in ValidRule
    BY <1>1, <1>2, <2>1, RuleOfCondition
  <2> QED
    BY <1>7, <1>8, <2>1, <2>2
<1>10. rules \in Seq(ValidRule)
  <2>1. Len(rules) \in Nat /\ rules \in [1..Len(rules) -> RuleType]
    BY <1>7, LenProperties
  <2>2. rules \in [1..Len(rules) -> ValidRule]
    BY <1>9, <2>1
  <2> QED
    BY <2>1, <2>2, SeqDef
<1> QED
  BY <1>7, <1>8, <1>9, <1>10 DEF rules, cs, RulesOfDraft

LEMMA RulesOfType ==
  ASSUME NEW X, NEW p, p.rules \in Seq(X), NEW f
  PROVE  /\ RulesOf(p, f) \in Seq(X)
         /\ f \in RuleFields(p) => RulesOf(p, f) # <<>>
         /\ f \notin RuleFields(p) => RulesOf(p, f) = <<>>
<1> DEFINE T == {i \in DOMAIN p.rules : p.rules[i].field = f}
           places == Ascending(T, Len(p.rules))
<1>1. /\ RulesOf(p, f) \in Seq(X)
      /\ Len(RulesOf(p, f)) = Len(places)
      /\ Enumerates(places, T, Len(p.rules))
      /\ \A n \in 1..Len(places) : places[n] \in T \cap 1..Len(p.rules)
  BY ItemsPicked DEF RulesOf
<1>2. DOMAIN p.rules = 1..Len(p.rules) /\ Len(p.rules) \in Nat
  BY ListMembers
<1>3. f \in RuleFields(p) <=> T # {}
  BY DEF RuleFields
<1> HIDE DEF places
<1>4. Len(places) \in Nat
  BY <1>1, ListMembers
<1>5. ASSUME T # {} PROVE RulesOf(p, f) # <<>>
  <2>1. PICK x \in T \cap 1..Len(p.rules) : TRUE
    BY <1>2, <1>5
  <2>2. PICK n \in 1..Len(places) : places[n] = x
    BY <1>1, <2>1 DEF Enumerates
  <2>3. Len(RulesOf(p, f)) # 0
    BY <1>1, <1>4, <2>2
  <2> QED
    BY <1>1, <2>3, EmptySeq
<1>6. ASSUME T = {} PROVE RulesOf(p, f) = <<>>
  <2>1. ~(1 \in 1..Len(places))
    BY <1>1, <1>6
  <2>2. Len(RulesOf(p, f)) = 0
    BY <1>1, <1>4, <2>1
  <2> QED
    BY <1>1, <2>2, EmptySeq
<1> QED
  BY <1>1, <1>3, <1>5, <1>6

LEMMA EvidenceOfPlace ==
  ASSUME NEW X, NEW p, p.rules \in Seq(X), Len(p.rules) > 0, NEW f
  PROVE  /\ EvidenceOf(p, f) \in 1..Len(p.rules)
         /\ f \in RuleFields(p) => p.rules[EvidenceOf(p, f)].field = f
<1> DEFINE T == {i \in DOMAIN p.rules : p.rules[i].field = f}
<1>1. DOMAIN p.rules = 1..Len(p.rules) /\ Len(p.rules) \in Nat
  BY ListMembers
<1>2. f \in RuleFields(p) <=> T # {}
  BY DEF RuleFields
<1>3. EvidenceOf(p, f) = IF T = {} THEN 1 ELSE CHOOSE i \in T : \A j \in T : i <= j
  BY DEF EvidenceOf
<1>4. T \subseteq 1..Len(p.rules) /\ \A i \in T : p.rules[i].field = f
  BY <1>1
<1> HIDE DEF T
<1>5. ASSUME T # {} PROVE EvidenceOf(p, f) \in T
  <2>1. T \subseteq Nat
    BY <1>1, <1>4
  <2>2. \E i \in T : \A j \in T : i <= j
    BY <1>5, <2>1, NatMinimum
  <2> QED
    BY <1>3, <1>5, <2>2
<1>6. CASE T = {}
  BY <1>1, <1>2, <1>3, <1>6
<1>7. CASE T # {}
  BY <1>2, <1>4, <1>5, <1>7
<1> QED
  BY <1>6, <1>7

\* The type of a change is that of its lists, and unless it is a removal it
\* cites a condition on its field.
LEMMA ChangesTrue ==
  ASSUME NEW old, old.rules \in Seq(ValidRule),
         NEW new, new.rules \in Seq(ValidRule), Len(new.rules) > 0,
         NEW c \in ConditionChanges(old, new)
  PROVE  c \in ChangeRecord /\ TrueChange(c, new.rules)
<1>1. PICK f \in RuleFields(old) \cup RuleFields(new) :
         /\ RulesOf(old, f) # RulesOf(new, f)
         /\ c = [field    |-> f,
                 before   |-> RulesOf(old, f),
                 after    |-> RulesOf(new, f),
                 type     |-> ChangeType(RulesOf(old, f), RulesOf(new, f)),
                 evidence |-> EvidenceOf(new, f)]
  BY DEF ConditionChanges
<1>2. ASSUME NEW p, p.rules \in Seq(ValidRule) PROVE RuleFields(p) \subseteq Key
  <2>1. DOMAIN p.rules = 1..Len(p.rules) /\ \A i \in 1..Len(p.rules) : p.rules[i] \in ValidRule
    BY <1>2, ListMembers
  <2>2. \A r \in ValidRule : r.field \in Key
    BY DEF ValidRule, RuleType
  <2> QED
    BY <2>1, <2>2 DEF RuleFields
<1>3. f \in Key
  BY <1>1, <1>2
<1>4. RulesOf(old, f) \in Seq(ValidRule) /\ RulesOf(new, f) \in Seq(ValidRule)
  BY RulesOfType
<1>5. EvidenceOf(new, f) \in 1..Len(new.rules) /\ EvidenceOf(new, f) \in Nat
  BY EvidenceOfPlace
<1>6. ASSUME NEW before, NEW after PROVE ChangeType(before, after) \in ChangeKind
  <2> USE DEF ChangeKind
  <2>1. ASSUME NEW r, NEW q PROVE SingleRuleChange(r, q) \in ChangeKind
    <3>1. BetweenChange(r, q) \in ChangeKind
      BY DEF BetweenChange
    <3>2. InChange(r, q) \in ChangeKind
      BY DEF InChange
    <3> QED
      BY <3>1, <3>2 DEF SingleRuleChange
  <2> QED
    BY <2>1 DEF ChangeType
<1>7. c \in ChangeRecord
  BY <1>1, <1>3, <1>4, <1>5, <1>6 DEF ChangeRecord
<1>8. ASSUME c.type # "removed" PROVE new.rules[c.evidence].field = f
  <2>1. CASE f \in RuleFields(new)
    BY <1>1, <2>1, EvidenceOfPlace
  <2>2. CASE f \notin RuleFields(new)
    <3>1. RulesOf(new, f) = <<>> /\ RulesOf(old, f) # <<>>
      BY <1>1, <2>2, RulesOfType
    <3> QED
      BY <1>1, <1>8, <3>1 DEF ChangeType
  <2> QED
    BY <2>1, <2>2
<1> QED
  BY <1>1, <1>5, <1>7, <1>8 DEF TrueChange
-----------------------------------------------------------------------------
(***************************************************************************)
(* What a run builds.                                                      *)
(***************************************************************************)
ReviewsOf(found) == {LastOfKey(found.proposals, d.key) : d \in ToSet(found.proposals)}

\* The definitions of a new package: the approved ones come from the registry,
\* the others are proposals with a review under their key, and each key under
\* review is among them.
FieldsOfDraft(fields, S, draft, found) ==
    /\ found.resolved \in Seq(Definition)
    /\ Len(found.resolved) = Len(draft.conditions)
    /\ fields \in Seq(Definition)
    /\ UniqueKeys(fields)
    /\ \A i \in 1..Len(found.resolved) :
          \E n \in 1..Len(fields) : fields[n].key = found.resolved[i].key
    /\ ReviewsOf(found) \subseteq Definition
    /\ found.proposals = <<>> => ReviewsOf(found) = {}
    /\ \A n \in 1..Len(fields) : fields[n].status = "approved" => fields[n] \in S
    /\ \A n \in 1..Len(fields) : fields[n].status = "pending"
          => \E d \in ReviewsOf(found) : d.key = fields[n].key
    /\ \A n \in 1..Len(fields) : fields[n] \in S \cup ToSet(found.proposals)
    /\ \A e \in ToSet(found.proposals) : \E d \in ReviewsOf(found) : d.key = e.key
    /\ \A d \in ReviewsOf(found) : \E n \in 1..Len(fields) : fields[n].key = d.key

LEMMA FieldsBuilt ==
  ASSUME NEW S, S \subseteq Definition, \A d \in S : d.status = "approved",
         NEW draft \in Draft, NEW found, found = ResolveFields(S, Conditions(draft)),
         NEW fields, fields = DictOf(found.resolved)
  PROVE  FieldsOfDraft(fields, S, draft, found)
<1> DEFINE cs == Conditions(draft)
<1>1. /\ cs \in Seq(Candidate)
      /\ Len(cs) = Len(draft.conditions)
      /\ \A i \in 1..Len(cs) : cs[i] \in Candidate
  BY DraftConditions, ListMembers
<1>2. Found(found, S, cs, Len(cs))
  BY <1>1, FieldsFound
<1>3. found.resolved \in Seq(Definition) /\ found.proposals \in Seq(Definition)
  BY <1>2 DEF Found, FoundType
<1>4. Len(found.resolved) = Len(draft.conditions)
  BY <1>1, <1>2 DEF Found
<1> HIDE DEF cs
<1>5. \A d \in ToSet(found.proposals) :
         d.status = "pending" /\ \E i \in 1..Len(cs) : d = Proposal(cs[i])
  BY <1>1, <1>2, ProposalType DEF Found
<1>6. /\ fields \in Seq(Definition)
      /\ UniqueKeys(fields)
      /\ \A n \in 1..Len(fields) : \E i \in 1..Len(found.resolved) : fields[n] = found.resolved[i]
      /\ \A i \in 1..Len(found.resolved) :
            \E n \in 1..Len(fields) : fields[n].key = found.resolved[i].key
  BY <1>3, DictOfKeeps
<1>7. ASSUME NEW n \in 1..Len(fields)
      PROVE  fields[n] \in S \cup ToSet(found.proposals)
  <2>1. fields[n] \in ToSet(found.resolved)
    <3>1. PICK i \in 1..Len(found.resolved) : fields[n] = found.resolved[i]
      BY <1>6
    <3> QED
      BY <1>3, <3>1, ListMembers
  <2> QED
    BY <1>2, <2>1 DEF Found
\* The review of a key is the last proposal under it.
<1>8. ASSUME NEW d \in ToSet(found.proposals)
      PROVE  LastOfKey(found.proposals, d.key) \in ToSet(found.proposals)
             /\ LastOfKey(found.proposals, d.key).key = d.key
  <2>1. PICK i \in 1..Len(found.proposals) : found.proposals[i] = d
    BY <1>3, ListMembers
  <2>2. found.proposals[i].key = d.key
    BY <2>1
  <2>3. PICK j \in 1..Len(found.proposals) :
           LastOfKey(found.proposals, d.key) = found.proposals[j] /\ found.proposals[j].key = d.key
    <3> DEFINE list == found.proposals
               key  == d.key
    <3>1. list \in Seq(Definition) /\ i \in 1..Len(list) /\ list[i].key = key
      BY <1>3, <2>2
    <3> HIDE DEF list, key
    <3>2. \E j \in 1..Len(list) : LastOfKey(list, key) = list[j] /\ list[j].key = key
      BY <3>1, LastOfKeyIs
    <3> QED
      BY <3>2 DEF list, key
  <2> QED
    BY <1>3, <2>3, ListMembers
<1>9. ReviewsOf(found) \subseteq ToSet(found.proposals)
  BY <1>8 DEF ReviewsOf
<1>10. ReviewsOf(found) \subseteq Definition
  BY <1>3, <1>9, ListMembers
<1>11. found.proposals = <<>> => ReviewsOf(found) = {}
  <2>1. ToSet(<<>>) = {}
    BY DEF ToSet
  <2> QED
    BY <1>9, <2>1
<1>12. \A n \in 1..Len(fields) : fields[n].status = "approved" => fields[n] \in S
  BY <1>5, <1>7
<1>13. ASSUME NEW n \in 1..Len(fields), fields[n].status = "pending"
       PROVE  \E d \in ReviewsOf(found) : d.key = fields[n].key
  <2>1. fields[n] \in ToSet(found.proposals)
    BY <1>7, <1>13
  <2> QED
    BY <1>8, <2>1 DEF ReviewsOf
<1>14. ASSUME NEW d \in ReviewsOf(found)
       PROVE  \E n \in 1..Len(fields) : fields[n].key = d.key
  <2>1. d \in ToSet(found.resolved)
    BY <1>2, <1>9 DEF Found
  <2>2. PICK i \in 1..Len(found.resolved) : found.resolved[i] = d
    BY <1>3, <2>1, ListMembers
  <2> QED
    BY <1>6, <2>2
<1>15. \A e \in ToSet(found.proposals) : \E d \in ReviewsOf(found) : d.key = e.key
  BY <1>8 DEF ReviewsOf
<1> QED
  BY <1>3, <1>4, <1>6, <1>7, <1>10, <1>11, <1>12, <1>13, <1>14, <1>15 DEF FieldsOfDraft

LEMMA EvidenceBuilt ==
  ASSUME NEW draft \in Draft
  PROVE  Evidence(draft) \in Seq(STRING) /\ Len(draft.conditions) <= Len(Evidence(draft))
<1> DEFINE Q == ConditionType \cup ActionType
           items == EvidenceItems(draft)
<1>1. draft.conditions \in Seq(Q) /\ draft.actions \in Seq(Q)
  <2>1. ConditionType \subseteq Q /\ ActionType \subseteq Q
    OBVIOUS
  <2> HIDE DEF Q
  <2> QED
    BY <2>1, DraftConditions, SeqMonotonic
<1>2. \A q \in Q : q.quote \in STRING
  BY DEF ConditionType, ActionType
<1> HIDE DEF Q
<1>3. items \in Seq(Q) /\ Len(items) = Len(draft.conditions) + Len(draft.actions)
  BY <1>1, ConcatProperties DEF EvidenceItems
<1> HIDE DEF items
<1>4. /\ Len(items) \in Nat
      /\ DOMAIN items = 1..Len(items)
      /\ \A i \in 1..Len(items) : items[i] \in Q
  BY <1>3, ListMembers
<1>5. Evidence(draft) = [i \in 1..Len(items) |-> items[i].quote]
  BY <1>4 DEF Evidence, items
<1>6. Evidence(draft) \in [1..Len(items) -> STRING]
  BY <1>2, <1>4, <1>5
<1>7. Evidence(draft) \in Seq(STRING) /\ Len(Evidence(draft)) = Len(items)
  BY <1>4, <1>6, SeqDef
<1>8. Len(draft.conditions) \in Nat /\ Len(draft.actions) \in Nat
  BY <1>1, ListMembers
<1>9. Len(draft.conditions) <= Len(Evidence(draft))
  <2>1. Len(Evidence(draft)) = Len(draft.conditions) + Len(draft.actions)
    BY <1>3, <1>7
  <2>2. \A m, n \in Nat : m <= m + n
    OBVIOUS
  <2> QED
    BY <1>8, <2>1, <2>2
<1> QED
  BY <1>7, <1>9

\* The package before the comparison with the previous version.
NewPackage(draft, found) ==
    [version  |-> 1,
     rules    |-> Rules(draft, found),
     fields   |-> DictOf(found.resolved),
     terms    |-> draft.terms,
     evidence |-> Evidence(draft),
     changes  |-> {},
     newTerms |-> FALSE]

FoundBy(S, draft) == ResolveFields(S, Conditions(draft))

LEMMA BuildPackageIs ==
  ASSUME NEW S, NEW corpus, NEW draft,
         NEW found, found = ResolveFields(S, Conditions(draft))
  PROVE  LET b == BuildPackage(S, corpus, draft) IN
         /\ b = [package |-> b.package, issues |-> b.issues,
                 proposals |-> found.proposals, reviews |-> ReviewsOf(found)]
         /\ ValidateEvidence(corpus, draft) \subseteq b.issues
         /\ b.package = IF Rules(draft, found) = <<>> THEN None ELSE NewPackage(draft, found)
<1>1. BuildPackage(S, corpus, draft) =
        [package   |-> IF Rules(draft, found) = <<>> THEN None ELSE NewPackage(draft, found),
         issues    |-> ValidateEvidence(corpus, draft)
                       \cup (IF Len(Rules(draft, found)) # Len(draft.conditions)
                             THEN {"invalid_condition"} ELSE {}),
         proposals |-> found.proposals,
         reviews   |-> ReviewsOf(found)]
  BY DEF BuildPackage, NewPackage, ReviewsOf
<1> QED
  BY <1>1

LEMMA BuiltIs ==
  ASSUME NEW prev, NEW S, NEW corpus, NEW draft, NEW found, found = FoundBy(S, draft),
         NEW b, b = Built(prev, S, corpus, draft)
  PROVE  /\ b = [package |-> b.package, issues |-> b.issues,
                 proposals |-> found.proposals, reviews |-> ReviewsOf(found)]
         /\ ValidateEvidence(corpus, draft) \subseteq b.issues
         /\ b.package # None =>
               /\ Rules(draft, found) # <<>>
               /\ b.package = ApplyPolicyDiff(prev, NewPackage(draft, found))
         /\ Rules(draft, found) # <<>> =>
               \/ b.package = NewPackage(draft, found)
               \/ b.package = ApplyPolicyDiff(prev, NewPackage(draft, found))
<1> DEFINE a == BuildPackage(S, corpus, draft)
<1>1. /\ a = [package |-> a.package, issues |-> a.issues,
              proposals |-> found.proposals, reviews |-> ReviewsOf(found)]
      /\ ValidateEvidence(corpus, draft) \subseteq a.issues
      /\ a.package = IF Rules(draft, found) = <<>> THEN None ELSE NewPackage(draft, found)
  BY BuildPackageIs DEF FoundBy
<1>2. b = IF a.package = None THEN a ELSE [a EXCEPT !.package = ApplyPolicyDiff(prev, a.package)]
  BY DEF Built
<1> HIDE DEF a
<1>3. CASE a.package = None
  BY <1>1, <1>2, <1>3
<1>4. CASE a.package # None
  <2>1. b = [package |-> ApplyPolicyDiff(prev, a.package), issues |-> a.issues,
             proposals |-> found.proposals, reviews |-> ReviewsOf(found)]
    BY <1>1, <1>2, <1>4
  <2> QED
    BY <1>1, <1>4, <2>1
<1> QED
  BY <1>3, <1>4

\* Whatever order a run reads the reviews in, it knows approved definitions
\* only, their keys are registered, and it knows those of the previous version.
LEMMA DefinitionsApproved ==
  ASSUME AreApproved(Registered), PreviousInvariant, NEW read \in Readings,
         NEW S, S = Definitions(previous, read)
  PROVE  /\ S \subseteq Definition
         /\ \A d \in S : d.status = "approved" /\ \E e \in Registered : e.key = d.key
         /\ previous # None =>
               \A d \in ToSet(previous.fields) : d.status = "approved" => d \in S
<1>1. read \subseteq Registered
  BY DEF Readings, Override, Registered
<1>2. CASE previous = None
  BY <1>1, <1>2 DEF Definitions, AreApproved
<1>3. CASE previous # None
  <2> DEFINE own == {e \in ToSet(previous.fields) : e.status = "approved"}
  <2>1. previous.fields \in Seq(Definition)
    BY <1>3 DEF PreviousInvariant, Whole, PackageType
  <2>2. own \subseteq Definition
    BY <2>1, ListMembers
  <2>3. ASSUME NEW d \in own
        PROVE  \E e \in Registered : e.key = d.key
    <3>1. PICK i \in 1..Len(previous.fields) : previous.fields[i] = d
      BY <2>1, ListMembers
    <3> QED
      BY <1>3, <3>1 DEF PreviousInvariant, RegisteredFields
  <2>4. S = Override(read, own)
    BY <1>3 DEF Definitions
  <2>5. S \subseteq read \cup own /\ own \subseteq S
    BY <2>4 DEF Override
  <2> QED
    BY <1>1, <2>2, <2>3, <2>5 DEF AreApproved
<1> QED
  BY <1>2, <1>3

LEMMA NewPackageWhole ==
  ASSUME NEW S, S \subseteq Definition, \A d \in S : d.status = "approved",
         NEW draft \in Draft, NEW found, found = ResolveFields(S, Conditions(draft)),
         Rules(draft, found) # <<>>
  PROVE  Whole(NewPackage(draft, found), draft)
<1> DEFINE rules  == Rules(draft, found)
           fields == DictOf(found.resolved)
           p      == NewPackage(draft, found)
<1>1. /\ found.resolved \in Seq(Definition)
      /\ Len(found.resolved) = Len(draft.conditions)
      /\ fields \in Seq(Definition)
      /\ UniqueKeys(fields)
      /\ \A i \in 1..Len(found.resolved) :
            \E n \in 1..Len(fields) : fields[n].key = found.resolved[i].key
  <2> HIDE DEF rules, fields, p
  <2>1. fields = DictOf(found.resolved)
    BY DEF fields
  <2> QED
    <3>1. FieldsOfDraft(fields, S, draft, found)
      BY <2>1, FieldsBuilt
    <3> QED
      BY <3>1, Zenon DEF FieldsOfDraft
<1>2. /\ rules \in Seq(ValidRule)
      /\ Len(rules) = Len(RuleConditions(draft))
      /\ Len(rules) <= Len(draft.conditions)
      /\ \A n \in 1..Len(rules) : \E i \in 1..Len(draft.conditions) :
            /\ RuleConditions(draft)[n] = draft.conditions[i]
            /\ rules[n] = EligibilityRule(draft.conditions[i], found.resolved[i].key)
  <2>1. found.resolved \in Seq(Definition) /\ Len(found.resolved) = Len(draft.conditions)
    BY <1>1
  <2> QED
    <3>1. RulesOfDraft(rules, draft, found)
      BY <2>1, RulesBuilt
    <3> HIDE DEF rules, fields, p
    <3> QED
      BY <3>1, Zenon DEF RulesOfDraft
<1>3. /\ Evidence(draft) \in Seq(STRING)
      /\ Len(draft.conditions) <= Len(Evidence(draft))
      /\ draft.terms \in STRING
      /\ Len(draft.conditions) \in Nat
  BY EvidenceBuilt, DraftConditions
<1>4. p = [version |-> 1, rules |-> rules, fields |-> fields, terms |-> draft.terms,
           evidence |-> Evidence(draft), changes |-> {}, newTerms |-> FALSE]
  BY DEF NewPackage
<1>5. rules # <<>>
  OBVIOUS
<1> HIDE DEF rules, fields, p
<1>6. ASSUME NEW n \in 1..Len(rules)
      PROVE  /\ \E i \in 1..Len(fields) : fields[i].key = rules[n].field
             /\ rules[n] = EligibilityRule(RuleConditions(draft)[n], rules[n].field)
  <2>1. PICK i \in 1..Len(draft.conditions) :
            /\ RuleConditions(draft)[n] = draft.conditions[i]
            /\ rules[n] = EligibilityRule(draft.conditions[i], found.resolved[i].key)
    BY <1>2
  <2>2. rules[n].field = found.resolved[i].key
    BY <2>1 DEF EligibilityRule
  <2> QED
    BY <1>1, <2>1, <2>2
<1>7. Len(rules) \in Nat /\ Len(rules) > 0 /\ Len(Evidence(draft)) \in Nat
  BY <1>2, <1>3, <1>5, LenProperties, EmptySeq
<1>8. p \in PackageType
  BY <1>1, <1>2, <1>3, <1>4, BuilderAssumption DEF PackageType
<1>9. Explained(rules, fields) /\ FromDraft(rules, draft)
  BY <1>2, <1>6 DEF Explained, FromDraft
<1>10. Len(rules) <= Len(Evidence(draft))
  BY <1>2, <1>3, <1>7
<1>11. Whole(p, draft)
  BY <1>1, <1>4, <1>7, <1>8, <1>9, <1>10 DEF Whole
<1> QED
  BY <1>11 DEF p

\* The comparison adds changes that say what they compare.
LEMMA ComparedWhole ==
  ASSUME NEW prev, NEW src, Whole(prev, src), prev.version < MaxVersion,
         NEW p, NEW draft, Whole(p, draft),
         prev # None, NEW q, q = ApplyPolicyDiff(prev, p)
  PROVE  Whole(q, draft) /\ q.fields = p.fields
<1>1. p \in PackageType /\ prev \in PackageType
  BY DEF Whole
<1>2. /\ p.rules \in Seq(ValidRule)
      /\ prev.rules \in Seq(ValidRule)
      /\ Len(p.rules) > 0
      /\ prev.version \in 1..MaxVersion
  BY <1>1 DEF PackageType, Whole
<1>3. \A c \in ConditionChanges(prev, p) : c \in ChangeRecord /\ TrueChange(c, p.rules)
  BY <1>2, ChangesTrue
<1>4. q = [version  |-> prev.version + 1, rules |-> p.rules, fields |-> p.fields,
           terms    |-> p.terms, evidence |-> p.evidence,
           changes  |-> ConditionChanges(prev, p),
           newTerms |-> MetadataChange(prev, p)]
  BY <1>1 DEF PackageType, ApplyPolicyDiff
<1>5. prev.version + 1 \in 1..MaxVersion
  BY <1>2, BuilderAssumption
<1>6. MetadataChange(prev, p) \in BOOLEAN
  BY DEF MetadataChange
<1>7. ConditionChanges(prev, p) \subseteq ChangeRecord
  BY <1>3
<1>8. q \in PackageType
  BY <1>1, <1>4, <1>5, <1>6, <1>7 DEF PackageType
<1> QED
  BY <1>3, <1>4, <1>8 DEF Whole
-----------------------------------------------------------------------------
(***************************************************************************)
(* What an approval does to a package.                                     *)
(***************************************************************************)
FieldsReplaced(new, fields, old, d) ==
    /\ new \in Seq(Definition)
    /\ UniqueKeys(new)
    /\ \A n \in 1..Len(new) :
          new[n] = d \/ \E i \in 1..Len(fields) : new[n] = fields[i] /\ fields[i].key # old
    /\ \A i \in 1..Len(fields) : fields[i].key # old =>
          \E n \in 1..Len(new) : new[n] = fields[i] \/ (new[n] = d /\ d.key = fields[i].key)
    /\ \A i \in 1..Len(fields) : fields[i].key = old =>
          \E n \in 1..Len(new) : new[n].key = d.key

LEMMA FieldsReplace ==
  ASSUME NEW fields \in Seq(Definition), UniqueKeys(fields), NEW old, NEW d \in Definition
  PROVE  FieldsReplaced(ReplaceFields(fields, old, d), fields, old, d)
<1> DEFINE mid == [i \in DOMAIN fields |-> IF fields[i].key = old THEN d ELSE fields[i]]
           new == ReplaceFields(fields, old, d)
<1>1. /\ Len(fields) \in Nat
      /\ DOMAIN fields = 1..Len(fields)
      /\ \A i \in 1..Len(fields) : fields[i] \in Definition
  BY ListMembers
<1>2. \A i \in 1..Len(fields) : mid[i] = IF fields[i].key = old THEN d ELSE fields[i]
  BY <1>1
<1>3. mid \in Seq(Definition) /\ Len(mid) = Len(fields)
  <2>1. mid \in [1..Len(fields) -> Definition]
    BY <1>1
  <2> HIDE DEF mid
  <2> QED
    BY <1>1, <2>1, SeqDef
<1>4. new = FirstOfKeys(mid)
  BY DEF ReplaceFields
<1> HIDE DEF mid, new
<1>5. /\ new \in Seq(Definition)
      /\ UniqueKeys(new)
      /\ \A n \in 1..Len(new) : \E i \in 1..Len(mid) : new[n] = mid[i]
      /\ \A i \in 1..Len(mid) : \E n \in 1..Len(new) : new[n].key = mid[i].key
  BY <1>3, <1>4, FirstOfKeysKeeps
<1>6. ASSUME NEW n \in 1..Len(new)
      PROVE  new[n] = d \/ \E i \in 1..Len(fields) : new[n] = fields[i] /\ fields[i].key # old
  <2>1. PICK i \in 1..Len(fields) : new[n] = mid[i]
    BY <1>3, <1>5
  <2> QED
    BY <1>2, <2>1
<1>7. ASSUME NEW i \in 1..Len(fields), fields[i].key # old
      PROVE  \E n \in 1..Len(new) : new[n] = fields[i] \/ (new[n] = d /\ d.key = fields[i].key)
  <2>1. mid[i] = fields[i]
    BY <1>2, <1>7
  <2>2. PICK n \in 1..Len(new) : new[n].key = fields[i].key
    BY <1>3, <1>5, <2>1
  <2>3. ASSUME NEW j \in 1..Len(fields), new[n] = fields[j]
        PROVE  new[n] = fields[i]
    <3>1. i = j
      BY <2>2, <2>3 DEF UniqueKeys
    <3> QED
      BY <2>3, <3>1
  <2> QED
    BY <1>6, <2>2, <2>3
<1>8. ASSUME NEW i \in 1..Len(fields), fields[i].key = old
      PROVE  \E n \in 1..Len(new) : new[n].key = d.key
  <2>1. mid[i] = d
    BY <1>2, <1>8
  <2> QED
    BY <1>3, <1>5, <2>1
<1> QED
  BY <1>5, <1>6, <1>7, <1>8 DEF FieldsReplaced, new

\* A rule that asks for another field is still that of its condition.
LEMMA RuleReplaced ==
  ASSUME NEW r \in ValidRule, NEW k \in Key
  PROVE  /\ [r EXCEPT !.field = k] \in ValidRule
         /\ [r EXCEPT !.field = k].field = k
         /\ \A c : r = EligibilityRule(c, r.field)
               => [r EXCEPT !.field = k] = EligibilityRule(c, k)
<1>1. r \in RuleType /\ HasOperands(r)
  BY DEF ValidRule
<1>2. [r EXCEPT !.field = k] \in RuleType /\ [r EXCEPT !.field = k].field = k
  BY <1>1 DEF RuleType
<1>3. HasOperands([r EXCEPT !.field = k])
  BY <1>1 DEF HasOperands, RuleType
<1>4. ASSUME NEW c, r = EligibilityRule(c, r.field)
      PROVE  [r EXCEPT !.field = k] = EligibilityRule(c, k)
  BY <1>4 DEF EligibilityRule
<1> QED
  BY <1>2, <1>3, <1>4 DEF ValidRule

LEMMA PackageReplaced ==
  ASSUME NEW p, NEW draft, Whole(p, draft), NEW old,
         NEW d \in Definition, NEW q, q = ReplacePolicyField(p, old, d)
  PROVE  Whole(q, draft) /\ q.fields = ReplaceFields(p.fields, old, d)
<1> DEFINE rules == [i \in DOMAIN p.rules |-> IF p.rules[i].field = old
                                             THEN [p.rules[i] EXCEPT !.field = d.key]
                                             ELSE p.rules[i]]
           changes == {IF c.field = old THEN [c EXCEPT !.field = d.key] ELSE c : c \in p.changes}
           fields  == ReplaceFields(p.fields, old, d)
<1>1. /\ p \in PackageType
      /\ p.rules \in Seq(ValidRule)
      /\ p.fields \in Seq(Definition)
      /\ p.changes \subseteq ChangeRecord
  BY DEF Whole, PackageType
<1>2. q = [version  |-> p.version, rules |-> rules, fields |-> fields, terms |-> p.terms,
           evidence |-> p.evidence, changes |-> changes, newTerms |-> p.newTerms]
  BY <1>1 DEF ReplacePolicyField, PackageType
<1>3. d.key \in Key
  BY DEF Definition
<1>4. /\ Len(p.rules) \in Nat
      /\ DOMAIN p.rules = 1..Len(p.rules)
      /\ \A n \in 1..Len(p.rules) : p.rules[n] \in ValidRule
  BY <1>1, ListMembers
<1>5. FieldsReplaced(fields, p.fields, old, d)
  BY <1>1, FieldsReplace DEF Whole
<1>6. \A n \in 1..Len(p.rules) :
         rules[n] = IF p.rules[n].field = old
                    THEN [p.rules[n] EXCEPT !.field = d.key] ELSE p.rules[n]
  BY <1>4
<1>7. rules \in Seq(ValidRule) /\ Len(rules) = Len(p.rules)
  <2>1. \A n \in 1..Len(p.rules) : rules[n] \in ValidRule
    BY <1>3, <1>4, <1>6, RuleReplaced
  <2>2. rules = [n \in 1..Len(p.rules) |-> rules[n]]
    BY <1>4
  <2> HIDE DEF rules
  <2>3. rules \in [1..Len(p.rules) -> ValidRule]
    BY <2>1, <2>2
  <2> QED
    BY <1>4, <2>3, SeqDef
<1>8. \A n \in 1..Len(p.rules) :
         rules[n].field = IF p.rules[n].field = old THEN d.key ELSE p.rules[n].field
  BY <1>3, <1>4, <1>6, RuleReplaced
<1>9. changes \subseteq ChangeRecord /\ \A c \in changes : TrueChange(c, rules)
  <2> SUFFICES ASSUME NEW e \in changes PROVE e \in ChangeRecord /\ TrueChange(e, rules)
    OBVIOUS
  <2>1. PICK c \in p.changes : e = IF c.field = old THEN [c EXCEPT !.field = d.key] ELSE c
    OBVIOUS
  <2>2. c \in ChangeRecord /\ TrueChange(c, p.rules)
    BY <1>1 DEF Whole
  <2>3. /\ e \in ChangeRecord
        /\ e.type = c.type /\ e.before = c.before /\ e.after = c.after
        /\ e.evidence = c.evidence
        /\ e.field = IF c.field = old THEN d.key ELSE c.field
    BY <1>3, <2>1, <2>2 DEF ChangeRecord
  <2> HIDE DEF rules
  <2>4. e.type # "removed" => rules[e.evidence].field = e.field
    BY <1>8, <2>2, <2>3 DEF TrueChange
  <2> QED
    BY <1>7, <2>2, <2>3, <2>4 DEF TrueChange
<1> HIDE DEF rules, changes, fields
<1>10. q \in PackageType
  BY <1>1, <1>2, <1>5, <1>7, <1>9 DEF PackageType, FieldsReplaced
<1>11. ASSUME NEW n \in 1..Len(rules)
       PROVE  /\ \E i \in 1..Len(fields) : fields[i].key = rules[n].field
              /\ rules[n] = EligibilityRule(RuleConditions(draft)[n], rules[n].field)
  <2>1. n \in 1..Len(p.rules)
    BY <1>7
  <2>2. PICK i \in 1..Len(p.fields) : p.fields[i].key = p.rules[n].field
    BY <2>1 DEF Whole, Explained
  <2>3. \E j \in 1..Len(fields) : fields[j].key = rules[n].field
    <3>1. rules[n].field = IF p.fields[i].key = old THEN d.key ELSE p.fields[i].key
      BY <1>8, <2>1, <2>2
    <3>2. CASE p.fields[i].key = old
      <4>1. \E j \in 1..Len(fields) : fields[j].key = d.key
        BY <1>5, <3>2 DEF FieldsReplaced
      <4> QED
        BY <3>1, <3>2, <4>1
    <3>3. CASE p.fields[i].key # old
      <4>1. PICK j \in 1..Len(fields) :
               fields[j] = p.fields[i] \/ (fields[j] = d /\ d.key = p.fields[i].key)
        BY <1>5, <3>3 DEF FieldsReplaced
      <4> QED
        BY <3>1, <3>3, <4>1
    <3> QED
      BY <3>2, <3>3
  <2>4. p.rules[n] = EligibilityRule(RuleConditions(draft)[n], p.rules[n].field)
    BY <2>1 DEF Whole, FromDraft
  <2>5. rules[n] = EligibilityRule(RuleConditions(draft)[n], rules[n].field)
    <3> DEFINE r == p.rules[n]
               c == RuleConditions(draft)[n]
    <3>1. r \in ValidRule /\ r = EligibilityRule(c, r.field)
      BY <1>4, <2>1, <2>4
    <3>2. CASE r.field = old
      <4>1. rules[n] = [r EXCEPT !.field = d.key] /\ rules[n].field = d.key
        BY <1>6, <1>8, <2>1, <3>2
      <4> HIDE DEF r, c
      <4>2. [r EXCEPT !.field = d.key] = EligibilityRule(c, d.key)
        BY <1>3, <3>1, RuleReplaced
      <4> QED
        BY <4>1, <4>2 DEF r, c
    <3>3. CASE r.field # old
      <4>1. rules[n] = r
        BY <1>6, <2>1, <3>3
      <4> QED
        BY <3>1, <4>1
    <3> QED
      BY <3>2, <3>3
  <2> QED
    BY <2>3, <2>5
<1>12. Explained(rules, fields) /\ FromDraft(rules, draft)
  BY <1>7, <1>11 DEF Explained, FromDraft, Whole
<1>13. UniqueKeys(fields)
  BY <1>5 DEF FieldsReplaced
<1>14. Whole(q, draft)
  BY <1>2, <1>7, <1>9, <1>10, <1>12, <1>13 DEF Whole
<1> QED
  BY <1>2, <1>14 DEF fields
-----------------------------------------------------------------------------
(***************************************************************************)
(* The invariant is inductive.                                             *)
(***************************************************************************)
LEMMA InitHolds ==
  ASSUME Init
  PROVE  BuilderInvariant
<1>1. AreApproved(Registered)
  BY BuilderAssumption DEF Init, IsRegistry, AreApproved, Registered
<1>2. PreviousInvariant
  BY DEF Init, PreviousInvariant
<1>3. BuildInvariant
  BY DEF Init, BuildInvariant, IsBuild, NoBuild
<1>4. PackageInvariant
  BY DEF Init, PackageInvariant, NoBuild
<1> QED
  BY <1>1, <1>2, <1>3, <1>4 DEF BuilderInvariant

LEMMA RunBuilds ==
  ASSUME PreviousInvariant,
         previous # None => previous.version < MaxVersion,
         NEW S, S \subseteq Definition, \A d \in S : d.status = "approved",
         NEW draft \in Draft, NEW found, found = FoundBy(S, draft),
         Rules(draft, found) # <<>>,
         NEW p, p = ApplyPolicyDiff(previous, NewPackage(draft, found))
  PROVE  Whole(p, draft) /\ p.fields = DictOf(found.resolved)
<1> DEFINE new == NewPackage(draft, found)
<1>1. Whole(new, draft)
  BY NewPackageWhole DEF FoundBy
<1>2. new.fields = DictOf(found.resolved)
  BY DEF NewPackage
<1> HIDE DEF new
<1>3. CASE previous = None
  BY <1>1, <1>2, <1>3 DEF ApplyPolicyDiff, new
<1>4. CASE previous # None
  <2>1. Whole(previous, source)
    BY <1>4 DEF PreviousInvariant
  <2>2. p = ApplyPolicyDiff(previous, new)
    BY DEF new
  <2> QED
    BY <1>1, <1>2, <1>4, <2>1, <2>2, ComparedWhole
<1> QED
  BY <1>3, <1>4

LEMMA RunKeeps ==
  ASSUME BuilderInvariant, NEW corpus \in Corpus, NEW draft \in Draft, Run(corpus, draft)
  PROVE  BuilderInvariant'
<1>1. PICK read \in Readings :
         /\ build' = Built(previous, Definitions(previous, read), corpus, draft)
         /\ origin' = [draft |-> draft, corpus |-> corpus,
                       definitions |-> Definitions(previous, read)]
  BY DEF Run
<1> DEFINE S      == Definitions(previous, read)
           found  == FoundBy(S, draft)
           fields == DictOf(found.resolved)
<1>2. /\ AreApproved(Registered)
      /\ PreviousInvariant
      /\ previous # None => previous.version < MaxVersion
      /\ pending' = Keys(build'.reviews)
      /\ UNCHANGED <<catalog, approvals, previous, source>>
  BY DEF BuilderInvariant, Run
<1>3. /\ S \subseteq Definition
      /\ \A d \in S : d.status = "approved" /\ \E e \in Registered : e.key = d.key
  BY <1>2, DefinitionsApproved
<1>4. build' = Built(previous, S, corpus, draft)
  BY <1>1
<1>5. origin' = [draft |-> draft, corpus |-> corpus, definitions |-> S]
  BY <1>1
<1> HIDE DEF S
<1>6. Registered' = Registered /\ AreApproved(Registered)' /\ PreviousInvariant'
  BY <1>2 DEF AreApproved, Registered, PreviousInvariant
<1>7. /\ build' = [package |-> build'.package, issues |-> build'.issues,
                   proposals |-> found.proposals, reviews |-> ReviewsOf(found)]
      /\ ValidateEvidence(corpus, draft) \subseteq build'.issues
      /\ build'.package # None =>
            /\ Rules(draft, found) # <<>>
            /\ build'.package = ApplyPolicyDiff(previous, NewPackage(draft, found))
  BY <1>4, BuiltIs
<1>8. build'.proposals = found.proposals /\ build'.reviews = ReviewsOf(found)
  BY <1>7
<1>9. FieldsOfDraft(fields, S, draft, found)
  BY <1>3, FieldsBuilt DEF FoundBy
<1> HIDE DEF found, fields
<1>10. BuildInvariant'
  <2>1. IsBuild(build)'
    BY <1>7, <1>8, <1>9 DEF IsBuild, FieldsOfDraft
  <2>2. (pending \subseteq Keys(build.reviews))'
    BY <1>2 DEF Keys
  <2>3. /\ origin'.draft \in Draft /\ origin'.corpus \in Corpus
        /\ ValidateEvidence(origin'.corpus, origin'.draft) \subseteq build'.issues
    BY <1>5, <1>7
  <2> QED
    BY <2>1, <2>2, <2>3 DEF BuildInvariant
<1>11. ASSUME build'.package # None
       PROVE  PackageInvariant'
  <2>1. Whole(build'.package, draft) /\ build'.package.fields = fields
    BY <1>2, <1>3, <1>7, <1>11, RunBuilds DEF found, fields
  <2>2. origin'.draft = draft /\ origin'.definitions = S
    BY <1>5
  <2>3. RegisteredFields(fields, Registered')
    BY <1>3, <1>6, <1>9 DEF RegisteredFields, FieldsOfDraft
  <2>4. \A e \in ToSet(found.proposals) : e.key \in pending'
    BY <1>2, <1>8, <1>9 DEF FieldsOfDraft, Keys
  <2>5. PendingAsked(fields, pending')
    BY <1>3, <1>9, <2>4 DEF PendingAsked, FieldsOfDraft, Keys
  <2>6. \A n \in 1..Len(fields) :
           Accounted(fields[n], S, build'.reviews, build'.proposals, pending')
    BY <1>8, <1>9, <2>4 DEF Accounted, FieldsOfDraft
  <2>7. ReviewUsed(fields, pending')
    BY <1>2, <1>8, <1>9 DEF ReviewUsed, FieldsOfDraft, Keys
  <2> QED
    BY <2>1, <2>2, <2>3, <2>5, <2>6, <2>7 DEF PackageInvariant
<1> QED
  BY <1>6, <1>10, <1>11 DEF BuilderInvariant, PackageInvariant

LEMMA ApproveKeeps ==
  ASSUME BuilderInvariant, NEW old \in Key, NEW key \in Key, ApproveReview(old, key)
  PROVE  BuilderInvariant'
<1>1. PICK r \in build.reviews :
         LET approved == ApprovedField(r, key) IN
         /\ r.key = old
         /\ approvals' = approvals \cup {approved}
         /\ build' = IF build.package = None THEN build
                     ELSE [build EXCEPT !.package = ReplacePolicyField(@, old, approved)]
  BY DEF ApproveReview
<1> DEFINE d == ApprovedField(r, key)
<1>2. /\ old \in pending
      /\ pending' = pending \ {old}
      /\ UNCHANGED <<catalog, previous, source, origin>>
  BY DEF ApproveReview
<1>3. /\ AreApproved(Registered)
      /\ PreviousInvariant
      /\ BuildInvariant
      /\ PackageInvariant
  BY DEF BuilderInvariant
<1>4. IsBuild(build) /\ build.reviews \subseteq Definition
  BY <1>3 DEF BuildInvariant, IsBuild
<1>5. /\ d \in Definition /\ d.key = key /\ d.status = "approved"
      /\ r.key = old /\ d = ApprovedField(r, d.key)
  BY <1>1, <1>4 DEF Definition, ApprovedField
<1>6. /\ Registered' = Registered \cup {d}
      /\ build' = IF build.package = None THEN build
                  ELSE [build EXCEPT !.package = ReplacePolicyField(build.package, old, d)]
  BY <1>1, <1>2 DEF Registered
<1> HIDE DEF d
<1>7. AreApproved(Registered)'
  BY <1>3, <1>5, <1>6 DEF AreApproved
\* What is registered stays registered.
<1>8. Registered \subseteq Registered' /\ d \in Registered'
  BY <1>6
<1>10. PreviousInvariant'
  BY <1>2, <1>3, <1>8 DEF PreviousInvariant, RegisteredFields
<1>11. /\ build' = [package |-> build'.package, issues |-> build.issues,
                    proposals |-> build.proposals, reviews |-> build.reviews]
       /\ build'.package = IF build.package = None THEN None
                           ELSE ReplacePolicyField(build.package, old, d)
  BY <1>4, <1>6 DEF IsBuild
<1>12. /\ build'.issues = build.issues
       /\ build'.proposals = build.proposals
       /\ build'.reviews = build.reviews
  BY <1>11
<1>13. BuildInvariant'
  <2>1. IsBuild(build)'
    BY <1>4, <1>11, <1>12 DEF IsBuild
  <2>2. (pending \subseteq Keys(build.reviews))'
    BY <1>2, <1>3, <1>12 DEF BuildInvariant, Keys
  <2>3. build # NoBuild
    BY <1>1 DEF NoBuild
  <2> QED
    BY <1>2, <1>3, <1>12, <2>1, <2>2, <2>3 DEF BuildInvariant
<1>14. PackageInvariant'
  <2> SUFFICES ASSUME build'.package # None
               PROVE  /\ Whole(build'.package, origin'.draft)
                      /\ RegisteredFields(build'.package.fields, Registered')
                      /\ PendingAsked(build'.package.fields, pending')
                      /\ \A n \in 1..Len(build'.package.fields) :
                            Accounted(build'.package.fields[n], origin'.definitions,
                                      build'.reviews, build'.proposals, pending')
                      /\ ReviewUsed(build'.package.fields, pending')
    BY DEF PackageInvariant
  <2> DEFINE fields == build.package.fields
             new    == build'.package.fields
             draft  == origin.draft
  <2>1. /\ Whole(build.package, draft)
        /\ RegisteredFields(fields, Registered)
        /\ PendingAsked(fields, pending)
        /\ \A i \in 1..Len(fields) :
              Accounted(fields[i], origin.definitions, build.reviews, build.proposals, pending)
        /\ ReviewUsed(fields, pending)
        /\ build'.package = ReplacePolicyField(build.package, old, d)
    BY <1>3, <1>11 DEF PackageInvariant
  <2>2. Whole(build'.package, draft) /\ new = ReplaceFields(fields, old, d)
    BY <1>5, <2>1, PackageReplaced
  <2>3. fields \in Seq(Definition) /\ UniqueKeys(fields)
    BY <2>1 DEF Whole, PackageType
  <2>4. FieldsReplaced(new, fields, old, d)
    BY <1>5, <2>2, <2>3, FieldsReplace
  <2>5. origin'.draft = draft /\ origin' = origin
    BY <1>2
  <2> HIDE DEF fields, new, draft
  <2>6. RegisteredFields(new, Registered')
    <3> SUFFICES ASSUME NEW n \in 1..Len(new), new[n].status = "approved"
                 PROVE  \E e \in Registered' : e.key = new[n].key
      BY DEF RegisteredFields
    <3>1. CASE new[n] = d
      BY <1>8, <3>1
    <3>2. CASE \E i \in 1..Len(fields) : new[n] = fields[i]
      BY <1>8, <2>1, <3>2 DEF RegisteredFields
    <3> QED
      BY <2>4, <3>1, <3>2 DEF FieldsReplaced
  <2>7. \A n \in 1..Len(new) : new[n].status = "pending" => new[n].key \in pending'
    <3> SUFFICES ASSUME NEW n \in 1..Len(new), new[n].status = "pending"
                 PROVE  new[n].key \in pending'
      OBVIOUS
    <3>1. PICK i \in 1..Len(fields) : new[n] = fields[i] /\ fields[i].key # old
      BY <1>5, <2>4 DEF FieldsReplaced
    <3> QED
      BY <1>2, <2>1, <3>1 DEF PendingAsked
  <2>8. ASSUME NEW n \in 1..Len(new)
        PROVE  Accounted(new[n], origin.definitions, build.reviews, build.proposals, pending')
    <3>1. CASE new[n] = d
      <4>1. r.key \notin pending'
        BY <1>2, <1>5
      <4> QED
        BY <1>1, <1>5, <3>1, <4>1 DEF Accounted
    <3>2. CASE \E i \in 1..Len(fields) : new[n] = fields[i] /\ fields[i].key # old
      <4>1. /\ Accounted(new[n], origin.definitions, build.reviews, build.proposals, pending)
            /\ new[n].key # old
        BY <2>1, <3>2
      <4> QED
        BY <1>2, <4>1 DEF Accounted
    <3> QED
      BY <2>4, <3>1, <3>2 DEF FieldsReplaced
  <2>9. ASSUME NEW k \in pending'
        PROVE  \E n \in 1..Len(new) : new[n].key = k
    <3>1. k \in pending /\ k # old
      BY <1>2
    <3>2. PICK i \in 1..Len(fields) : fields[i].key = k
      BY <2>1, <3>1 DEF ReviewUsed
    <3> QED
      BY <2>4, <3>1, <3>2 DEF FieldsReplaced
  <2> QED
    BY <1>12, <2>2, <2>5, <2>6, <2>7, <2>8, <2>9 DEF PendingAsked, ReviewUsed, new
<1> QED
  BY <1>7, <1>10, <1>13, <1>14 DEF BuilderInvariant

LEMMA PublishKeeps ==
  ASSUME BuilderInvariant, Publish
  PROVE  BuilderInvariant'
<1>1. /\ build.package # None
      /\ pending = {}
      /\ previous' = build.package
      /\ source' = origin.draft
      /\ build' = NoBuild
      /\ UNCHANGED <<catalog, approvals, pending>>
  BY DEF Publish
<1>2. Registered' = Registered /\ AreApproved(Registered)'
  BY <1>1 DEF BuilderInvariant, AreApproved, Registered
<1>3. /\ Whole(build.package, origin.draft)
      /\ RegisteredFields(build.package.fields, Registered)
      /\ PendingAsked(build.package.fields, pending)
  BY <1>1 DEF BuilderInvariant, PackageInvariant
<1>4. \A i \in 1..Len(build.package.fields) : build.package.fields[i].status = "approved"
  <2> DEFINE fields == build.package.fields
  <2>1. fields \in Seq(Definition)
    BY <1>3 DEF Whole, PackageType
  <2> HIDE DEF fields
  <2>2. \A i \in 1..Len(fields) : fields[i].status \in {"approved", "pending"}
    <3>1. \A i \in 1..Len(fields) : fields[i] \in Definition
      BY <2>1, ListMembers
    <3>2. \A d \in Definition : d.status \in {"approved", "pending"}
      BY DEF Definition
    <3> QED
      BY <3>1, <3>2
  <2>3. \A i \in 1..Len(fields) : fields[i].status # "pending"
    BY <1>1, <1>3 DEF PendingAsked, fields
  <2> QED
    BY <2>2, <2>3 DEF fields
<1>5. PreviousInvariant'
  BY <1>1, <1>2, <1>3, <1>4 DEF PreviousInvariant
<1>6. BuildInvariant' /\ PackageInvariant'
  BY <1>1 DEF BuildInvariant, IsBuild, PackageInvariant, NoBuild, Keys
<1> QED
  BY <1>2, <1>5, <1>6 DEF BuilderInvariant

LEMMA DropKeeps ==
  ASSUME BuilderInvariant, Drop
  PROVE  BuilderInvariant'
<1>1. /\ build' = NoBuild
      /\ pending' = {}
      /\ UNCHANGED <<catalog, approvals, previous, source>>
  BY DEF Drop
<1>2. AreApproved(Registered)' /\ PreviousInvariant'
  BY <1>1 DEF BuilderInvariant, AreApproved, Registered, PreviousInvariant
<1>3. BuildInvariant' /\ PackageInvariant'
  BY <1>1 DEF BuildInvariant, IsBuild, PackageInvariant, NoBuild, Keys
<1> QED
  BY <1>2, <1>3 DEF BuilderInvariant

\* In every reachable state the packages are whole: typed, built from their
\* draft, with an explanation for every rule and a condition for every change.
THEOREM BuilderInductive == Spec => []BuilderInvariant
<1>1. Init => BuilderInvariant
  BY InitHolds
<1>2. BuilderInvariant /\ [Next]_vars => BuilderInvariant'
  <2> SUFFICES ASSUME BuilderInvariant, [Next]_vars PROVE BuilderInvariant'
    OBVIOUS
  <2>1. CASE \E corpus \in Corpus, draft \in Draft : Run(corpus, draft)
    BY <2>1, RunKeeps
  <2>2. CASE \E old, key \in Key : ApproveReview(old, key)
    BY <2>2, ApproveKeeps
  <2>3. CASE Publish
    BY <2>3, PublishKeeps
  <2>4. CASE Drop
    BY <2>4, DropKeeps
  <2>5. CASE UNCHANGED vars
    BY <2>5 DEF vars, BuilderInvariant, AreApproved, Registered, PreviousInvariant,
                BuildInvariant, PackageInvariant, PendingAsked, ReviewUsed, IsBuild, Keys
  <2> QED
    BY <2>1, <2>2, <2>3, <2>4, <2>5 DEF Next
<1> QED
  BY <1>1, <1>2, PTL DEF Spec
-----------------------------------------------------------------------------
(***************************************************************************)
(* The properties.                                                         *)
(***************************************************************************)
LEMMA WholeTyped ==
  ASSUME NEW p, NEW draft, Whole(p, draft)
  PROVE  /\ p.rules \in Seq(ValidRule)
         /\ p.fields \in Seq(Definition)
         /\ p.changes \subseteq ChangeRecord
         /\ p.version \in 1..MaxVersion
         /\ DOMAIN p.rules = 1..Len(p.rules)
         /\ DOMAIN p.fields = 1..Len(p.fields)
         /\ DOMAIN p.evidence = 1..Len(p.evidence)
         /\ 1..Len(p.rules) \subseteq 1..Len(p.evidence)
         /\ \A x : x \in ToSet(p.fields) <=> \E i \in 1..Len(p.fields) : p.fields[i] = x
<1>1. p \in PackageType
  BY DEF Whole
<1>2. /\ p.rules \in Seq(ValidRule)
      /\ p.fields \in Seq(Definition)
      /\ p.evidence \in Seq(STRING)
      /\ p.changes \subseteq ChangeRecord
      /\ p.version \in 1..MaxVersion
  BY <1>1 DEF PackageType
<1>3. Len(p.rules) <= Len(p.evidence)
  BY DEF Whole
<1>4. Len(p.rules) \in Nat /\ Len(p.evidence) \in Nat
  BY <1>2, LenProperties
<1>5. 1..Len(p.rules) \subseteq 1..Len(p.evidence)
  BY <1>3, <1>4
<1> QED
  BY <1>2, <1>5, ListMembers

LEMMA TypeHolds ==
  ASSUME BuilderInvariant
  PROVE  TypeOK
<1>1. ASSUME NEW p, NEW draft, Whole(p, draft)
      PROVE  /\ p.version \in 1..MaxVersion
             /\ \A i \in DOMAIN p.fields : p.fields[i] \in Definition
             /\ \A c \in p.changes : c.evidence \in DOMAIN p.evidence
  <2>1. /\ p.fields \in Seq(Definition)
        /\ p.version \in 1..MaxVersion
        /\ DOMAIN p.fields = 1..Len(p.fields)
        /\ DOMAIN p.evidence = 1..Len(p.evidence)
        /\ 1..Len(p.rules) \subseteq 1..Len(p.evidence)
    BY <1>1, WholeTyped
  <2>2. \A i \in 1..Len(p.fields) : p.fields[i] \in Definition
    BY <2>1, ListMembers
  <2>3. \A c \in p.changes : c.evidence \in 1..Len(p.rules)
    BY <1>1 DEF Whole, TrueChange
  <2> QED
    BY <2>1, <2>2, <2>3
<1>2. ASSUME NEW p \in {previous, build.package} \ {None}
      PROVE  \E draft : Whole(p, draft)
  BY <1>2 DEF BuilderInvariant, PreviousInvariant, PackageInvariant
<1>3. AreApproved(Registered) /\ pending \subseteq Keys(build.reviews)
  BY DEF BuilderInvariant, BuildInvariant
<1>4. ASSUME NEW p \in {previous, build.package} \ {None}
      PROVE  /\ p.version \in 1..MaxVersion
             /\ \A i \in DOMAIN p.fields : p.fields[i] \in Definition
             /\ \A c \in p.changes : c.evidence \in DOMAIN p.evidence
  BY <1>1, <1>2
<1> QED
  BY <1>3, <1>4 DEF TypeOK

\* Only approved definitions are registered, and packages refer to their own
\* conditions and evidence.
THEOREM TypeCorrect == Spec => []TypeOK
<1>1. BuilderInvariant => TypeOK
  BY TypeHolds
<1> QED
  BY <1>1, BuilderInductive, PTL

\* Each definition of a package was approved before the run, or is what a review
\* of the run has made of it, or is a proposal whose key is still under review;
\* and each key under review is that of a definition of the package.
THEOREM ReviewsAreUsed == Spec => []ReviewedIsUsed
<1>1. BuilderInvariant => ReviewedIsUsed
  <2> SUFFICES ASSUME BuilderInvariant, build.package # None
               PROVE  /\ \A e \in ToSet(build.package.fields) :
                            Accounted(e, origin.definitions, build.reviews,
                                      build.proposals, pending)
                      /\ pending \subseteq Keys(ToSet(build.package.fields))
    BY DEF ReviewedIsUsed, Accounted
  <2> DEFINE fields == build.package.fields
  <2>1. /\ Whole(build.package, origin.draft)
        /\ \A i \in 1..Len(fields) :
              Accounted(fields[i], origin.definitions, build.reviews, build.proposals, pending)
        /\ ReviewUsed(fields, pending)
    BY DEF BuilderInvariant, PackageInvariant
  <2>2. \A x : x \in ToSet(fields) <=> \E i \in 1..Len(fields) : fields[i] = x
    BY <2>1, WholeTyped
  <2> HIDE DEF fields
  <2>3. \A e \in ToSet(fields) :
           Accounted(e, origin.definitions, build.reviews, build.proposals, pending)
    BY <2>1, <2>2
  <2>4. pending \subseteq Keys(ToSet(fields))
    BY <2>1, <2>2 DEF ReviewUsed, Keys
  <2> QED
    BY <2>3, <2>4 DEF fields
<1> QED
  BY <1>1, BuilderInductive, PTL

\* A published rule asks for fields that its version explains, approved and
\* each under one key.
THEOREM PublishedExplained == Spec => []PublishedIsExplained
<1>1. BuilderInvariant => PublishedIsExplained
  <2> SUFFICES ASSUME BuilderInvariant, previous # None
               PROVE  /\ \A f \in RuleFields(previous) :
                            \E d \in ToSet(previous.fields) : d.key = f
                      /\ \A d \in ToSet(previous.fields) : d.status = "approved"
                      /\ \A i, j \in DOMAIN previous.fields :
                            previous.fields[i].key = previous.fields[j].key => i = j
    BY DEF PublishedIsExplained
  <2>1. /\ Whole(previous, source)
        /\ \A i \in 1..Len(previous.fields) : previous.fields[i].status = "approved"
    BY DEF BuilderInvariant, PreviousInvariant
  <2>2. /\ DOMAIN previous.rules = 1..Len(previous.rules)
        /\ DOMAIN previous.fields = 1..Len(previous.fields)
        /\ \A x : x \in ToSet(previous.fields)
                     <=> \E i \in 1..Len(previous.fields) : previous.fields[i] = x
    BY <2>1, WholeTyped
  <2>3. ASSUME NEW f \in RuleFields(previous)
        PROVE  \E d \in ToSet(previous.fields) : d.key = f
    <3>1. PICK n \in 1..Len(previous.rules) : previous.rules[n].field = f
      BY <2>2 DEF RuleFields
    <3>2. PICK i \in 1..Len(previous.fields) : previous.fields[i].key = f
      BY <2>1, <3>1 DEF Whole, Explained
    <3> QED
      BY <2>2, <3>2
  <2>4. \A d \in ToSet(previous.fields) : d.status = "approved"
    BY <2>1, <2>2
  <2>5. \A i, j \in DOMAIN previous.fields :
           previous.fields[i].key = previous.fields[j].key => i = j
    BY <2>1, <2>2 DEF Whole, UniqueKeys
  <2> QED
    BY <2>3, <2>4, <2>5
<1> QED
  BY <1>1, BuilderInductive, PTL

\* A run without a review has found every quote and knows every field (D-006).
THEOREM SilentRunGrounded == Spec => []SilentRunIsGrounded
<1>1. BuilderInvariant => SilentRunIsGrounded
  <2> SUFFICES ASSUME BuilderInvariant, build # NoBuild, ~ReviewRequired(build)
               PROVE  /\ \A i \in ToSet(EvidenceItems(origin.draft)) :
                            QuoteFound(origin.corpus, i)
                      /\ ~origin.corpus.conflict /\ ~origin.corpus.otherTitle
                      /\ build.package # None =>
                            RuleFields(build.package) \subseteq Keys(Registered)
    BY DEF SilentRunIsGrounded
  <2>1. build.issues = {} /\ build.proposals = <<>>
    BY DEF ReviewRequired
  <2>2. /\ IsBuild(build)
        /\ pending \subseteq Keys(build.reviews)
        /\ ValidateEvidence(origin.corpus, origin.draft) \subseteq build.issues
    BY DEF BuilderInvariant, BuildInvariant
  <2>3. pending = {}
    BY <2>1, <2>2 DEF IsBuild, Keys
  <2>4. /\ CorpusIssues(origin.corpus) = {}
        /\ {i.quote : i \in {j \in ToSet(EvidenceItems(origin.draft)) :
                                ~QuoteFound(origin.corpus, j)}} = {}
    BY <2>1, <2>2 DEF ValidateEvidence
  <2>5. \A i \in ToSet(EvidenceItems(origin.draft)) : QuoteFound(origin.corpus, i)
    BY <2>4
  <2>6. ~origin.corpus.conflict /\ ~origin.corpus.otherTitle
    BY <2>4 DEF CorpusIssues
  <2>7. ASSUME build.package # None, NEW f \in RuleFields(build.package)
        PROVE  f \in Keys(Registered)
    <3> DEFINE p == build.package
    <3>1. /\ Whole(p, origin.draft)
          /\ RegisteredFields(p.fields, Registered)
          /\ PendingAsked(p.fields, pending)
      BY <2>7 DEF BuilderInvariant, PackageInvariant
    <3>2. DOMAIN p.rules = 1..Len(p.rules) /\ p.fields \in Seq(Definition)
      BY <3>1, WholeTyped
    <3> HIDE DEF p
    <3>3. PICK n \in 1..Len(p.rules) : p.rules[n].field = f
      BY <2>7, <3>2 DEF RuleFields, p
    <3>4. PICK i \in 1..Len(p.fields) : p.fields[i].key = f
      BY <3>1, <3>3 DEF Whole, Explained
    <3>5. p.fields[i].status \in {"approved", "pending"}
      <4>1. p.fields[i] \in Definition
        BY <3>2, ListMembers
      <4> QED
        BY <4>1 DEF Definition
    <3>6. p.fields[i].status = "approved"
      BY <2>3, <3>1, <3>5 DEF PendingAsked
    <3> QED
      BY <3>1, <3>4, <3>6 DEF RegisteredFields, Keys
  <2> QED
    BY <2>5, <2>6, <2>7
<1> QED
  BY <1>1, BuilderInductive, PTL

\* A change that is called expanded or narrowed compares one condition with
\* one, and tells what its bounds or its list do.
THEOREM ChangesTrueAlways == Spec => []ChangesTellTheTruth
<1>1. BuilderInvariant => ChangesTellTheTruth
  <2> SUFFICES ASSUME BuilderInvariant, build.package # None,
                      NEW c \in build.package.changes, c.type \in {"expanded", "narrowed"},
                      NEW answers
               PROVE  IF c.type = "expanded"
                      THEN Accepts(c.before[1], answers) \subseteq Accepts(c.after[1], answers)
                      ELSE Accepts(c.after[1], answers) \subseteq Accepts(c.before[1], answers)
    BY DEF ChangesTellTheTruth
  <2>1. Whole(build.package, origin.draft)
    BY DEF BuilderInvariant, PackageInvariant
  <2>2. c \in ChangeRecord /\ c.type = ChangeType(c.before, c.after)
    BY <2>1, WholeTyped DEF Whole, TrueChange
  <2>3. c.before \in Seq(ValidRule) /\ c.after \in Seq(ValidRule)
    BY <2>2 DEF ChangeRecord
  <2>4. /\ Len(c.before) = 1 /\ Len(c.after) = 1
        /\ c.type = SingleRuleChange(c.before[1], c.after[1])
    BY <2>2 DEF ChangeType
  <2>5. c.before[1] \in ValidRule /\ c.after[1] \in ValidRule
    BY <2>3, <2>4, ListMembers
  <2>6. HasOperands(c.before[1]) /\ HasOperands(c.after[1])
    BY <2>5 DEF ValidRule
  <2> QED
    BY <2>4, <2>6, SingleChangeIsTrue
<1> QED
  BY <1>1, BuilderInductive, PTL

\* A change that is no removal cites the evidence of a condition on its field,
\* whatever keys the reviews have chosen since.
THEOREM ChangesCiteTheirField == Spec => []ChangeCitesItsField
<1>1. BuilderInvariant => ChangeCitesItsField
  BY DEF BuilderInvariant, PackageInvariant, Whole, TrueChange, ChangeCitesItsField
<1> QED
  BY <1>1, BuilderInductive, PTL

\* The rules of a draft whose labels are recognised are those of the version.
LEMMA RebuiltRules ==
  ASSUME NEW version, NEW draft, Whole(version, draft),
         NEW S, S \subseteq Definition, Recognised(S, draft, version),
         \A i \in 1..Len(version.fields) : version.fields[i].status = "approved",
         \A d \in ToSet(version.fields) : d.status = "approved" => d \in S
  PROVE  /\ FoundBy(S, draft).proposals = <<>>
         /\ Rules(draft, FoundBy(S, draft)) = version.rules
<1> DEFINE cs    == Conditions(draft)
           found == FoundBy(S, draft)
           rules == Rules(draft, found)
<1>0. draft \in Draft
  BY DEF Whole
<1>1. /\ cs \in Seq(Candidate)
      /\ Len(cs) = Len(draft.conditions)
      /\ \A i \in 1..Len(draft.conditions) :
            cs[i].label = draft.conditions[i].label /\ cs[i].type = draft.conditions[i].type
  BY <1>0, DraftConditions
<1>2. \A i \in 1..Len(cs) : Recognises(S, cs[i])
  <2> SUFFICES ASSUME NEW i \in 1..Len(cs) PROVE Recognises(S, cs[i])
    OBVIOUS
  <2>1. cs[i] \in ToSet(cs)
    BY <1>1, ListMembers
  <2> QED
    BY <2>1 DEF Recognised, Recognises
<1>3. found = ResolveFields(S, cs)
  BY DEF FoundBy
<1> HIDE DEF cs
<1>4. /\ found.proposals = <<>>
      /\ \A i \in 1..Len(cs) : Matching(S, cs[i]) = {found.resolved[i]}
  <2>1. /\ ResolveFields(S, cs).proposals = <<>>
        /\ \A i \in 1..Len(cs) : Matching(S, cs[i]) = {ResolveFields(S, cs).resolved[i]}
    BY <1>1, <1>2, FieldsRecognised
  <2> HIDE DEF found
  <2> QED
    BY <1>3, <2>1
<1>5. /\ found.resolved \in Seq(Definition)
      /\ Len(found.resolved) = Len(draft.conditions)
  <2>1. Found(found, S, cs, Len(cs))
    BY <1>1, <1>3, FieldsFound
  <2> QED
    BY <1>1, <2>1 DEF Found, FoundType
<1> HIDE DEF found
<1>6. RulesOfDraft(rules, draft, found)
  BY <1>0, <1>5, RulesBuilt
<1> HIDE DEF rules
<1>7. /\ version.rules \in Seq(ValidRule)
      /\ Len(version.rules) = Len(RuleConditions(draft))
      /\ \A n \in 1..Len(version.rules) :
            version.rules[n] = EligibilityRule(RuleConditions(draft)[n], version.rules[n].field)
  BY WholeTyped DEF Whole, FromDraft
<1>8. rules \in Seq(ValidRule) /\ Len(rules) = Len(version.rules)
  BY <1>6, <1>7 DEF RulesOfDraft
\* The one definition that the label of the condition leads to is the one that
\* the rule of the version asks for.
<1>9. ASSUME NEW n \in 1..Len(rules) PROVE rules[n] = version.rules[n]
  <2>1. PICK i \in 1..Len(draft.conditions) :
           /\ RuleConditions(draft)[n] = draft.conditions[i]
           /\ rules[n] = EligibilityRule(draft.conditions[i], found.resolved[i].key)
    BY <1>6 DEF RulesOfDraft
  <2>2. n \in 1..Len(version.rules) /\ DOMAIN version.rules = 1..Len(version.rules)
    BY <1>8, WholeTyped
  <2>3. PICK d \in ToSet(version.fields) :
           /\ d.key = version.rules[n].field
           /\ Fingerprint(d) = Fingerprint(RuleConditions(draft)[n])
    BY <2>2 DEF Recognised
  <2>4. d.status = "approved"
    <3>1. PICK j \in 1..Len(version.fields) : version.fields[j] = d
      BY WholeTyped
    <3> QED
      BY <3>1
  <2>5. d \in S
    BY <2>3, <2>4
  <2>6. Fingerprint(d) = Fingerprint(cs[i])
    BY <1>1, <2>1, <2>3 DEF Fingerprint
  <2>7. d \in Matching(S, cs[i])
    BY <2>5, <2>6 DEF Matching
  <2>8. found.resolved[i] = d
    BY <1>1, <1>4, <2>1, <2>7
  <2> QED
    BY <1>7, <2>1, <2>2, <2>3, <2>8
<1>10. rules = version.rules
  <2>1. /\ rules = [n \in 1..Len(rules) |-> rules[n]]
        /\ version.rules = [n \in 1..Len(rules) |-> version.rules[n]]
    BY <1>7, <1>8, LenProperties
  <2> QED
    BY <1>9, <2>1
<1> QED
  BY <1>4, <1>10 DEF found, rules

\* A notice that says what the published version says, in labels that lead to
\* its fields, brings neither changes nor proposals.
THEOREM RebuildsAreQuiet == Spec => []RebuildIsQuiet
<1>1. BuilderInvariant => RebuildIsQuiet
  <2> SUFFICES ASSUME BuilderInvariant, previous # None, NEW read \in Readings,
                      NEW S, S = Definitions(previous, read),
                      Recognised(S, source, previous), NEW corpus \in Corpus
               PROVE  /\ Built(previous, S, corpus, source).proposals = <<>>
                      /\ Built(previous, S, corpus, source).package.changes = {}
    BY DEF RebuildIsQuiet
  <2> DEFINE found == FoundBy(S, source)
             new   == NewPackage(source, found)
             again == Built(previous, S, corpus, source)
  <2>1. /\ Whole(previous, source)
        /\ \A i \in 1..Len(previous.fields) : previous.fields[i].status = "approved"
        /\ S \subseteq Definition
        /\ \A d \in ToSet(previous.fields) : d.status = "approved" => d \in S
    BY DefinitionsApproved DEF BuilderInvariant, PreviousInvariant
  <2>2. found.proposals = <<>> /\ Rules(source, found) = previous.rules
    BY <2>1, RebuiltRules
  <2>3. previous.rules # <<>>
    BY <2>1 DEF Whole
  <2>4. /\ again = [package |-> again.package, issues |-> again.issues,
                    proposals |-> found.proposals, reviews |-> ReviewsOf(found)]
        /\ again.package = new \/ again.package = ApplyPolicyDiff(previous, new)
    BY <2>2, <2>3, BuiltIs
  <2>5. new.rules = previous.rules /\ new.changes = {}
    BY <2>2 DEF NewPackage
  <2>6. ApplyPolicyDiff(previous, new).changes = ConditionChanges(previous, new)
    BY DEF ApplyPolicyDiff, NewPackage
  <2>7. ConditionChanges(previous, new) = {}
    <3> HIDE DEF new
    <3>1. \A f : RulesOf(previous, f) = RulesOf(new, f)
      BY <2>5 DEF RulesOf
    <3> QED
      BY <3>1 DEF ConditionChanges
  <2> HIDE DEF found, new, again
  <2>8. again.proposals = <<>> /\ again.package.changes = {}
    BY <2>2, <2>4, <2>5, <2>6, <2>7
  <2> QED
    BY <2>8 DEF again
<1> QED
  BY <1>1, BuilderInductive, PTL

===============================================================================
