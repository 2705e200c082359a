------------------------------ MODULE CitizenApp ------------------------------
(***************************************************************************)
(* The citizen app: what is on the screen, what is stored on the device,   *)
(* and the requests to IndexedDB between them (App.tsx, profileStore,      *)
(* hiddenPolicyStore, favoritePolicyStore).                                *)
(*                                                                         *)
(* Every operation puts a request in the queue of a store; the requests of *)
(* a store are done in order, those of different stores in any order.      *)
(* What the app does when a request is done belongs to the step that does  *)
(* it.  One tab is open.                                                   *)
(***************************************************************************)
EXTENDS Matcher, FiniteSets

CONSTANTS
    Policy,        \* policies that may be approved
    RuleOf,        \* the rule of each
    Approved,      \* fields with an approved definition
    Core,          \* fields that the form asks for
    MaxDay,        \* bounds on the days,
    MaxUpsets,     \* on the resets, reloads and other failures together,
    MaxRequests    \* and on the requests in the queues, a reset's apart

VARIABLES
    day,           \* today
    stored,        \* the three stores
    screen,        \* the state of the app: what it believes is stored
    policies,      \* the policies it has loaded
    loaded,        \* what it has read at the start, or NotLoading
    view,          \* "feed", or a form: "start", "edit"
    form,          \* the profile the form was opened with
    saving,        \* an answer is being saved
    queue,         \* the requests of each store
    awaiting,      \* the stores whose deletion a reset waits for
    undisturbed,   \* see Disturb
    upsets         \* the resets, reloads and other failures so far

vars == <<day, stored, screen, policies, loaded, view, form, saving, queue,
          awaiting, undisturbed, upsets>>

CONSTANT NotLoading

AnswerType == [value : Value, until : Nat \cup {NoEnd}]

ProfileType == [Field -> AnswerType \cup {Unanswered}]

StoreType == [profile : ProfileType, hidden : SUBSET Policy, favorites : SUBSET Policy]

ASSUME AppAssumption ==
    /\ Core \subseteq Field
    /\ NoQuestion \notin Field
    /\ RuleOf \in [Policy -> Rule]
    /\ NotLoading \notin StoreType

Store == {"profile", "hidden", "favorites"}

NoProfile == [f \in Field |-> Unanswered]

NothingStored == [profile |-> NoProfile, hidden |-> {}, favorites |-> {}]

Quiet == \A s \in Store : queue[s] = <<>>

Ready == loaded = NotLoading

Upset == upsets < MaxUpsets /\ upsets' = upsets + 1

Init ==
    /\ day = 0
    /\ stored = NothingStored
    /\ screen = NothingStored
    /\ policies = {}
    /\ loaded = stored
    /\ view = "feed"
    /\ form = NoProfile
    /\ saving = FALSE
    /\ queue = [s \in Store |-> <<>>]
    /\ awaiting = {}
    /\ undisturbed = TRUE
    /\ upsets = 0
-------------------------------------------------------------------------------
(***************************************************************************)
(* The start.                                                              *)
(***************************************************************************)
\* The three stores have been read when the app started; it shows what they
\* had once the policies have arrived too, or their request has failed.
LoadDone ==
    /\ ~Ready
    /\ policies' \in {{}, Policy}
    /\ screen' = loaded
    /\ loaded' = NotLoading
    /\ IF loaded.profile = NoProfile
       THEN view' = "start" /\ form' = NoProfile
       ELSE UNCHANGED <<view, form>>
    /\ UNCHANGED <<day, stored, saving, queue, awaiting, undisturbed, upsets>>

\* Nothing of what a start loads is shown when a store cannot be read.
LoadFails ==
    /\ ~Ready
    /\ Upset
    /\ loaded' = NotLoading
    /\ undisturbed' = FALSE
    /\ UNCHANGED <<day, stored, screen, policies, view, form, saving, queue, awaiting>>

\* The page is loaded anew; requests that are not done are lost.
Reload ==
    /\ Upset
    /\ screen' = NothingStored
    /\ policies' = {}
    /\ loaded' = stored
    /\ view' = "feed"
    /\ form' = NoProfile
    /\ saving' = FALSE
    /\ queue' = [s \in Store |-> <<>>]
    /\ awaiting' = {}
    /\ undisturbed' = TRUE
    /\ UNCHANGED <<day, stored>>
-------------------------------------------------------------------------------
(***************************************************************************)
(* What the citizen does.                                                  *)
(***************************************************************************)
Verdict(p) == EvaluateRule(RuleOf[p], screen.profile, day)

Available == {p \in policies : p \notin screen.hidden}

Visible == {p \in Available : Verdict(p) # "NO"}

Question(p) == SelectNextQuestion(RuleOf[p], Approved, screen.profile, day)

InFeed == Ready /\ view = "feed"

Deletion == [kind |-> "delete"]

RequestType ==
    [profile   |-> [kind : {"answer", "form"}, fields : SUBSET Field, profile : ProfileType],
     hidden    |-> [kind : {"hide"}, policy : Policy] \cup {[kind |-> "restore"]},
     favorites |-> [kind : {"mark", "unmark"}, policy : Policy]]

Requests ==
    FoldSet(LAMBDA s, n : n + Len(SelectSeq(queue[s], LAMBDA r : r # Deletion)), 0, Store)

Request(s, r) ==
    /\ Requests < MaxRequests
    /\ queue' = [queue EXCEPT ![s] = Append(@, r)]

\* The screen and the stores may part for good where an operation overlaps
\* another one that replaces what it has read: a form that is opened before
\* the profile is there or while an answer is being saved, an answer while a
\* form is being saved, an operation that is begun during a reset, a reset
\* before the start is done or that fails in part, a start that fails.
Disturb(overlap) == undisturbed' = (undisturbed /\ ~overlap)

\* The question of a policy is answered; no other can be until it is saved.
Answer(p, value) ==
    /\ InFeed /\ ~saving
    /\ p \in Visible
    /\ Question(p) \in Field
    /\ Request("profile",
               [kind    |-> "answer",
                fields  |-> {Question(p)},
                profile |-> RecordAnswer(screen.profile, Question(p), value, day)])
    /\ saving' = TRUE
    /\ Disturb(awaiting # {} \/ queue["profile"] # <<>>)
    /\ UNCHANGED <<day, stored, screen, policies, loaded, view, form, awaiting, upsets>>

Hide(p) ==
    /\ InFeed
    /\ p \in Visible
    /\ Request("hidden", [kind |-> "hide", policy |-> p])
    /\ Disturb(awaiting # {})
    /\ UNCHANGED <<day, stored, screen, policies, loaded, view, form, saving, awaiting, upsets>>

\* Offered when every policy is hidden.
RestorePolicies ==
    /\ InFeed
    /\ policies # {} /\ Available = {}
    /\ Request("hidden", [kind |-> "restore"])
    /\ Disturb(awaiting # {})
    /\ UNCHANGED <<day, stored, screen, policies, loaded, view, form, saving, awaiting, upsets>>

ToggleFavorite(p) ==
    /\ InFeed
    /\ p \in Visible
    /\ Request("favorites",
               [kind   |-> IF p \in screen.favorites THEN "unmark" ELSE "mark",
                policy |-> p])
    /\ Disturb(awaiting # {})
    /\ UNCHANGED <<day, stored, screen, policies, loaded, view, form, saving, awaiting, upsets>>

\* One reset at a time.
ResetLocalData ==
    /\ view = "feed"
    /\ Upset
    /\ \A s \in Store : Deletion \notin ToSet(queue[s])
    /\ queue' = [s \in Store |-> Append(queue[s], Deletion)]
    /\ awaiting' = Store
    /\ Disturb(~Ready)
    /\ UNCHANGED <<day, stored, screen, policies, loaded, view, form, saving>>

\* The form of the profile page, which is there before the profile is.
OpenForm ==
    /\ view = "feed"
    /\ view' = "edit"
    /\ form' = screen.profile
    /\ Disturb(~Ready \/ queue["profile"] # <<>>)
    /\ UNCHANGED <<day, stored, screen, policies, loaded, saving, queue, awaiting, upsets>>

CloseForm ==
    /\ view = "edit"
    /\ view' = "feed"
    /\ form' = NoProfile
    /\ UNCHANGED <<day, stored, screen, policies, loaded, saving, queue, awaiting,
                   undisturbed, upsets>>

\* Every field of the form has its answer, on top of what the form was opened
\* with.
Filled(answers) ==
    [f \in Field |-> IF f \in Core THEN AnswerOn(f, answers[f], day) ELSE form[f]]

SubmitForm(answers) ==
    /\ view \in {"start", "edit"}
    /\ \A i \in DOMAIN queue["profile"] : queue["profile"][i].kind # "form"
    /\ Request("profile", [kind |-> "form", fields |-> Core, profile |-> Filled(answers)])
    /\ Disturb(awaiting # {})
    /\ UNCHANGED <<day, stored, screen, policies, loaded, view, form, saving, awaiting, upsets>>

NextDay ==
    /\ day < MaxDay
    /\ day' = day + 1
    /\ UNCHANGED <<stored, screen, policies, loaded, view, form, saving, queue, awaiting,
                   undisturbed, upsets>>
-------------------------------------------------------------------------------
(***************************************************************************)
(* What the stores do.                                                     *)
(***************************************************************************)
\* The same for the stores and for the screen.
Applied(state, r) ==
    CASE r.kind \in {"answer", "form"} -> [state EXCEPT !.profile = r.profile]
      [] r.kind = "hide"               -> [state EXCEPT !.hidden = @ \cup {r.policy}]
      [] r.kind = "restore"            -> [state EXCEPT !.hidden = {}]
      [] r.kind = "mark"               -> [state EXCEPT !.favorites = @ \cup {r.policy}]
      [] r.kind = "unmark"             -> [state EXCEPT !.favorites = @ \ {r.policy}]

\* Mutant: a mark that is taken away stays in the store.
StoredWithoutUnmark(r) == IF r.kind = "unmark" THEN stored ELSE Applied(stored, r)

StoredAfter(r) == Applied(stored, r)

Taken(s) == queue' = [queue EXCEPT ![s] = Tail(@)]

\* Mutant: the questions stay locked.
AfterForm(r) ==
    /\ IF r.kind = "form"
       THEN view' = "feed" /\ form' = NoProfile
       ELSE UNCHANGED <<view, form>>
    /\ UNCHANGED saving

AfterSaving(r) ==
    /\ saving' = (saving /\ r.kind # "answer")
    /\ IF r.kind = "form"
       THEN view' = "feed" /\ form' = NoProfile
       ELSE UNCHANGED <<view, form>>

Save(s) ==
    /\ queue[s] # <<>>
    /\ LET r == Head(queue[s]) IN
       /\ r # Deletion
       /\ stored' = StoredAfter(r)
       /\ screen' = Applied(screen, r)
       /\ AfterSaving(r)
    /\ Taken(s)
    /\ UNCHANGED <<day, policies, loaded, awaiting, undisturbed, upsets>>

\* The last of the three deletions empties the screen.
Delete(s) ==
    /\ queue[s] # <<>>
    /\ Head(queue[s]) = Deletion
    /\ stored' = [stored EXCEPT ![s] = NothingStored[s]]
    /\ awaiting' = awaiting \ {s}
    /\ IF awaiting = {s}
       THEN screen' = NothingStored /\ view' = "start" /\ form' = NoProfile
       ELSE UNCHANGED <<screen, view, form>>
    /\ Taken(s)
    /\ UNCHANGED <<day, policies, loaded, saving, undisturbed, upsets>>

\* A request fails: nothing is stored and the screen stays; after a deletion
\* that fails the reset does not go on.  MaxUpsets bounds the resets already,
\* and so their deletions.
Fail(s) ==
    /\ queue[s] # <<>>
    /\ LET r == Head(queue[s]) IN
       /\ IF r = Deletion THEN UNCHANGED upsets ELSE Upset
       /\ saving' = (saving /\ r.kind # "answer")
       /\ awaiting' = IF r = Deletion THEN {} ELSE awaiting
       /\ Disturb(r = Deletion)
    /\ Taken(s)
    /\ UNCHANGED <<day, stored, screen, policies, loaded, view, form>>
-------------------------------------------------------------------------------
Next ==
    \/ LoadDone
    \/ LoadFails
    \/ Reload
    \/ \E p \in Policy, value \in Value : Answer(p, value)
    \/ \E p \in Policy : Hide(p)
    \/ RestorePolicies
    \/ \E p \in Policy : ToggleFavorite(p)
    \/ ResetLocalData
    \/ OpenForm
    \/ CloseForm
    \/ \E answers \in [Core -> Value] : SubmitForm(answers)
    \/ NextDay
    \/ \E s \in Store : Save(s)
    \/ \E s \in Store : Delete(s)
    \/ \E s \in Store : Fail(s)

Spec == Init /\ [][Next]_vars

\* IndexedDB does its requests, the start comes to an end (its requests to the
\* server have a time limit), and a citizen who is asked again and again
\* answers: the last two are an assumption on the citizen, not on the code.
FairSpec ==
    /\ Spec
    /\ WF_vars(LoadDone)
    /\ \A s \in Store : WF_vars(Save(s) \/ Delete(s))
    /\ SF_vars(\E p \in Policy, value \in Value : Answer(p, value))
    /\ SF_vars(\E answers \in [Core -> Value] : SubmitForm(answers))
-------------------------------------------------------------------------------
(***************************************************************************)
(* Properties.                                                             *)
(***************************************************************************)
\* Forms are shown only where there is a profile to fill in, and while an
\* answer is being saved exactly one is in the queue.
TypeOK ==
    /\ day \in Nat
    /\ stored \in StoreType /\ screen \in StoreType
    /\ loaded \in StoreType \cup {NotLoading}
    /\ policies \in {{}, Policy}
    /\ view \in {"feed", "start", "edit"} /\ form \in ProfileType
    /\ queue = [s \in Store |-> queue[s]]
    /\ \A s \in Store : queue[s] \in Seq(RequestType[s] \cup {Deletion})
    /\ saving \in BOOLEAN /\ undisturbed \in BOOLEAN
    /\ awaiting \subseteq Store
    /\ \A s \in awaiting : Deletion \in ToSet(queue[s])
    /\ saving <=> \E i \in DOMAIN queue["profile"] : queue["profile"][i].kind = "answer"

\* A card says YES or NO only if no answer that the citizen may still give,
\* and none that is out of date, can change it (MATCHING_RULES.md).
VerdictIsFinal == \A p \in policies : IsFinal(RuleOf[p], screen.profile, day)

\* When every request is done, the screen shows what is stored, unless one of
\* the overlaps of Disturb has occurred since the page was loaded.
ScreenIsStored == Ready /\ Quiet /\ undisturbed => screen = stored

\* Saving an answer or a form leaves the answers to other fields alone, the
\* ones that were given a moment before included; only a reset takes answers
\* away.  The same exception.
OthersKept ==
    [][undisturbed' =>
          \A f \in Field : stored.profile[f] # stored'.profile[f] =>
             LET r == Head(queue["profile"]) IN
             r = Deletion \/ f \in r.fields]_vars

\* The questions come to an end: a citizen who answers is left with none.
QuestionsEnd ==
    <>[]undisturbed => <>[](\A p \in Visible : Question(p) = NoQuestion)
================================================================================
