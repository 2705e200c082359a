--------------------------- MODULE CitizenAppProofs ---------------------------
(***************************************************************************)
(* What holds of the screen, the three stores and the verdicts for every   *)
(* set of policies and rules, and however many requests, resets and        *)
(* failures there are.                                                     *)
(***************************************************************************)
EXTENDS CitizenApp, TLAPS

\* At most one answer is being saved.
OneAnswer ==
    \A i, j \in DOMAIN queue["profile"] :
       queue["profile"][i].kind = "answer" /\ queue["profile"][j].kind = "answer" => i = j

\* Before the start is done nothing has happened to what it has read.
NothingBegun ==
    ~Ready => /\ loaded = stored
              /\ awaiting = {}
              /\ view = "feed"
              /\ Quiet

\* A deletion is the last request of its store, and the reset waits for it.
DeletionsLast ==
    \A s \in Store :
       /\ s \in awaiting => queue[s] # <<>>
       /\ \A i \in DOMAIN queue[s] :
             queue[s][i] = Deletion <=> s \in awaiting /\ i = Len(queue[s])

\* A store that a reset has emptied stays so while it waits for others.
DeletedStaysEmpty ==
    awaiting # {} =>
       \A s \in Store \ awaiting : queue[s] = <<>> /\ stored[s] = NothingStored[s]

\* A store that no reset has emptied is the one that is shown.
ScreenFollows ==
    Ready => \A s \in Store : s \in awaiting \/ awaiting = {} => screen[s] = stored[s]

\* One answer or form is saved at a time, and it agrees with the store on the
\* fields it is not about.
SavesAreCurrent ==
    \A i \in DOMAIN queue["profile"] : queue["profile"][i] # Deletion =>
       /\ i = 1
       /\ \A f \in Field \ queue["profile"][i].fields :
             queue["profile"][i].profile[f] = stored.profile[f]

\* A form that is open was opened with what is stored, and no answer is being
\* saved behind it.
FormIsCurrent ==
    Ready /\ view # "feed" /\ awaiting = {} =>
       /\ form = stored.profile
       /\ \A i \in DOMAIN queue["profile"] : queue["profile"][i].kind # "answer"

InStep ==
    /\ NothingBegun
    /\ DeletionsLast
    /\ DeletedStaysEmpty
    /\ ScreenFollows
    /\ SavesAreCurrent
    /\ FormIsCurrent

AppInvariant == undisturbed => InStep

-------------------------------------------------------------------------------
(***************************************************************************)
(* Requests.                                                               *)
(***************************************************************************)
LEMMA TailOf ==
    ASSUME NEW S, NEW q \in Seq(S), q # <<>>
    PROVE  /\ Tail(q) \in Seq(S) /\ Len(Tail(q)) = Len(q) - 1
           /\ Head(q) = q[1] /\ 1 \in DOMAIN q /\ q[1] \in S
           /\ \A i \in DOMAIN Tail(q) : i + 1 \in DOMAIN q /\ Tail(q)[i] = q[i + 1]
           /\ \A i \in DOMAIN q : i # 1 => i - 1 \in DOMAIN Tail(q)
  OBVIOUS

LEMMA AppendOf ==
    ASSUME NEW S, NEW q \in Seq(S), NEW r \in S
    PROVE  /\ Append(q, r) \in Seq(S) /\ Len(Append(q, r)) = Len(q) + 1
           /\ Append(q, r) # <<>>
           /\ Append(q, r)[Len(q) + 1] = r /\ Len(q) + 1 \in DOMAIN Append(q, r)
           /\ \A i \in DOMAIN Append(q, r) :
                 \/ i \in DOMAIN q /\ Append(q, r)[i] = q[i]
                 \/ i = Len(q) + 1
           /\ \A i \in DOMAIN q : i \in DOMAIN Append(q, r) /\ Append(q, r)[i] = q[i]
  OBVIOUS

LEMMA ElementIn ==
    ASSUME NEW S, NEW q \in Seq(S)
    PROVE  \A i \in DOMAIN q : q[i] \in S
  OBVIOUS

\* A request is for one store.
LEMMA RequestKinds ==
    /\ \A r \in RequestType["profile"] : r.kind \in {"answer", "form"} /\ r # Deletion
    /\ \A r \in RequestType["hidden"] : r.kind \in {"hide", "restore"} /\ r # Deletion
    /\ \A r \in RequestType["favorites"] : r.kind \in {"mark", "unmark"} /\ r # Deletion
  BY DEF RequestType, Deletion

\* What a request does to a state of the stores concerns its store only.
LEMMA AppliedType ==
    ASSUME NEW st \in StoreType, NEW s \in Store, NEW r \in RequestType[s]
    PROVE  /\ Applied(st, r) \in StoreType
           /\ \A t \in Store \ {s} : Applied(st, r)[t] = st[t]
<1>1. CASE s = "profile"
  <2>1. Applied(st, r) = [profile |-> r.profile, hidden |-> st.hidden, favorites |-> st.favorites]
    BY <1>1, RequestKinds DEF Applied, StoreType
  <2> QED
    BY <1>1, <2>1 DEF StoreType, RequestType, Store
<1>2. CASE s = "hidden"
  <2>1. \E P \in SUBSET Policy : Applied(st, r) =
           [profile |-> st.profile, hidden |-> P, favorites |-> st.favorites]
    <3>1. CASE r.kind = "hide"
      BY <1>2, <3>1 DEF Applied, StoreType, RequestType
    <3>2. CASE r.kind = "restore"
      BY <1>2, <3>2 DEF Applied, StoreType, RequestType
    <3> QED
      BY <1>2, <3>1, <3>2, RequestKinds
  <2> QED
    BY <1>2, <2>1 DEF StoreType, Store
<1>3. CASE s = "favorites"
  <2>1. \E P \in SUBSET Policy : Applied(st, r) =
           [profile |-> st.profile, hidden |-> st.hidden, favorites |-> P]
    <3>1. CASE r.kind = "mark"
      BY <1>3, <3>1 DEF Applied, StoreType, RequestType
    <3>2. CASE r.kind = "unmark"
      BY <1>3, <3>2 DEF Applied, StoreType, RequestType
    <3> QED
      BY <1>3, <3>1, <3>2, RequestKinds
  <2> QED
    BY <1>3, <2>1 DEF StoreType, Store
<1> QED
  BY <1>1, <1>2, <1>3 DEF Store

\* Where two states agree on its store, they agree on it afterwards.
LEMMA AppliedAlike ==
    ASSUME NEW st \in StoreType, NEW sc \in StoreType,
           NEW s \in Store, NEW r \in RequestType[s], st[s] = sc[s]
    PROVE  Applied(st, r)[s] = Applied(sc, r)[s]
<1>1. CASE s = "profile"
  BY <1>1, RequestKinds DEF Applied, StoreType
<1>2. CASE s = "hidden"
  BY <1>2, RequestKinds DEF Applied, StoreType
<1>3. CASE s = "favorites"
  BY <1>3, RequestKinds DEF Applied, StoreType
<1> QED
  BY <1>1, <1>2, <1>3 DEF Store

LEMMA AppliedProfile ==
    ASSUME NEW st \in StoreType, NEW r \in RequestType["profile"]
    PROVE  Applied(st, r).profile = r.profile
  BY RequestKinds DEF Applied, StoreType

\* Two states with the same stores are the same.
LEMMA SameStores ==
    ASSUME NEW st \in StoreType, NEW sc \in StoreType, \A s \in Store : st[s] = sc[s]
    PROVE  st = sc
  BY DEF StoreType, Store

LEMMA NothingTyped ==
    /\ NoProfile \in ProfileType
    /\ NothingStored \in StoreType
    /\ \A s \in Store : <<>> \in Seq(RequestType[s] \cup {Deletion})
  BY DEF NoProfile, NothingStored, ProfileType, StoreType

LEMMA AnswersTyped ==
    ASSUME NEW f \in Field, NEW v \in Value, NEW d \in Nat
    PROVE  AnswerOn(f, v, d) \in AnswerType
  BY ValidityIsADay DEF AnswerOn, AnswerType

LEMMA Appended ==
    ASSUME TypeOK, NEW s \in Store, NEW r \in RequestType[s] \cup {Deletion},
           queue' = [queue EXCEPT ![s] = Append(@, r)]
    PROVE  /\ queue' = [t \in Store |-> queue'[t]]
           /\ \A t \in Store : queue'[t] \in Seq(RequestType[t] \cup {Deletion})
           /\ queue'[s] = Append(queue[s], r)
           /\ \A t \in Store : t # s => queue'[t] = queue[t]
           /\ \A t \in Store : Deletion \in ToSet(queue[t]) => Deletion \in ToSet(queue'[t])
<1>1. /\ queue' = [t \in Store |-> queue'[t]]
      /\ queue'[s] = Append(queue[s], r)
      /\ \A t \in Store : t # s => queue'[t] = queue[t]
  BY DEF TypeOK
<1>2. queue[s] \in Seq(RequestType[s] \cup {Deletion})
  BY DEF TypeOK
<1>3. \A t \in Store : queue'[t] \in Seq(RequestType[t] \cup {Deletion})
  BY <1>1, <1>2, AppendOf DEF TypeOK
<1>4. Deletion \in ToSet(queue[s]) => Deletion \in ToSet(queue'[s])
  BY <1>1, <1>2, AppendOf DEF ToSet
<1> QED
  BY <1>1, <1>3, <1>4

LEMMA TakenFrom ==
    ASSUME TypeOK, NEW s \in Store, queue[s] # <<>>, Taken(s)
    PROVE  /\ queue' = [t \in Store |-> queue'[t]]
           /\ \A t \in Store : queue'[t] \in Seq(RequestType[t] \cup {Deletion})
           /\ queue'[s] = Tail(queue[s])
           /\ \A t \in Store : t # s => queue'[t] = queue[t]
           /\ Head(queue[s]) = queue[s][1]
           /\ queue[s][1] \in RequestType[s] \cup {Deletion}
           /\ Deletion \in ToSet(queue[s]) /\ queue[s][1] # Deletion =>
                 Deletion \in ToSet(queue'[s])
<1>1. /\ queue' = [t \in Store |-> queue'[t]]
      /\ queue'[s] = Tail(queue[s])
      /\ \A t \in Store : t # s => queue'[t] = queue[t]
  BY DEF TypeOK, Taken
<1>2. queue[s] \in Seq(RequestType[s] \cup {Deletion})
  BY DEF TypeOK
<1>3. \A t \in Store : queue'[t] \in Seq(RequestType[t] \cup {Deletion})
  <2>1. Tail(queue[s]) \in Seq(RequestType[s] \cup {Deletion})
    BY <1>2, TailOf
  <2> QED
    BY <1>1, <2>1 DEF TypeOK
<1>4. ASSUME Deletion \in ToSet(queue[s]), queue[s][1] # Deletion
      PROVE  Deletion \in ToSet(queue'[s])
  <2>1. PICK i \in DOMAIN queue[s] : queue[s][i] = Deletion
    BY <1>4 DEF ToSet
  <2>2. i # 1 /\ i - 1 \in DOMAIN Tail(queue[s])
    BY <1>2, <1>4, <2>1, TailOf
  <2>3. Tail(queue[s])[i - 1] = queue[s][(i - 1) + 1]
    BY <1>2, <2>2, TailOf
  <2>4. i \in Nat
    BY <1>2, <2>1
  <2> QED
    BY <1>1, <2>1, <2>2, <2>3, <2>4 DEF ToSet
<1> QED
  BY <1>1, <1>2, <1>3, <1>4, TailOf

-------------------------------------------------------------------------------
(***************************************************************************)
(* Types.                                                                  *)
(***************************************************************************)
Typed == TypeOK /\ OneAnswer

LEMMA InitTyped == Init => Typed
<1> SUFFICES ASSUME Init
             PROVE  Typed
  OBVIOUS
<1>1. queue["profile"] = <<>> /\ "profile" \in Store
  BY DEF Init, Store
<1>2. OneAnswer /\ ~\E i \in DOMAIN queue["profile"] : queue["profile"][i].kind = "answer"
  BY <1>1 DEF OneAnswer
<1>3. \A s \in Store : queue[s] \in Seq(RequestType[s] \cup {Deletion})
  BY NothingTyped DEF Init
<1> QED
  BY <1>2, <1>3, NothingTyped DEF Init, Typed, TypeOK

\* A request is queued; the questions are locked by an answer only.
LEMMA RequestTyped ==
    ASSUME Typed, NEW s \in Store, NEW r \in RequestType[s],
           queue' = [queue EXCEPT ![s] = Append(@, r)],
           r.kind = "answer" => ~saving /\ saving' = TRUE,
           r.kind # "answer" => saving' = saving,
           undisturbed' \in BOOLEAN,
           UNCHANGED <<day, stored, screen, policies, loaded, view, form, awaiting>>
    PROVE  Typed'
<1> USE DEF Typed
<1>1. "profile" \in Store
  BY DEF Store
<1>2. /\ queue' = [t \in Store |-> queue'[t]]
      /\ \A t \in Store : queue'[t] \in Seq(RequestType[t] \cup {Deletion})
      /\ queue'[s] = Append(queue[s], r)
      /\ \A t \in Store : t # s => queue'[t] = queue[t]
      /\ \A t \in Store : Deletion \in ToSet(queue[t]) => Deletion \in ToSet(queue'[t])
  BY Appended
<1>3. \A t \in awaiting' : Deletion \in ToSet(queue'[t])
  BY <1>2 DEF TypeOK
<1>4. CASE s = "profile"
  <2> DEFINE q == queue["profile"]
  <2>1. q \in Seq(RequestType["profile"] \cup {Deletion}) /\ queue'["profile"] = Append(q, r)
    BY <1>1, <1>4, <1>2 DEF TypeOK
  <2>2. /\ Append(q, r)[Len(q) + 1] = r /\ Len(q) + 1 \in DOMAIN Append(q, r)
        /\ \A i \in DOMAIN Append(q, r) :
                 \/ i \in DOMAIN q /\ Append(q, r)[i] = q[i]
                 \/ i = Len(q) + 1
        /\ \A i \in DOMAIN q : i \in DOMAIN Append(q, r) /\ Append(q, r)[i] = q[i]
    BY <1>4, <2>1, AppendOf
  <2>3. saving' <=> \E i \in DOMAIN Append(q, r) : Append(q, r)[i].kind = "answer"
    BY <2>2 DEF TypeOK
  <2>4. \A i, j \in DOMAIN Append(q, r) :
           Append(q, r)[i].kind = "answer" /\ Append(q, r)[j].kind = "answer" => i = j
    BY <2>2 DEF TypeOK, OneAnswer
  <2>5. OneAnswer'
    BY <2>1, <2>4 DEF OneAnswer
  <2> QED
    BY <1>2, <1>3, <2>1, <2>3, <2>5 DEF TypeOK
<1>5. CASE s # "profile"
  <2>1. r.kind # "answer"
    BY <1>5, RequestKinds DEF Store
  <2>2. queue'["profile"] = queue["profile"]
    BY <1>1, <1>5, <1>2
  <2>3. saving' <=> \E i \in DOMAIN queue'["profile"] : queue'["profile"][i].kind = "answer"
    <3>1. saving' = saving
      BY <2>1
    <3>2. saving <=> \E i \in DOMAIN queue["profile"] : queue["profile"][i].kind = "answer"
      BY DEF TypeOK
    <3> QED
      BY <2>2, <3>1, <3>2, Zenon
  <2>4. OneAnswer'
    BY <2>2 DEF OneAnswer
  <2> QED
    BY <1>2, <1>3, <2>1, <2>3, <2>4 DEF TypeOK
<1> QED
  BY <1>4, <1>5

\* A request is taken from its queue.
LEMMA TakenTyped ==
    ASSUME Typed, NEW s \in Store, queue[s] # <<>>, Taken(s)
    PROVE  /\ OneAnswer'
           /\ (saving /\ queue[s][1].kind # "answer") <=>
                 \E i \in DOMAIN queue'["profile"] : queue'["profile"][i].kind = "answer"
<1> USE DEF Typed
<1>1. "profile" \in Store
  BY DEF Store
<1>2. CASE s = "profile"
  <2> DEFINE q == queue["profile"]
  <2>1. q \in Seq(RequestType["profile"] \cup {Deletion}) /\ queue'["profile"] = Tail(q) /\ q # <<>>
    BY <1>1, <1>2, TakenFrom DEF TypeOK
  <2>2. /\ 1 \in DOMAIN q
        /\ \A i \in DOMAIN Tail(q) : i + 1 \in DOMAIN q /\ Tail(q)[i] = q[i + 1]
        /\ \A i \in DOMAIN q : i # 1 => i - 1 \in DOMAIN Tail(q)
    BY <2>1, TailOf
  <2>3. \A i \in DOMAIN q : i \in Nat /\ i >= 1
    BY <2>1
  <2>4. \A i \in DOMAIN Tail(q) : i \in Nat /\ i >= 1
    BY <2>1, TailOf
  <2>5. \A i, j \in DOMAIN Tail(q) :
           Tail(q)[i].kind = "answer" /\ Tail(q)[j].kind = "answer" => i = j
    BY <2>2, <2>4 DEF OneAnswer
  <2>6. \A i \in DOMAIN q : i # 1 => Tail(q)[i - 1] = q[i]
    BY <2>2, <2>3, <2>4
  <2>7. (\E i \in DOMAIN Tail(q) : Tail(q)[i].kind = "answer") <=>
           \E i \in DOMAIN q : i # 1 /\ q[i].kind = "answer"
    <3>1. \A i \in DOMAIN Tail(q) : i + 1 # 1
      BY <2>4
    <3> QED
      BY <2>2, <2>6, <3>1
  <2>8. (saving /\ q[1].kind # "answer") <=> \E i \in DOMAIN q : i # 1 /\ q[i].kind = "answer"
    BY <2>2 DEF TypeOK, OneAnswer
  <2>9. OneAnswer'
    BY <2>1, <2>5 DEF OneAnswer
  <2> QED
    BY <1>2, <2>1, <2>7, <2>8, <2>9
<1>3. CASE s # "profile"
  <2>1. queue[s][1].kind # "answer"
    BY <1>3, TakenFrom, RequestKinds DEF Store, Deletion
  <2>2. queue'["profile"] = queue["profile"]
    BY <1>1, <1>3, TakenFrom
  <2> QED
    BY <2>1, <2>2 DEF TypeOK, OneAnswer
<1> QED
  BY <1>2, <1>3

\* What the citizen asks for has the type of its store.
LEMMA AnswerTyped ==
    ASSUME Typed, NEW p \in Policy, NEW v \in Value, Answer(p, v)
    PROVE  /\ RecordAnswer(screen.profile, Question(p), v, day) \in ProfileType
           /\ \A f \in Field \ {Question(p)} :
                 RecordAnswer(screen.profile, Question(p), v, day)[f] = screen.profile[f]
<1>1. Question(p) \in Field
  BY DEF Answer
<1>2. screen.profile \in ProfileType
  BY DEF Typed, TypeOK, StoreType
<1>3. AnswerOn(Question(p), v, day) \in AnswerType
  BY <1>1, AnswersTyped DEF Typed, TypeOK
<1> QED
  BY <1>1, <1>2, <1>3 DEF RecordAnswer, ProfileType

LEMMA FilledTyped ==
    ASSUME Typed, NEW answers \in [Core -> Value]
    PROVE  /\ Filled(answers) \in ProfileType
           /\ \A f \in Field \ Core : Filled(answers)[f] = form[f]
<1>1. \A f \in Core : AnswerOn(f, answers[f], day) \in AnswerType
  BY AnswersTyped, AppAssumption DEF Typed, TypeOK
<1> QED
  BY <1>1, AppAssumption DEF Typed, TypeOK, Filled, ProfileType

LEMMA CitizenTyped ==
    ASSUME Typed,
           \/ \E p \in Policy, value \in Value : Answer(p, value)
           \/ \E p \in Policy : Hide(p)
           \/ RestorePolicies
           \/ \E p \in Policy : ToggleFavorite(p)
           \/ \E answers \in [Core -> Value] : SubmitForm(answers)
    PROVE  Typed'
<1>1. ASSUME NEW p \in Policy, NEW v \in Value, Answer(p, v)
      PROVE  Typed'
  <2>1. PICK r : r = [kind    |-> "answer",
                      fields  |-> {Question(p)},
                      profile |-> RecordAnswer(screen.profile, Question(p), v, day)]
    OBVIOUS
  <2>2. r \in RequestType["profile"] /\ r.kind = "answer"
    BY <1>1, <2>1, AnswerTyped DEF RequestType, Answer
  <2>3. queue' = [queue EXCEPT !["profile"] = Append(@, r)]
    BY <1>1, <2>1 DEF Answer, Request
  <2>4. undisturbed' \in BOOLEAN
    BY <1>1 DEF Answer, Disturb
  <2> QED
    BY <1>1, <2>2, <2>3, <2>4, RequestTyped DEF Answer, Store
<1>2. ASSUME NEW p \in Policy, Hide(p)
      PROVE  Typed'
  <2>1. PICK r : r = [kind |-> "hide", policy |-> p]
    OBVIOUS
  <2>2. r \in RequestType["hidden"] /\ r.kind = "hide"
    BY <2>1 DEF RequestType
  <2>3. queue' = [queue EXCEPT !["hidden"] = Append(@, r)]
    BY <1>2, <2>1 DEF Hide, Request
  <2>4. undisturbed' \in BOOLEAN
    BY <1>2 DEF Hide, Disturb
  <2> QED
    BY <1>2, <2>2, <2>3, <2>4, RequestTyped DEF Hide, Store
<1>3. ASSUME RestorePolicies
      PROVE  Typed'
  <2>1. PICK r : r = [kind |-> "restore"]
    OBVIOUS
  <2>2. r \in RequestType["hidden"] /\ r.kind = "restore"
    BY <2>1 DEF RequestType
  <2>3. queue' = [queue EXCEPT !["hidden"] = Append(@, r)]
    BY <1>3, <2>1 DEF RestorePolicies, Request
  <2>4. undisturbed' \in BOOLEAN
    BY <1>3 DEF RestorePolicies, Disturb
  <2> QED
    BY <1>3, <2>2, <2>3, <2>4, RequestTyped DEF RestorePolicies, Store
<1>4. ASSUME NEW p \in Policy, ToggleFavorite(p)
      PROVE  Typed'
  <2>1. PICK r : r = [kind   |-> IF p \in screen.favorites THEN "unmark" ELSE "mark",
                      policy |-> p]
    OBVIOUS
  <2>2. r \in RequestType["favorites"] /\ r.kind \in {"mark", "unmark"}
    BY <2>1 DEF RequestType
  <2>3. queue' = [queue EXCEPT !["favorites"] = Append(@, r)]
    BY <1>4, <2>1 DEF ToggleFavorite, Request
  <2>4. undisturbed' \in BOOLEAN
    BY <1>4 DEF ToggleFavorite, Disturb
  <2> QED
    BY <1>4, <2>2, <2>3, <2>4, RequestTyped DEF ToggleFavorite, Store
<1>5. ASSUME NEW answers \in [Core -> Value], SubmitForm(answers)
      PROVE  Typed'
  <2>1. PICK r : r = [kind |-> "form", fields |-> Core, profile |-> Filled(answers)]
    OBVIOUS
  <2>2. r \in RequestType["profile"] /\ r.kind = "form"
    BY <2>1, FilledTyped, AppAssumption DEF RequestType
  <2>3. queue' = [queue EXCEPT !["profile"] = Append(@, r)]
    BY <1>5, <2>1 DEF SubmitForm, Request
  <2>4. undisturbed' \in BOOLEAN
    BY <1>5 DEF SubmitForm, Disturb
  <2> QED
    BY <1>5, <2>2, <2>3, <2>4, RequestTyped DEF SubmitForm, Store
<1> QED
  BY <1>1, <1>2, <1>3, <1>4, <1>5

LEMMA StartTyped ==
    ASSUME Typed, LoadDone \/ LoadFails \/ Reload
    PROVE  Typed'
<1> USE DEF Typed
<1>1. CASE LoadDone \/ LoadFails
  <2>1. /\ screen' \in StoreType /\ loaded' \in StoreType \cup {NotLoading}
        /\ policies' \in {{}, Policy}
        /\ view' \in {"feed", "start", "edit"} /\ form' \in ProfileType
        /\ undisturbed' \in BOOLEAN
    BY <1>1, NothingTyped DEF LoadDone, LoadFails, Ready, TypeOK
  <2>2. UNCHANGED <<day, stored, saving, queue, awaiting>>
    BY <1>1 DEF LoadDone, LoadFails
  <2> QED
    BY <2>1, <2>2 DEF TypeOK, OneAnswer
<1>2. CASE Reload
  <2>1. /\ queue' = [s \in Store |-> queue'[s]]
        /\ \A s \in Store : queue'[s] = <<>>
    BY <1>2 DEF Reload
  <2>2. OneAnswer' /\ ~\E i \in DOMAIN queue'["profile"] : queue'["profile"][i].kind = "answer"
    BY <2>1 DEF OneAnswer, Store
  <2> QED
    BY <1>2, <2>1, <2>2, NothingTyped DEF Reload, TypeOK
<1> QED
  BY <1>1, <1>2

LEMMA ResetTyped ==
    ASSUME Typed, ResetLocalData
    PROVE  Typed'
<1> USE DEF Typed
<1>1. \A s \in Store : queue[s] \in Seq(RequestType[s] \cup {Deletion})
  BY DEF TypeOK
<1>2. /\ queue' = [s \in Store |-> queue'[s]]
      /\ \A s \in Store : queue'[s] = Append(queue[s], Deletion)
  BY DEF ResetLocalData
<1>3. \A s \in Store : queue'[s] \in Seq(RequestType[s] \cup {Deletion})
  BY <1>1, <1>2, AppendOf
<1>4. \A s \in Store : Deletion \in ToSet(queue'[s])
  BY <1>1, <1>2, AppendOf DEF ToSet
<1> DEFINE q == queue["profile"]
<1>5. q \in Seq(RequestType["profile"] \cup {Deletion}) /\ queue'["profile"] = Append(q, Deletion)
  BY <1>1, <1>2 DEF Store
<1>6. /\ Append(q, Deletion)[Len(q) + 1] = Deletion
      /\ \A i \in DOMAIN Append(q, Deletion) :
            \/ i \in DOMAIN q /\ Append(q, Deletion)[i] = q[i]
            \/ i = Len(q) + 1
      /\ \A i \in DOMAIN q : i \in DOMAIN Append(q, Deletion) /\ Append(q, Deletion)[i] = q[i]
  BY <1>5, AppendOf
<1>7. Deletion.kind # "answer"
  BY DEF Deletion
<1>8. (\E i \in DOMAIN q : q[i].kind = "answer") <=>
         \E i \in DOMAIN Append(q, Deletion) : Append(q, Deletion)[i].kind = "answer"
  BY <1>6, <1>7
<1>9. \A i, j \in DOMAIN Append(q, Deletion) :
         Append(q, Deletion)[i].kind = "answer" /\ Append(q, Deletion)[j].kind = "answer" => i = j
  BY <1>6, <1>7 DEF OneAnswer
<1>10. OneAnswer'
  BY <1>5, <1>9 DEF OneAnswer
<1>11. saving' <=> \E i \in DOMAIN queue'["profile"] : queue'["profile"][i].kind = "answer"
  <2>1. saving' = saving
    BY DEF ResetLocalData
  <2>2. saving <=> \E i \in DOMAIN q : q[i].kind = "answer"
    BY DEF TypeOK
  <2> QED
    BY <1>5, <1>8, <2>1, <2>2, Zenon
<1>12. /\ UNCHANGED <<day, stored, screen, policies, loaded, view, form, saving>>
       /\ awaiting' = Store /\ undisturbed' \in BOOLEAN
  BY DEF ResetLocalData, Disturb
<1> QED
  BY <1>2, <1>3, <1>4, <1>10, <1>11, <1>12 DEF TypeOK

LEMMA LocalTyped ==
    ASSUME Typed, OpenForm \/ CloseForm \/ NextDay
    PROVE  Typed'
<1>1. /\ day' \in Nat
      /\ view' \in {"feed", "start", "edit"} /\ form' \in ProfileType
      /\ undisturbed' \in BOOLEAN
  <2>1. CASE OpenForm
    BY <2>1 DEF OpenForm, Disturb, Typed, TypeOK, StoreType
  <2>2. CASE CloseForm
    BY <2>2, NothingTyped DEF CloseForm, Typed, TypeOK
  <2>3. CASE NextDay
    BY <2>3 DEF NextDay, Typed, TypeOK
  <2> QED
    BY <2>1, <2>2, <2>3
<1>2. UNCHANGED <<stored, screen, policies, loaded, saving, queue, awaiting>>
  BY DEF OpenForm, CloseForm, NextDay
<1> QED
  BY <1>1, <1>2 DEF Typed, TypeOK, OneAnswer

\* The form and the question are released by the request they wait for.
LEMMA SaveTyped ==
    ASSUME Typed, NEW s \in Store, Save(s)
    PROVE  Typed'
<1> USE DEF Typed
<1>1. queue[s] # <<>> /\ Taken(s)
  BY DEF Save
<1>2. PICK r : r = queue[s][1]
  OBVIOUS
<1>3. /\ r \in RequestType[s]
      /\ stored' = Applied(stored, r) /\ screen' = Applied(screen, r)
      /\ AfterSaving(r)
      /\ UNCHANGED <<day, policies, loaded, awaiting, undisturbed, upsets>>
  BY <1>1, <1>2, TakenFrom DEF Save, StoredAfter
<1>4. stored' \in StoreType /\ screen' \in StoreType
  BY <1>3, AppliedType DEF TypeOK
<1>5. view' \in {"feed", "start", "edit"} /\ form' \in ProfileType
  BY <1>3, NothingTyped DEF AfterSaving, TypeOK
<1>6. /\ saving' \in BOOLEAN
      /\ saving' <=> \E i \in DOMAIN queue'["profile"] : queue'["profile"][i].kind = "answer"
  <2>1. saving' = (saving /\ queue[s][1].kind # "answer")
    BY <1>2, <1>3 DEF AfterSaving
  <2> QED
    BY <1>1, <2>1, TakenTyped
<1>7. \A t \in awaiting' : Deletion \in ToSet(queue'[t])
  BY <1>1, <1>2, <1>3, RequestKinds, TakenFrom DEF TypeOK, Store
<1> QED
  BY <1>1, <1>3, <1>4, <1>5, <1>6, <1>7, TakenTyped, TakenFrom DEF TypeOK

LEMMA DeleteTyped ==
    ASSUME Typed, NEW s \in Store, Delete(s)
    PROVE  Typed'
<1> USE DEF Typed
<1>1. queue[s] # <<>> /\ Taken(s) /\ queue[s][1] = Deletion
  BY TakenFrom DEF Delete
<1>2. /\ stored' = [stored EXCEPT ![s] = NothingStored[s]]
      /\ awaiting' = awaiting \ {s}
      /\ UNCHANGED <<day, policies, loaded, saving, undisturbed>>
  BY DEF Delete
<1>3. stored' \in StoreType
  BY <1>2, NothingTyped DEF TypeOK, StoreType, Store
<1>4. screen' \in StoreType /\ view' \in {"feed", "start", "edit"} /\ form' \in ProfileType
  BY NothingTyped DEF Delete, TypeOK
<1>5. saving' <=> \E i \in DOMAIN queue'["profile"] : queue'["profile"][i].kind = "answer"
  <2>1. saving' = saving /\ queue[s][1].kind # "answer"
    BY <1>1, <1>2 DEF Deletion
  <2> QED
    BY <1>1, <2>1, TakenTyped
<1>6. \A t \in awaiting' : Deletion \in ToSet(queue'[t])
  BY <1>1, <1>2, TakenFrom DEF TypeOK
<1> QED
  BY <1>1, <1>2, <1>3, <1>4, <1>5, <1>6, TakenTyped, TakenFrom DEF TypeOK

LEMMA FailTyped ==
    ASSUME Typed, NEW s \in Store, Fail(s)
    PROVE  Typed'
<1> USE DEF Typed
<1>1. queue[s] # <<>> /\ Taken(s) /\ Head(queue[s]) = queue[s][1]
  BY TakenFrom DEF Fail
<1>2. /\ saving' = (saving /\ queue[s][1].kind # "answer")
      /\ awaiting' = IF queue[s][1] = Deletion THEN {} ELSE awaiting
      /\ undisturbed' \in BOOLEAN
      /\ UNCHANGED <<day, stored, screen, policies, loaded, view, form>>
  BY <1>1 DEF Fail, Disturb
<1>3. /\ saving' \in BOOLEAN
      /\ saving' <=> \E i \in DOMAIN queue'["profile"] : queue'["profile"][i].kind = "answer"
  BY <1>1, <1>2, TakenTyped
<1>4. \A t \in awaiting' : Deletion \in ToSet(queue'[t])
  BY <1>1, <1>2, TakenFrom DEF TypeOK
<1> QED
  BY <1>1, <1>2, <1>3, <1>4, TakenTyped, TakenFrom DEF TypeOK

LEMMA NextTyped == Typed /\ [Next]_vars => Typed'
<1> SUFFICES ASSUME Typed, [Next]_vars
             PROVE  Typed'
  OBVIOUS
<1>1. CASE UNCHANGED vars
  BY <1>1 DEF vars, Typed, TypeOK, OneAnswer
<1> QED
  BY <1>1, CitizenTyped, StartTyped, ResetTyped, LocalTyped, SaveTyped, DeleteTyped, FailTyped
     DEF Next

\* Whatever is asked of the stores, and whichever requests fail, the app keeps
\* its shape: a question is locked exactly while its answer is being saved,
\* and a reset waits only for stores that it has asked to delete.
THEOREM TypeCorrect == Spec => []TypeOK
<1>1. Spec => []Typed
  BY InitTyped, NextTyped, PTL DEF Spec
<1>2. Typed => TypeOK
  BY DEF Typed
<1> QED
  BY <1>1, <1>2, PTL

-------------------------------------------------------------------------------
(***************************************************************************)
(* The screen and the stores.                                              *)
(***************************************************************************)
LEMMA InitInStep == Init => InStep
<1> SUFFICES ASSUME Init
             PROVE  InStep
  OBVIOUS
<1>1. \A s \in Store : queue[s] = <<>> /\ DOMAIN queue[s] = {}
  BY DEF Init
<1>2. "profile" \in Store
  BY DEF Store
<1>3. ~Ready
  BY NothingTyped, AppAssumption DEF Init, Ready
<1> QED
  BY <1>1, <1>2, <1>3 DEF Init, InStep, NothingBegun, DeletionsLast, DeletedStaysEmpty,
     ScreenFollows, SavesAreCurrent, FormIsCurrent, Quiet

\* Something is begun while no reset is going on.
LEMMA RequestInStep ==
    ASSUME Typed, InStep, Ready, awaiting = {},
           NEW s \in Store, NEW r \in RequestType[s],
           queue' = [queue EXCEPT ![s] = Append(@, r)],
           s = "profile" => /\ queue["profile"] = <<>>
                            /\ \A f \in Field \ r.fields : r.profile[f] = stored.profile[f]
                            /\ view # "feed" => r.kind # "answer",
           UNCHANGED <<stored, screen, loaded, view, form, awaiting>>
    PROVE  InStep'
<1> USE DEF Typed, InStep
<1>1. /\ queue' = [t \in Store |-> queue'[t]]
      /\ queue'[s] = Append(queue[s], r)
      /\ \A t \in Store : t # s => queue'[t] = queue[t]
  BY Appended
<1>2. queue[s] \in Seq(RequestType[s] \cup {Deletion})
  BY DEF TypeOK
<1>3. r # Deletion
  BY RequestKinds DEF Store
<1>4. /\ Append(queue[s], r)[Len(queue[s]) + 1] = r
      /\ \A i \in DOMAIN Append(queue[s], r) :
            \/ i \in DOMAIN queue[s] /\ Append(queue[s], r)[i] = queue[s][i]
            \/ i = Len(queue[s]) + 1
  BY <1>2, AppendOf
<1>5. NothingBegun' /\ DeletedStaysEmpty' /\ ScreenFollows'
  BY DEF NothingBegun, DeletedStaysEmpty, ScreenFollows, Ready
<1>6. DeletionsLast'
  <2>1. \A t \in Store : \A i \in DOMAIN queue[t] : queue[t][i] # Deletion
    BY DEF DeletionsLast
  <2>2. \A t \in Store : \A i \in DOMAIN queue'[t] : queue'[t][i] # Deletion
    BY <1>1, <1>3, <1>4, <2>1
  <2> QED
    BY <2>2 DEF DeletionsLast
<1>7. CASE s = "profile"
  <2>1. \A i \in DOMAIN queue'["profile"] : i = 1 /\ queue'["profile"][i] = r
    BY <1>1, <1>4, <1>7
  <2>2. SavesAreCurrent' /\ FormIsCurrent'
    BY <1>7, <2>1 DEF SavesAreCurrent, FormIsCurrent, Ready
  <2> QED
    BY <1>5, <1>6, <2>2
<1>8. CASE s # "profile"
  <2>1. queue'["profile"] = queue["profile"]
    BY <1>1, <1>8 DEF Store
  <2>2. SavesAreCurrent' /\ FormIsCurrent'
    BY <2>1 DEF SavesAreCurrent, FormIsCurrent, Ready
  <2> QED
    BY <1>5, <1>6, <2>2
<1> QED
  BY <1>7, <1>8

LEMMA CitizenInStep ==
    ASSUME Typed, InStep, undisturbed',
           \/ \E p \in Policy, value \in Value : Answer(p, value)
           \/ \E p \in Policy : Hide(p)
           \/ RestorePolicies
           \/ \E p \in Policy : ToggleFavorite(p)
           \/ \E answers \in [Core -> Value] : SubmitForm(answers)
    PROVE  InStep'
<1>1. ASSUME NEW p \in Policy, NEW v \in Value, Answer(p, v)
      PROVE  InStep'
  <2>1. PICK r : r = [kind    |-> "answer",
                      fields  |-> {Question(p)},
                      profile |-> RecordAnswer(screen.profile, Question(p), v, day)]
    OBVIOUS
  <2>2. r \in RequestType["profile"]
    BY <1>1, <2>1, AnswerTyped DEF RequestType, Answer
  <2>3. queue' = [queue EXCEPT !["profile"] = Append(@, r)]
    BY <1>1, <2>1 DEF Answer, Request
  <2>4. Ready /\ awaiting = {} /\ queue["profile"] = <<>> /\ view = "feed"
    BY <1>1 DEF Answer, InFeed, Disturb
  <2>5. screen.profile = stored.profile
    BY <2>4 DEF InStep, ScreenFollows, Store
  <2>6. \A f \in Field \ r.fields : r.profile[f] = stored.profile[f]
    BY <1>1, <2>1, <2>5, AnswerTyped
  <2>7. "profile" \in Store
    BY DEF Store
  <2> QED
    BY <1>1, <2>2, <2>3, <2>4, <2>6, <2>7, RequestInStep DEF Answer
<1>2. ASSUME NEW p \in Policy, Hide(p)
      PROVE  InStep'
  <2>1. PICK r : r = [kind |-> "hide", policy |-> p]
    OBVIOUS
  <2>2. r \in RequestType["hidden"]
    BY <2>1 DEF RequestType
  <2>3. queue' = [queue EXCEPT !["hidden"] = Append(@, r)]
    BY <1>2, <2>1 DEF Hide, Request
  <2>4. Ready /\ awaiting = {}
    BY <1>2 DEF Hide, InFeed, Disturb
  <2> QED
    BY <1>2, <2>2, <2>3, <2>4, RequestInStep DEF Hide, Store
<1>3. ASSUME RestorePolicies
      PROVE  InStep'
  <2>1. PICK r : r = [kind |-> "restore"]
    OBVIOUS
  <2>2. r \in RequestType["hidden"]
    BY <2>1 DEF RequestType
  <2>3. queue' = [queue EXCEPT !["hidden"] = Append(@, r)]
    BY <1>3, <2>1 DEF RestorePolicies, Request
  <2>4. Ready /\ awaiting = {}
    BY <1>3 DEF RestorePolicies, InFeed, Disturb
  <2> QED
    BY <1>3, <2>2, <2>3, <2>4, RequestInStep DEF RestorePolicies, Store
<1>4. ASSUME NEW p \in Policy, ToggleFavorite(p)
      PROVE  InStep'
  <2>1. PICK r : r = [kind   |-> IF p \in screen.favorites THEN "unmark" ELSE "mark",
                      policy |-> p]
    OBVIOUS
  <2>2. r \in RequestType["favorites"]
    BY <2>1 DEF RequestType
  <2>3. queue' = [queue EXCEPT !["favorites"] = Append(@, r)]
    BY <1>4, <2>1 DEF ToggleFavorite, Request
  <2>4. Ready /\ awaiting = {}
    BY <1>4 DEF ToggleFavorite, InFeed, Disturb
  <2> QED
    BY <1>4, <2>2, <2>3, <2>4, RequestInStep DEF ToggleFavorite, Store
<1>5. ASSUME NEW answers \in [Core -> Value], SubmitForm(answers)
      PROVE  InStep'
  <2>1. PICK r : r = [kind |-> "form", fields |-> Core, profile |-> Filled(answers)]
    OBVIOUS
  <2>2. r \in RequestType["profile"]
    BY <2>1, FilledTyped, AppAssumption DEF RequestType
  <2>3. queue' = [queue EXCEPT !["profile"] = Append(@, r)]
    BY <1>5, <2>1 DEF SubmitForm, Request
  <2>4. awaiting = {} /\ view # "feed"
    BY <1>5 DEF SubmitForm, Disturb
  <2>5. Ready
    BY <2>4 DEF InStep, NothingBegun
  <2>6. form = stored.profile
    BY <2>4, <2>5 DEF InStep, FormIsCurrent
  <2>7. \A f \in Field \ r.fields : r.profile[f] = stored.profile[f]
    BY <2>1, <2>6, FilledTyped
  <2>8. queue["profile"] = <<>>
    <3>1. "profile" \in Store /\ queue["profile"] \in Seq(RequestType["profile"] \cup {Deletion})
      BY DEF Typed, TypeOK, Store
    <3>2. \A i \in DOMAIN queue["profile"] : queue["profile"][i] \in RequestType["profile"]
      <4>1. \A i \in DOMAIN queue["profile"] : queue["profile"][i] # Deletion
        BY <2>4, <3>1 DEF InStep, DeletionsLast
      <4>2. \A i \in DOMAIN queue["profile"] :
               queue["profile"][i] \in RequestType["profile"] \cup {Deletion}
        BY <3>1, ElementIn
      <4> QED
        BY <4>1, <4>2
    <3>3. \A i \in DOMAIN queue["profile"] : FALSE
      BY <1>5, <2>4, <2>5, <3>2, RequestKinds DEF SubmitForm, InStep, FormIsCurrent
    <3> QED
      BY <3>1, <3>3, TailOf
  <2>9. "profile" \in Store /\ r.kind # "answer"
    BY <2>1 DEF Store
  <2> QED
    BY <1>5, <2>2, <2>3, <2>4, <2>5, <2>7, <2>8, <2>9, RequestInStep DEF SubmitForm
<1> QED
  BY <1>1, <1>2, <1>3, <1>4, <1>5

LEMMA StartInStep ==
    ASSUME Typed, AppInvariant, undisturbed', LoadDone \/ LoadFails \/ Reload
    PROVE  InStep'
<1> USE DEF Typed
<1>1. CASE LoadDone
  <2>1. InStep /\ ~Ready
    BY <1>1 DEF LoadDone, AppInvariant
  <2>2. loaded = stored /\ awaiting = {} /\ view = "feed" /\ \A s \in Store : queue[s] = <<>>
    BY <2>1 DEF InStep, NothingBegun, Quiet
  <2>3. screen' = stored /\ loaded' = NotLoading /\ UNCHANGED <<stored, queue, awaiting>>
    BY <1>1, <2>2 DEF LoadDone
  <2>4. view' # "feed" => form' = stored.profile
    BY <1>1, <2>2 DEF LoadDone
  <2>5. \A s \in Store : queue'[s] = <<>> /\ DOMAIN queue'[s] = {}
    BY <2>2, <2>3
  <2>6. "profile" \in Store
    BY DEF Store
  <2>7. NothingBegun' /\ DeletionsLast' /\ DeletedStaysEmpty'
    BY <2>2, <2>3, <2>5 DEF NothingBegun, DeletionsLast, DeletedStaysEmpty, Ready
  <2>8. ScreenFollows' /\ SavesAreCurrent' /\ FormIsCurrent'
    BY <2>3, <2>4, <2>5, <2>6 DEF ScreenFollows, SavesAreCurrent, FormIsCurrent
  <2> QED
    BY <2>7, <2>8 DEF InStep
<1>2. CASE LoadFails
  BY <1>2 DEF LoadFails
<1>3. CASE Reload
  <2>1. /\ queue' = [s \in Store |-> <<>>]
        /\ loaded' = stored /\ stored' = stored /\ view' = "feed" /\ awaiting' = {}
    BY <1>3 DEF Reload
  <2>2. \A s \in Store : queue'[s] = <<>> /\ DOMAIN queue'[s] = {}
    BY <2>1
  <2>3. ~Ready' /\ "profile" \in Store
    BY <2>1, AppAssumption DEF Ready, TypeOK, Store
  <2>4. NothingBegun' /\ DeletionsLast' /\ DeletedStaysEmpty'
    BY <2>1, <2>2 DEF NothingBegun, Quiet, DeletionsLast, DeletedStaysEmpty
  <2>5. ScreenFollows' /\ SavesAreCurrent' /\ FormIsCurrent'
    BY <2>2, <2>3 DEF ScreenFollows, SavesAreCurrent, FormIsCurrent
  <2> QED
    BY <2>4, <2>5 DEF InStep
<1> QED
  BY <1>1, <1>2, <1>3

LEMMA ResetInStep ==
    ASSUME Typed, InStep, undisturbed', ResetLocalData
    PROVE  InStep'
<1> USE DEF Typed, InStep
<1>1. Ready /\ view = "feed"
  BY DEF ResetLocalData, Disturb
<1>2. \A s \in Store : \A i \in DOMAIN queue[s] : queue[s][i] # Deletion
  BY DEF ResetLocalData, ToSet
<1>3. \A s \in Store : queue[s] \in Seq(RequestType[s] \cup {Deletion})
  BY DEF TypeOK
<1>4. \A s \in Store : queue'[s] = Append(queue[s], Deletion)
  BY DEF ResetLocalData
<1>5. /\ awaiting' = Store
      /\ UNCHANGED <<stored, screen, loaded, view, form>>
  BY DEF ResetLocalData
<1>6. awaiting = {}
  <2>1. \A s \in awaiting : s \in Store /\ Deletion \in ToSet(queue[s])
    BY DEF TypeOK
  <2> QED
    BY <1>2, <2>1 DEF ToSet
<1>7. NothingBegun' /\ DeletedStaysEmpty' /\ ScreenFollows'
  BY <1>1, <1>5, <1>6 DEF NothingBegun, DeletedStaysEmpty, ScreenFollows, Ready
<1>8. DeletionsLast'
  <2> SUFFICES ASSUME NEW s \in Store
               PROVE  /\ queue'[s] # <<>>
                      /\ \A i \in DOMAIN queue'[s] :
                            queue'[s][i] = Deletion <=> i = Len(queue'[s])
    BY <1>5 DEF DeletionsLast
  <2>1. /\ queue[s] \in Seq(RequestType[s] \cup {Deletion})
        /\ Deletion \in RequestType[s] \cup {Deletion}
    BY <1>3
  <2>2. /\ Append(queue[s], Deletion) # <<>>
        /\ Len(Append(queue[s], Deletion)) = Len(queue[s]) + 1
        /\ Append(queue[s], Deletion)[Len(queue[s]) + 1] = Deletion
        /\ \A i \in DOMAIN Append(queue[s], Deletion) :
              \/ i \in DOMAIN queue[s] /\ Append(queue[s], Deletion)[i] = queue[s][i]
              \/ i = Len(queue[s]) + 1
    BY <2>1, AppendOf
  <2>3. \A i \in DOMAIN queue[s] : i # Len(queue[s]) + 1
    BY <2>1
  <2> QED
    BY <1>2, <1>4, <2>2, <2>3
<1>9. SavesAreCurrent' /\ FormIsCurrent'
  <2>1. "profile" \in Store
    BY DEF Store
  <2>2. \A i \in DOMAIN queue'["profile"] :
           \/ i \in DOMAIN queue["profile"] /\ queue'["profile"][i] = queue["profile"][i]
           \/ queue'["profile"][i] = Deletion
    <3>1. queue["profile"] \in Seq(RequestType["profile"] \cup {Deletion})
      BY <1>3, <2>1
    <3>2. queue'["profile"] = Append(queue["profile"], Deletion)
      BY <1>4, <2>1
    <3> QED
      BY <3>1, <3>2, AppendOf
  <2>3. SavesAreCurrent'
    BY <1>5, <2>2 DEF SavesAreCurrent
  <2>4. FormIsCurrent'
    BY <1>1, <1>5 DEF FormIsCurrent
  <2> QED
    BY <2>3, <2>4
<1> QED
  BY <1>7, <1>8, <1>9

LEMMA LocalInStep ==
    ASSUME Typed, InStep, undisturbed', OpenForm \/ CloseForm \/ NextDay
    PROVE  InStep'
<1> USE DEF Typed, InStep
<1>1. UNCHANGED <<stored, screen, loaded, queue, awaiting>>
  BY DEF OpenForm, CloseForm, NextDay
<1>2. DeletionsLast' /\ DeletedStaysEmpty' /\ ScreenFollows' /\ SavesAreCurrent'
  BY <1>1 DEF DeletionsLast, DeletedStaysEmpty, ScreenFollows, SavesAreCurrent, Ready
<1>3. NothingBegun' /\ FormIsCurrent'
  <2>1. CASE OpenForm
    <3>1. Ready /\ queue["profile"] = <<>> /\ form' = screen.profile
      BY <2>1 DEF OpenForm, Disturb
    <3>2. awaiting = {} => screen.profile = stored.profile
      BY <3>1 DEF ScreenFollows, Store
    <3> QED
      BY <1>1, <3>1, <3>2 DEF NothingBegun, FormIsCurrent, Ready
  <2>2. CASE CloseForm
    BY <1>1, <2>2 DEF CloseForm, NothingBegun, FormIsCurrent, Ready, Quiet
  <2>3. CASE NextDay
    BY <1>1, <2>3 DEF NextDay, NothingBegun, FormIsCurrent, Ready, Quiet
  <2> QED
    BY <2>1, <2>2, <2>3
<1> QED
  BY <1>2, <1>3

\* The queue after a request is taken from it.
LEMMA TakenInStep ==
    ASSUME Typed, InStep, NEW s \in Store, queue[s] # <<>>, Taken(s)
    PROVE  /\ \A i \in DOMAIN queue'[s] : /\ i \in Nat /\ i + 1 \in DOMAIN queue[s]
                                          /\ queue'[s][i] = queue[s][i + 1]
           /\ Len(queue'[s]) = Len(queue[s]) - 1
           /\ Len(queue[s]) \in Nat /\ 1 \in DOMAIN queue[s]
           /\ Len(queue[s]) # 1 => queue'[s] # <<>>
           /\ Len(queue[s]) = 1 => queue'[s] = <<>>
<1>1. queue[s] \in Seq(RequestType[s] \cup {Deletion}) /\ queue'[s] = Tail(queue[s])
  BY TakenFrom DEF Typed, TypeOK
<1>2. /\ Tail(queue[s]) \in Seq(RequestType[s] \cup {Deletion})
      /\ Len(Tail(queue[s])) = Len(queue[s]) - 1 /\ 1 \in DOMAIN queue[s]
      /\ \A i \in DOMAIN Tail(queue[s]) :
            i + 1 \in DOMAIN queue[s] /\ Tail(queue[s])[i] = queue[s][i + 1]
  BY <1>1, TailOf
<1>3. Len(queue[s]) \in Nat /\ \A i \in DOMAIN Tail(queue[s]) : i \in Nat
  BY <1>1, <1>2
<1>4. /\ Len(queue[s]) # 1 => Tail(queue[s]) # <<>>
      /\ Len(queue[s]) = 1 => Tail(queue[s]) = <<>>
  <2>1. Tail(queue[s]) = <<>> => Len(Tail(queue[s])) = 0
    <3>1. \A q : q = <<>> => Len(q) = 0
      OBVIOUS
    <3> QED
      BY <3>1, Zenon
  <2>2. Tail(queue[s]) # <<>> => Len(Tail(queue[s])) # 0
    BY <1>2
  <2> QED
    BY <1>2, <1>3, <2>1, <2>2
<1> QED
  BY <1>1, <1>2, <1>3, <1>4

\* A request is done or fails, but no deletion.
LEMMA TakenRequestInStep ==
    ASSUME Typed, InStep, NEW s \in Store, queue[s] # <<>>, Taken(s),
           queue[s][1] # Deletion, awaiting' = awaiting, loaded' = loaded
    PROVE  /\ NothingBegun /\ Ready /\ Ready'
           /\ DeletionsLast'
           /\ s \in awaiting \/ awaiting = {}
           /\ \A t \in Store : queue[t] = <<>> => queue'[t] = <<>>
           /\ s = "profile" => \A i \in DOMAIN queue'["profile"] : queue'["profile"][i] = Deletion
<1> USE DEF Typed, InStep
<1>1. Ready /\ Ready'
  BY DEF NothingBegun, Quiet, Ready
<1>2. \A t \in Store : t # s => queue'[t] = queue[t]
  BY TakenFrom
<1>3. /\ \A i \in DOMAIN queue'[s] : /\ i \in Nat /\ i + 1 \in DOMAIN queue[s]
                                     /\ queue'[s][i] = queue[s][i + 1]
      /\ Len(queue'[s]) = Len(queue[s]) - 1
      /\ Len(queue[s]) \in Nat /\ 1 \in DOMAIN queue[s]
      /\ Len(queue[s]) # 1 => queue'[s] # <<>>
  BY TakenInStep
<1>4. s \in awaiting => Len(queue[s]) # 1
  BY <1>3 DEF DeletionsLast
<1>5. DeletionsLast'
  <2> SUFFICES ASSUME NEW t \in Store
               PROVE  /\ t \in awaiting => queue'[t] # <<>>
                      /\ \A i \in DOMAIN queue'[t] :
                            queue'[t][i] = Deletion <=> t \in awaiting /\ i = Len(queue'[t])
    BY DEF DeletionsLast
  <2>1. CASE t # s
    BY <1>2, <2>1 DEF DeletionsLast
  <2>2. CASE t = s
    <3>1. \A i \in DOMAIN queue'[s] :
             queue[s][i + 1] = Deletion <=> s \in awaiting /\ i + 1 = Len(queue[s])
      BY <1>3 DEF DeletionsLast
    <3> QED
      BY <1>3, <1>4, <2>2, <3>1
  <2> QED
    BY <2>1, <2>2
<1>6. s \in awaiting \/ awaiting = {}
  BY DEF DeletedStaysEmpty
<1>7. s = "profile" => \A i \in DOMAIN queue'["profile"] : queue'["profile"][i] = Deletion
  <2> SUFFICES ASSUME s = "profile", NEW i \in DOMAIN queue'["profile"]
               PROVE  queue'["profile"][i] = Deletion
    OBVIOUS
  <2>1. i \in Nat /\ i + 1 \in DOMAIN queue["profile"] /\ queue'["profile"][i] = queue["profile"][i + 1]
    BY <1>3
  <2>2. i >= 1
    <3>1. queue'[s] \in Seq(RequestType[s] \cup {Deletion})
      BY TakenFrom
    <3> QED
      BY <3>1
  <2> QED
    BY <2>1, <2>2 DEF SavesAreCurrent
<1> QED
  BY <1>1, <1>2, <1>5, <1>6, <1>7

LEMMA SaveInStep ==
    ASSUME Typed, InStep, NEW s \in Store, Save(s)
    PROVE  InStep'
<1> USE DEF Typed, InStep
<1>1. queue[s] # <<>> /\ Taken(s) /\ Head(queue[s]) = queue[s][1]
  BY TakenFrom DEF Save
<1>2. PICK r : r = queue[s][1]
  OBVIOUS
<1>3. /\ r \in RequestType[s] /\ r # Deletion
      /\ stored' = Applied(stored, r) /\ screen' = Applied(screen, r)
      /\ AfterSaving(r)
      /\ awaiting' = awaiting /\ loaded' = loaded
  BY <1>1, <1>2, TakenFrom DEF Save, StoredAfter
<1>4. /\ Ready /\ Ready' /\ DeletionsLast'
      /\ s \in awaiting \/ awaiting = {}
      /\ s = "profile" => \A i \in DOMAIN queue'["profile"] : queue'["profile"][i] = Deletion
  BY <1>1, <1>2, <1>3, TakenRequestInStep
<1>5. \A t \in Store : t # s => queue'[t] = queue[t]
  BY <1>1, TakenFrom
<1>6. /\ \A t \in Store : t # s => stored'[t] = stored[t] /\ screen'[t] = screen[t]
      /\ stored[s] = screen[s] => stored'[s] = screen'[s]
  <2>1. stored \in StoreType /\ screen \in StoreType
    BY DEF TypeOK
  <2> QED
    BY <1>3, <2>1, AppliedType, AppliedAlike
<1>7. NothingBegun'
  BY <1>4 DEF NothingBegun
<1>8. DeletedStaysEmpty'
  BY <1>3, <1>4, <1>5, <1>6 DEF DeletedStaysEmpty
<1>9. ScreenFollows'
  BY <1>3, <1>4, <1>6 DEF ScreenFollows
<1>10. SavesAreCurrent' /\ FormIsCurrent'
  <2>1. CASE s = "profile"
    <3>1. \A i \in DOMAIN queue'["profile"] :
             queue'["profile"][i] = Deletion /\ queue'["profile"][i].kind # "answer"
      BY <1>4, <2>1 DEF Deletion
    <3>2. view' = "feed" \/ awaiting' # {}
      <4>1. r.kind = "answer" => view = "feed" \/ awaiting # {}
        BY <1>1, <1>2, <1>4, <2>1, TakenInStep DEF FormIsCurrent
      <4>2. r.kind = "form" => view' = "feed"
        BY <1>3 DEF AfterSaving
      <4>3. r.kind = "answer" => view' = view
        BY <1>3 DEF AfterSaving
      <4> QED
        BY <1>3, <2>1, <4>1, <4>2, <4>3, RequestKinds
    <3> QED
      BY <3>1, <3>2 DEF SavesAreCurrent, FormIsCurrent
  <2>2. CASE s # "profile"
    <3>1. queue'["profile"] = queue["profile"] /\ stored'.profile = stored.profile
      BY <1>5, <1>6, <2>2 DEF Store
    <3>2. view' = view /\ form' = form
      BY <1>3, <2>2, RequestKinds DEF AfterSaving, Store
    <3> QED
      BY <1>3, <1>4, <3>1, <3>2 DEF SavesAreCurrent, FormIsCurrent
  <2> QED
    BY <2>1, <2>2
<1> QED
  BY <1>4, <1>7, <1>8, <1>9, <1>10

LEMMA DeleteInStep ==
    ASSUME Typed, InStep, NEW s \in Store, Delete(s)
    PROVE  InStep'
<1> USE DEF Typed, InStep
<1>1. queue[s] # <<>> /\ Taken(s) /\ queue[s][1] = Deletion
  BY TakenFrom DEF Delete
<1>2. 1 \in DOMAIN queue[s] /\ (Len(queue[s]) = 1 => queue'[s] = <<>>)
  BY <1>1, TakenInStep
<1>3. s \in awaiting /\ queue'[s] = <<>>
  BY <1>1, <1>2 DEF DeletionsLast
<1>4. \A t \in Store : t # s => queue'[t] = queue[t]
  BY <1>1, TakenFrom
<1>5. /\ awaiting' = awaiting \ {s} /\ loaded' = loaded
      /\ \A t \in Store : stored'[t] = IF t = s THEN NothingStored[s] ELSE stored[t]
  BY DEF Delete, TypeOK, StoreType, Store
<1>6. Ready /\ Ready'
  BY <1>1, <1>5 DEF NothingBegun, Quiet, Ready
<1>7. NothingBegun'
  BY <1>6 DEF NothingBegun
<1>8. DeletionsLast'
  BY <1>3, <1>4, <1>5 DEF DeletionsLast
<1>9. DeletedStaysEmpty'
  BY <1>3, <1>4, <1>5 DEF DeletedStaysEmpty
<1>10. SavesAreCurrent'
  <2>1. CASE s = "profile"
    BY <1>3, <2>1 DEF SavesAreCurrent
  <2>2. CASE s # "profile"
    BY <1>4, <1>5, <2>2 DEF SavesAreCurrent, Store
  <2> QED
    BY <2>1, <2>2
<1>11. CASE awaiting = {s}
  <2>1. \A t \in Store : queue'[t] = <<>> /\ stored'[t] = NothingStored[t]
    BY <1>3, <1>4, <1>5, <1>11 DEF DeletedStaysEmpty
  <2>2. screen' = NothingStored /\ form' = NoProfile
    BY <1>11 DEF Delete
  <2>3. ScreenFollows'
    BY <2>1, <2>2 DEF ScreenFollows
  <2>4. FormIsCurrent'
    BY <2>1, <2>2 DEF FormIsCurrent, NothingStored, Store
  <2> QED
    BY <1>7, <1>8, <1>9, <1>10, <2>3, <2>4
<1>12. CASE awaiting # {s}
  <2>1. awaiting' # {} /\ screen' = screen
    BY <1>3, <1>5, <1>12 DEF Delete
  <2>2. ScreenFollows'
    BY <1>3, <1>5, <1>6, <2>1 DEF ScreenFollows
  <2>3. FormIsCurrent'
    BY <2>1 DEF FormIsCurrent
  <2> QED
    BY <1>7, <1>8, <1>9, <1>10, <2>2, <2>3
<1> QED
  BY <1>11, <1>12

LEMMA FailInStep ==
    ASSUME Typed, InStep, undisturbed', NEW s \in Store, Fail(s)
    PROVE  InStep'
<1> USE DEF Typed, InStep
<1>1. queue[s] # <<>> /\ Taken(s) /\ Head(queue[s]) = queue[s][1]
  BY TakenFrom DEF Fail
<1>2. queue[s][1] # Deletion
  BY <1>1 DEF Fail, Disturb
<1>3. UNCHANGED <<stored, screen, loaded, view, form, awaiting>>
  BY <1>1, <1>2 DEF Fail
<1>4. /\ Ready /\ Ready' /\ DeletionsLast'
      /\ \A t \in Store : queue[t] = <<>> => queue'[t] = <<>>
      /\ s = "profile" => \A i \in DOMAIN queue'["profile"] : queue'["profile"][i] = Deletion
  BY <1>1, <1>2, <1>3, TakenRequestInStep
<1>5. NothingBegun' /\ DeletedStaysEmpty' /\ ScreenFollows'
  BY <1>3, <1>4 DEF NothingBegun, DeletedStaysEmpty, ScreenFollows
<1>6. CASE s = "profile"
  <2>1. SavesAreCurrent' /\ FormIsCurrent'
    BY <1>3, <1>4, <1>6 DEF SavesAreCurrent, FormIsCurrent, Deletion
  <2> QED
    BY <1>4, <1>5, <2>1
<1>7. CASE s # "profile"
  <2>1. queue'["profile"] = queue["profile"]
    BY <1>1, <1>7, TakenFrom DEF Store
  <2>2. SavesAreCurrent' /\ FormIsCurrent'
    BY <1>3, <1>4, <2>1 DEF SavesAreCurrent, FormIsCurrent
  <2> QED
    BY <1>4, <1>5, <2>2
<1> QED
  BY <1>6, <1>7

LEMMA NextInStep == Typed /\ AppInvariant /\ [Next]_vars => AppInvariant'
<1> SUFFICES ASSUME Typed, AppInvariant, [Next]_vars, undisturbed'
             PROVE  InStep'
  BY DEF AppInvariant
<1>1. CASE LoadDone \/ LoadFails \/ Reload
  BY <1>1, StartInStep
<1>2. CASE UNCHANGED vars
  <2>1. InStep
    BY <1>2 DEF vars, AppInvariant
  <2> QED
    BY <1>2, <2>1 DEF vars, InStep, NothingBegun, Quiet, Ready, DeletionsLast, DeletedStaysEmpty,
       ScreenFollows, SavesAreCurrent, FormIsCurrent
<1>3. ASSUME \/ \E p \in Policy, value \in Value : Answer(p, value)
             \/ \E p \in Policy : Hide(p)
             \/ RestorePolicies
             \/ \E p \in Policy : ToggleFavorite(p)
             \/ \E answers \in [Core -> Value] : SubmitForm(answers)
      PROVE  InStep'
  <2>1. undisturbed
    BY <1>3 DEF Answer, Hide, RestorePolicies, ToggleFavorite, SubmitForm, Disturb
  <2> QED
    BY <1>3, <2>1, CitizenInStep DEF AppInvariant
<1>4. CASE ResetLocalData
  BY <1>4, ResetInStep DEF AppInvariant, ResetLocalData, Disturb
<1>5. CASE OpenForm \/ CloseForm \/ NextDay
  BY <1>5, LocalInStep DEF AppInvariant, OpenForm, CloseForm, NextDay, Disturb
<1>6. ASSUME NEW s \in Store, Save(s) \/ Delete(s) \/ Fail(s)
      PROVE  InStep'
  <2>1. undisturbed
    BY <1>6 DEF Save, Delete, Fail, Disturb
  <2> QED
    BY <1>6, <2>1, SaveInStep, DeleteInStep, FailInStep DEF AppInvariant
<1> QED
  BY <1>1, <1>2, <1>3, <1>4, <1>5, <1>6 DEF Next

\* What the screen, the stores, the requests and the form have in common, as
\* long as none of the overlaps of Disturb has occurred.
THEOREM AppInvariantHolds == Spec => [](Typed /\ AppInvariant)
<1>1. Init => Typed /\ AppInvariant
  BY InitTyped, InitInStep DEF AppInvariant
<1>2. (Typed /\ AppInvariant) /\ [Next]_vars => (Typed /\ AppInvariant)'
  BY NextTyped, NextInStep
<1> QED
  BY <1>1, <1>2, PTL DEF Spec

\* With any number of answers, forms, hidden and favourite policies, resets,
\* reloads and failures, in any order in which the stores do their requests:
\* when all is done, the screen shows what is stored.
THEOREM ScreenAgrees == Spec => []ScreenIsStored
<1>1. Typed /\ AppInvariant => ScreenIsStored
  <2> SUFFICES ASSUME Typed, AppInvariant, Ready, Quiet, undisturbed
               PROVE  screen = stored
    BY DEF ScreenIsStored
  <2>1. awaiting = {}
    BY DEF AppInvariant, InStep, DeletionsLast, Quiet, Typed, TypeOK
  <2>2. \A s \in Store : screen[s] = stored[s]
    BY <2>1 DEF AppInvariant, InStep, ScreenFollows
  <2> QED
    BY <2>2, SameStores DEF Typed, TypeOK
<1> QED
  BY <1>1, AppInvariantHolds, PTL

\* No save takes back an answer to a field that it is not about.
THEOREM OthersAreKept == Spec => OthersKept
<1> DEFINE Kept ==
      undisturbed' =>
         \A f \in Field : stored.profile[f] # stored'.profile[f] =>
            LET r == Head(queue["profile"]) IN
            r = Deletion \/ f \in r.fields
<1>1. Typed /\ AppInvariant /\ [Next]_vars => [Kept]_vars
  <2> SUFFICES ASSUME Typed, AppInvariant, Next, undisturbed', NEW f \in Field,
                      stored.profile[f] # stored'.profile[f]
               PROVE  \/ Head(queue["profile"]) = Deletion
                      \/ f \in Head(queue["profile"]).fields
    OBVIOUS
  <2>1. PICK s \in Store : Save(s) \/ Delete(s)
    BY DEF Next, LoadDone, LoadFails, Reload, Answer, Hide, RestorePolicies, ToggleFavorite,
       ResetLocalData, OpenForm, CloseForm, SubmitForm, NextDay, Fail
  <2>2. undisturbed /\ InStep
    BY <2>1 DEF Save, Delete, AppInvariant
  <2>3. stored \in StoreType /\ TypeOK
    BY DEF Typed, TypeOK
  <2>4. queue[s] # <<>> /\ Taken(s)
    BY <2>1 DEF Save, Delete
  <2>5. Head(queue[s]) = queue[s][1] /\ queue[s][1] \in RequestType[s] \cup {Deletion}
    BY <2>3, <2>4, TakenFrom
  <2>6. s = "profile"
    <3>1. CASE Save(s)
      <4>1. queue[s][1] \in RequestType[s] /\ stored' = Applied(stored, queue[s][1])
        BY <2>5, <3>1 DEF Save, StoredAfter
      <4> QED
        BY <2>3, <4>1, AppliedType DEF Store
    <3>2. CASE Delete(s)
      BY <2>3, <3>2 DEF Delete, StoreType, Store
    <3> QED
      BY <2>1, <3>1, <3>2
  <2>7. CASE Delete(s)
    BY <2>6, <2>7 DEF Delete
  <2>8. CASE Save(s)
    <3>1. /\ queue["profile"][1] \in RequestType["profile"] /\ queue["profile"][1] # Deletion
          /\ stored' = Applied(stored, queue["profile"][1])
      BY <2>5, <2>6, <2>8 DEF Save, StoredAfter
    <3>2. stored'.profile = queue["profile"][1].profile
      BY <2>3, <3>1, AppliedProfile
    <3>3. 1 \in DOMAIN queue["profile"]
      BY <2>2, <2>4, <2>6, TakenInStep
    <3> QED
      BY <2>2, <2>5, <2>6, <3>1, <3>2, <3>3 DEF InStep, SavesAreCurrent
  <2> QED
    BY <2>1, <2>7, <2>8
<1>2. Spec => [][Kept]_vars
  BY <1>1, AppInvariantHolds, PTL DEF Spec
<1> QED
  BY <1>2 DEF OthersKept
-----------------------------------------------------------------------------
(***************************************************************************)
(* The verdicts.  What is computed from a rule down to its conditions has  *)
(* a value, since rules are trees.                                         *)
(***************************************************************************)
Parts(r) == IF IsCondition(r) THEN {} ELSE {r.of[i] : i \in DOMAIN r.of}

\* F[r][f] is the value of r when f has those of its parts.
ReadsParts(F, S) ==
    /\ F \in [Rule -> [[Rule -> S] -> S]]
    /\ \A r \in Rule, f, g \in [Rule -> S] :
          (\A q \in Parts(r) : f[q] = g[q]) => F[r][f] = F[r][g]

Solves(f, C, F, S) ==
    /\ f \in [Rule -> S]
    /\ C \subseteq Rule
    /\ \A r \in C : Parts(r) \subseteq C /\ f[r] = F[r][f]

LEMMA PartsOfRules ==
  ASSUME NEW r \in Rule
  PROVE  Parts(r) \subseteq Rule
  BY RulesAreClosed DEF Parts, ToSet

LEMMA LeastRule ==
  ASSUME NEW T, T \subseteq Rule, T # {}
  PROVE  \E r \in T : Parts(r) \cap T = {}
<1>1. PICK r \in T : IsCondition(r) \/ \A i \in DOMAIN r.of : r.of[i] \notin T
  BY RulesAreTrees
<1>2. Parts(r) \cap T = {}
  BY <1>1 DEF Parts
<1> QED
  BY <1>2

\* Two solutions agree where both are one.
LEMMA SolutionsAgree ==
  ASSUME NEW F, NEW S, ReadsParts(F, S),
         NEW f, NEW C, Solves(f, C, F, S), NEW g, NEW D, Solves(g, D, F, S),
         NEW r \in C \cap D
  PROVE  f[r] = g[r]
<1> DEFINE T == {q \in C \cap D : f[q] # g[q]}
<1> SUFFICES ASSUME T # {} PROVE FALSE
  OBVIOUS
<1>1. T \subseteq Rule
  BY DEF Solves
<1> HIDE DEF T
<1>2. PICK q \in T : Parts(q) \cap T = {}
  BY <1>1, LeastRule
<1> USE DEF T
<1>3. /\ Parts(q) \subseteq C \cap D
      /\ f[q] = F[q][f] /\ g[q] = F[q][g]
      /\ f \in [Rule -> S] /\ g \in [Rule -> S] /\ q \in Rule
  BY <1>2 DEF Solves
<1>4. \A x \in Parts(q) : f[x] = g[x]
  BY <1>2, <1>3
<1>5. F[q][f] = F[q][g]
  BY <1>3, <1>4 DEF ReadsParts
<1> QED
  BY <1>2, <1>3, <1>5

LEMMA RulesHaveValues ==
  ASSUME NEW F, NEW S, NEW base \in S, ReadsParts(F, S)
  PROVE  \E f \in [Rule -> S] : \A r \in Rule : f[r] = F[r][f]
<1> DEFINE Sol == UNION {C \in SUBSET Rule : \E g : Solves(g, C, F, S)}
           Val(r, v) == \E g, C : Solves(g, C, F, S) /\ r \in C /\ v = g[r]
           h == [r \in Rule |-> IF r \in Sol THEN CHOOSE v : Val(r, v) ELSE base]
<1>1. ASSUME NEW g, NEW C, Solves(g, C, F, S), NEW r \in C
      PROVE  h[r] = g[r]
  <2>1. r \in Rule /\ r \in Sol
    BY <1>1 DEF Solves
  <2>2. Val(r, g[r])
    BY <1>1
  <2>3. \A v : Val(r, v) => v = g[r]
    BY <1>1, SolutionsAgree
  <2>4. (CHOOSE v : Val(r, v)) = g[r]
    <3> HIDE DEF Val
    <3> QED
      BY <2>2, <2>3
  <2> HIDE DEF Sol, Val
  <2> QED
    BY <2>1, <2>4
<1>2. h \in [Rule -> S]
  <2> SUFFICES ASSUME NEW r \in Rule PROVE h[r] \in S
    OBVIOUS
  <2>1. CASE r \in Sol
    <3>1. PICK g, C : Solves(g, C, F, S) /\ r \in C
      BY <2>1
    <3>2. h[r] = g[r]
      BY <1>1, <3>1
    <3> QED
      BY <3>1, <3>2 DEF Solves
  <2>2. CASE r \notin Sol
    BY <2>2
  <2> QED
    BY <2>1, <2>2
<1> HIDE DEF h
<1>3. Solves(h, Sol, F, S)
  <2>1. Sol \subseteq Rule
    OBVIOUS
  <2>2. ASSUME NEW r \in Sol PROVE Parts(r) \subseteq Sol /\ h[r] = F[r][h]
    <3>1. PICK g, C : Solves(g, C, F, S) /\ r \in C
      OBVIOUS
    <3>2. C \subseteq Sol
      BY <3>1 DEF Solves
    <3>3. Parts(r) \subseteq C /\ g[r] = F[r][g] /\ g \in [Rule -> S] /\ r \in Rule
      BY <3>1 DEF Solves
    <3>4. h[r] = g[r] /\ \A q \in Parts(r) : h[q] = g[q]
      BY <1>1, <3>1, <3>3
    <3> HIDE DEF Sol
    <3>5. F[r][h] = F[r][g]
      BY <1>2, <3>3, <3>4 DEF ReadsParts
    <3> QED
      BY <3>2, <3>3, <3>4, <3>5
  <2> HIDE DEF Sol
  <2> QED
    BY <1>2, <2>1, <2>2 DEF Solves
<1>4. Sol = Rule
  <2> DEFINE T == Rule \ Sol
  <2> SUFFICES ASSUME T # {} PROVE FALSE
    OBVIOUS
  <2>1. PICK r \in T : Parts(r) \cap T = {}
    <3>1. T \subseteq Rule
      OBVIOUS
    <3> HIDE DEF T
    <3> QED
      BY <3>1, LeastRule
  <2>2. Parts(r) \subseteq Sol /\ r \in Rule /\ r \notin Sol
    BY <2>1, PartsOfRules
  <2> DEFINE k == [h EXCEPT ![r] = F[r][h]]
             C == Sol \cup {r}
  <2> HIDE DEF Sol
  <2>3. F[r][h] \in S
    BY <1>2, <2>2 DEF ReadsParts
  <2>4. k \in [Rule -> S] /\ k[r] = F[r][h] /\ \A q \in Sol : k[q] = h[q]
    BY <1>2, <1>3, <2>2, <2>3 DEF Solves
  <2> HIDE DEF k
  <2>5. ASSUME NEW q \in C PROVE Parts(q) \subseteq C /\ k[q] = F[q][k]
    <3>1. q \in Rule /\ Parts(q) \subseteq Sol
      BY <1>3, <2>2 DEF Solves
    <3>2. F[q][k] = F[q][h]
      <4>1. \A x \in Parts(q) : k[x] = h[x]
        BY <2>4, <3>1
      <4> QED
        BY <1>2, <2>4, <3>1, <4>1 DEF ReadsParts
    <3>3. CASE q = r
      BY <2>4, <3>1, <3>2, <3>3
    <3>4. CASE q \in Sol
      BY <1>3, <2>4, <3>1, <3>2, <3>4 DEF Solves
    <3> QED
      BY <3>3, <3>4
  <2>6. C \subseteq Rule
    BY <1>3, <2>2 DEF Solves
  <2> HIDE DEF C
  <2>7. Solves(k, C, F, S)
    BY <2>4, <2>5, <2>6 DEF Solves
  <2>8. C \subseteq Sol
    BY <2>6, <2>7 DEF Sol
  <2> QED
    BY <2>2, <2>8 DEF C
<1> QED
  BY <1>2, <1>3, <1>4 DEF Solves

\* The step of EvaluateRule and of Met.
VerdictOf(f, r, profile, today) ==
    IF IsCondition(r)
    THEN EvaluateCondition(r, profile, today)
    ELSE LET parts == {f[r.of[i]] : i \in DOMAIN r.of} IN
         IF r.kind = "and" THEN EvaluateAnd(parts) ELSE EvaluateOr(parts)

MetBy(f, r, answers) ==
    /\ IsCondition(r) => answers[r.field] \in r.accepts
    /\ r.kind = "and" => \A i \in DOMAIN r.of : f[r.of[i]]
    /\ r.kind = "or" => \E i \in DOMAIN r.of : f[r.of[i]]

LEMMA RuleKinds ==
  ASSUME NEW r \in Rule
  PROVE  /\ IsCondition(r) => r.field \in Field
         /\ ~IsCondition(r) => r.kind \in {"and", "or"}
         /\ IsCondition(r) => r.kind # "and" /\ r.kind # "or"
  BY RulesAreClosed DEF IsCondition

LEMMA VerdictIsStatus ==
  ASSUME NEW f, NEW r, NEW profile, NEW today
  PROVE  VerdictOf(f, r, profile, today) \in Status
<1>1. EvaluateCondition(r, profile, today) \in Status
  BY DEF EvaluateCondition, Status
<1>2. ASSUME NEW parts PROVE EvaluateAnd(parts) \in Status /\ EvaluateOr(parts) \in Status
  BY DEF EvaluateAnd, EvaluateOr, Undecided, Status
<1> QED
  BY <1>1, <1>2 DEF VerdictOf

LEMMA VerdictReadsParts ==
  ASSUME NEW f, NEW g, NEW r, NEW profile, NEW today, \A q \in Parts(r) : f[q] = g[q]
  PROVE  VerdictOf(f, r, profile, today) = VerdictOf(g, r, profile, today)
<1>1. CASE IsCondition(r)
  BY <1>1 DEF VerdictOf
<1>2. CASE ~IsCondition(r)
  <2>1. \A i \in DOMAIN r.of : f[r.of[i]] = g[r.of[i]]
    BY <1>2 DEF Parts
  <2>2. {f[r.of[i]] : i \in DOMAIN r.of} = {g[r.of[i]] : i \in DOMAIN r.of}
    BY <2>1
  <2> QED
    BY <1>2, <2>2 DEF VerdictOf
<1> QED
  BY <1>1, <1>2

PartVerdicts(r, profile, today) == {EvaluateRule(q, profile, today) : q \in Parts(r)}

\* EvaluateRule computes the verdict of a rule from those of its parts.
LEMMA VerdictValues ==
  ASSUME NEW profile, NEW today
  PROVE  \A r \in Rule :
            EvaluateRule(r, profile, today)
              = IF IsCondition(r)
                THEN EvaluateCondition(r, profile, today)
                ELSE LET parts == PartVerdicts(r, profile, today) IN
                     IF r.kind = "and" THEN EvaluateAnd(parts) ELSE EvaluateOr(parts)
<1> DEFINE F == [r \in Rule |-> [f \in [Rule -> Status] |-> VerdictOf(f, r, profile, today)]]
           Def(f) == [r \in Rule |-> VerdictOf(f, r, profile, today)]
           verdict == CHOOSE f : f = Def(f)
<1>1. ReadsParts(F, Status)
  <2>1. F \in [Rule -> [[Rule -> Status] -> Status]]
    BY VerdictIsStatus
  <2>2. ASSUME NEW r \in Rule, NEW f \in [Rule -> Status], NEW g \in [Rule -> Status],
               \A q \in Parts(r) : f[q] = g[q]
        PROVE  F[r][f] = F[r][g]
    BY <2>2, VerdictReadsParts
  <2> HIDE DEF F
  <2> QED
    BY <2>1, <2>2 DEF ReadsParts
<1>2. "NO" \in Status
  BY DEF Status
<1>3. PICK f \in [Rule -> Status] : \A r \in Rule : f[r] = F[r][f]
  <2> HIDE DEF F
  <2> QED
    BY <1>1, <1>2, RulesHaveValues
<1>4. f = Def(f)
  <2>1. \A r \in Rule : f[r] = VerdictOf(f, r, profile, today)
    BY <1>3
  <2> HIDE DEF F
  <2> QED
    BY <1>3, <2>1
<1>5. verdict = Def(verdict)
  BY <1>4, Zenon
<1>6. ASSUME NEW r PROVE EvaluateRule(r, profile, today) = verdict[r]
  BY DEF EvaluateRule, VerdictOf
<1> HIDE DEF verdict
<1>7. \A r \in Rule : verdict[r] = VerdictOf(verdict, r, profile, today)
  BY <1>5
<1> SUFFICES ASSUME NEW r \in Rule
             PROVE  EvaluateRule(r, profile, today)
                      = IF IsCondition(r)
                        THEN EvaluateCondition(r, profile, today)
                        ELSE LET parts == PartVerdicts(r, profile, today) IN
                             IF r.kind = "and" THEN EvaluateAnd(parts) ELSE EvaluateOr(parts)
  OBVIOUS
<1>8. EvaluateRule(r, profile, today) = VerdictOf(verdict, r, profile, today)
  BY <1>6, <1>7
<1>9. CASE IsCondition(r)
  BY <1>8, <1>9 DEF VerdictOf
<1>10. CASE ~IsCondition(r)
  <2>1. {verdict[r.of[i]] : i \in DOMAIN r.of} = PartVerdicts(r, profile, today)
    <3>1. {verdict[r.of[i]] : i \in DOMAIN r.of} = {verdict[q] : q \in Parts(r)}
      BY <1>10 DEF Parts
    <3> QED
      BY <1>6, <3>1 DEF PartVerdicts
  <2> QED
    BY <1>8, <1>10, <2>1 DEF VerdictOf
<1> QED
  BY <1>9, <1>10

\* Whether a rule is met by answers to every field follows from its parts.
LEMMA MetValues ==
  ASSUME NEW answers
  PROVE  \A r \in Rule :
            /\ Met(r, answers) \in BOOLEAN
            /\ IsCondition(r) => (Met(r, answers) <=> answers[r.field] \in r.accepts)
            /\ r.kind = "and" => (Met(r, answers) <=> \A q \in Parts(r) : Met(q, answers))
            /\ r.kind = "or" => (Met(r, answers) <=> \E q \in Parts(r) : Met(q, answers))
<1> DEFINE F == [r \in Rule |-> [f \in [Rule -> BOOLEAN] |-> MetBy(f, r, answers)]]
           Def(f) == [r \in Rule |-> MetBy(f, r, answers)]
           met == CHOOSE f : f = Def(f)
<1>0. ASSUME NEW f, NEW r \in Rule
      PROVE  /\ MetBy(f, r, answers) \in BOOLEAN
             /\ IsCondition(r) => (MetBy(f, r, answers) <=> answers[r.field] \in r.accepts)
             /\ r.kind = "and" => (MetBy(f, r, answers) <=> \A i \in DOMAIN r.of : f[r.of[i]])
             /\ r.kind = "or" => (MetBy(f, r, answers) <=> \E i \in DOMAIN r.of : f[r.of[i]])
  <2>1. MetBy(f, r, answers) \in BOOLEAN
    BY DEF MetBy
  <2>2. CASE IsCondition(r)
    <3>1. r.kind # "and" /\ r.kind # "or"
      BY <2>2 DEF IsCondition
    <3> QED
      BY <2>1, <2>2, <3>1, Zenon DEF MetBy
  <2>3. CASE ~IsCondition(r) /\ r.kind = "and"
    <3>1. r.kind # "or"
      BY <2>3
    <3> QED
      BY <2>1, <2>3, <3>1, Zenon DEF MetBy
  <2>4. CASE ~IsCondition(r) /\ r.kind = "or"
    <3>1. r.kind # "and"
      BY <2>4
    <3> QED
      BY <2>1, <2>4, <3>1, Zenon DEF MetBy
  <2> QED
    BY <2>2, <2>3, <2>4, RuleKinds
<1>1. ReadsParts(F, BOOLEAN)
  <2>1. F \in [Rule -> [[Rule -> BOOLEAN] -> BOOLEAN]]
    BY <1>0
  <2>2. ASSUME NEW r \in Rule, NEW f \in [Rule -> BOOLEAN], NEW g \in [Rule -> BOOLEAN],
               \A q \in Parts(r) : f[q] = g[q]
        PROVE  F[r][f] = F[r][g]
    <3>1. MetBy(f, r, answers) \in BOOLEAN /\ MetBy(g, r, answers) \in BOOLEAN
      BY <1>0
    <3>2. ~IsCondition(r) => \A i \in DOMAIN r.of : f[r.of[i]] = g[r.of[i]]
      BY <2>2 DEF Parts
    <3>3. MetBy(f, r, answers) <=> MetBy(g, r, answers)
      <4>1. CASE IsCondition(r)
        BY <1>0, <4>1, Zenon
      <4>2. CASE ~IsCondition(r) /\ r.kind = "and"
        BY <1>0, <3>2, <4>2, Zenon
      <4>3. CASE ~IsCondition(r) /\ r.kind = "or"
        BY <1>0, <3>2, <4>3, Zenon
      <4> QED
        BY <4>1, <4>2, <4>3, RuleKinds
    <3>4. MetBy(f, r, answers) = MetBy(g, r, answers)
      BY <3>1, <3>3
    <3> QED
      BY <3>4
  <2> HIDE DEF F
  <2> QED
    BY <2>1, <2>2 DEF ReadsParts
<1>2. FALSE \in BOOLEAN
  OBVIOUS
<1>3. PICK f \in [Rule -> BOOLEAN] : \A r \in Rule : f[r] = F[r][f]
  <2> DEFINE S == BOOLEAN
  <2>1. ReadsParts(F, S) /\ FALSE \in S
    BY <1>1
  <2> HIDE DEF F, S
  <2>2. PICK base \in S : TRUE
    BY <2>1
  <2>3. \E f \in [Rule -> S] : \A r \in Rule : f[r] = F[r][f]
    BY <2>1, <2>2, RulesHaveValues
  <2> QED
    BY <2>3, Zenon DEF S
<1>4. f = Def(f)
  <2>1. \A r \in Rule : f[r] = MetBy(f, r, answers)
    BY <1>3
  <2> HIDE DEF F
  <2> QED
    BY <1>3, <2>1
<1>5. met = Def(met)
  BY <1>4, Zenon
<1>6. ASSUME NEW r PROVE Met(r, answers) = met[r]
  BY DEF Met, MetBy
<1> HIDE DEF met
<1>7. \A r \in Rule : met[r] = MetBy(met, r, answers)
  BY <1>5
<1> SUFFICES ASSUME NEW r \in Rule
             PROVE  /\ Met(r, answers) \in BOOLEAN
                    /\ IsCondition(r) => (Met(r, answers) <=> answers[r.field] \in r.accepts)
                    /\ r.kind = "and" => (Met(r, answers) <=> \A q \in Parts(r) : Met(q, answers))
                    /\ r.kind = "or" => (Met(r, answers) <=> \E q \in Parts(r) : Met(q, answers))
  OBVIOUS
<1>8. Met(r, answers) = MetBy(met, r, answers)
  BY <1>6, <1>7
<1>9. Met(r, answers) \in BOOLEAN
  BY <1>0, <1>8
<1>10. IsCondition(r) => (Met(r, answers) <=> answers[r.field] \in r.accepts)
  BY <1>0, <1>8, Zenon
<1>11. ASSUME ~IsCondition(r)
       PROVE  /\ (\A i \in DOMAIN r.of : met[r.of[i]]) <=> \A q \in Parts(r) : Met(q, answers)
              /\ (\E i \in DOMAIN r.of : met[r.of[i]]) <=> \E q \in Parts(r) : Met(q, answers)
  <2>1. \A q : q \in Parts(r) <=> \E i \in DOMAIN r.of : q = r.of[i]
    BY <1>11 DEF Parts
  <2>2. \A q : Met(q, answers) = met[q]
    BY <1>6
  <2>3. (\A i \in DOMAIN r.of : met[r.of[i]]) <=> \A q \in Parts(r) : met[q]
    BY <2>1, Zenon
  <2>4. (\E i \in DOMAIN r.of : met[r.of[i]]) <=> \E q \in Parts(r) : met[q]
    BY <2>1, Zenon
  <2>5. (\A q \in Parts(r) : met[q]) <=> \A q \in Parts(r) : Met(q, answers)
    BY <2>2, Zenon
  <2>6. (\E q \in Parts(r) : met[q]) <=> \E q \in Parts(r) : Met(q, answers)
    BY <2>2, Zenon
  <2> QED
    BY <2>3, <2>4, <2>5, <2>6, Zenon
<1>12. r.kind = "and" => (Met(r, answers) <=> \A q \in Parts(r) : Met(q, answers))
  BY <1>0, <1>8, <1>11, RuleKinds, Zenon
<1>13. r.kind = "or" => (Met(r, answers) <=> \E q \in Parts(r) : Met(q, answers))
  BY <1>0, <1>8, <1>11, RuleKinds, Zenon
<1> QED
  BY <1>9, <1>10, <1>12, <1>13

\* A valid answer is the one the citizen keeps: a condition that is decided
\* stays so.
LEMMA ConditionIsFinal ==
  ASSUME NEW r \in Rule, IsCondition(r), NEW profile \in ProfileType, NEW today \in Nat,
         NEW answers \in Completions(profile, today)
  PROVE  LET verdict == EvaluateCondition(r, profile, today) IN
         /\ verdict = "YES" => answers[r.field] \in r.accepts
         /\ verdict = "NO" => answers[r.field] \notin r.accepts
<1> DEFINE answer == profile[r.field]
<1>1. r.field \in Field /\ answer \in AnswerType \cup {Unanswered}
  BY RuleKinds DEF ProfileType
<1>2. ASSUME answer # Unanswered, ~IsStale(answer, today)
      PROVE  answers[r.field] = answer.value
  <2>1. answer.until \in Nat \cup {NoEnd}
    BY <1>1, <1>2 DEF AnswerType
  <2>2. answer.until # NoEnd => answer.until \in Nat /\ ~(answer.until < today)
    BY <1>2, <2>1 DEF IsStale
  <2>3. ValidOn(answer, today)
    BY <1>2, <2>2 DEF ValidOn
  <2> QED
    BY <1>1, <2>3 DEF Completions
<1> QED
  BY <1>2 DEF EvaluateCondition

LEMMA AndDecided ==
  ASSUME NEW parts, parts \subseteq Status
  PROVE  /\ EvaluateAnd(parts) = "YES" => parts \subseteq {"YES"}
         /\ EvaluateAnd(parts) = "NO" => "NO" \in parts
  BY DEF EvaluateAnd, Undecided, Status

LEMMA OrDecided ==
  ASSUME NEW parts, parts \subseteq Status
  PROVE  /\ EvaluateOr(parts) = "NO" => parts \subseteq {"NO"}
         /\ EvaluateOr(parts) = "YES" => "YES" \in parts
  BY DEF EvaluateOr, Undecided, Status

LEMMA VerdictsAreStatus ==
  ASSUME NEW r \in Rule, NEW profile, NEW today
  PROVE  EvaluateRule(r, profile, today) \in Status
<1>1. ASSUME NEW parts PROVE EvaluateAnd(parts) \in Status /\ EvaluateOr(parts) \in Status
  BY DEF EvaluateAnd, EvaluateOr, Undecided, Status
<1>2. EvaluateCondition(r, profile, today) \in Status
  BY DEF EvaluateCondition, Status
<1> QED
  BY <1>1, <1>2, VerdictValues

LEMMA RuleIsFinal ==
  ASSUME NEW rule \in Rule, NEW profile \in ProfileType, NEW today \in Nat
  PROVE  IsFinal(rule, profile, today)
<1> DEFINE V(r) == EvaluateRule(r, profile, today)
<1> SUFFICES ASSUME NEW answers \in Completions(profile, today)
             PROVE  (V(rule) = "YES" => Met(rule, answers)) /\ (V(rule) = "NO" => ~Met(rule, answers))
  BY DEF IsFinal
<1> DEFINE Fine(r) == (V(r) = "YES" => Met(r, answers)) /\ (V(r) = "NO" => ~Met(r, answers))
           T == {r \in Rule : ~Fine(r)}
<1> SUFFICES ASSUME T # {} PROVE FALSE
  OBVIOUS
<1>1. PICK r \in T : Parts(r) \cap T = {}
  <2>1. T \subseteq Rule
    OBVIOUS
  <2> HIDE DEF T
  <2> QED
    BY <2>1, LeastRule
<1>2. r \in Rule /\ ~Fine(r)
  OBVIOUS
<1>3. \A q \in Parts(r) : q \in Rule /\ Fine(q)
  BY <1>1, <1>2, PartsOfRules
<1> DEFINE parts == PartVerdicts(r, profile, today)
<1>4. parts \subseteq Status
  BY <1>3, VerdictsAreStatus DEF PartVerdicts
<1>5. CASE IsCondition(r)
  <2>1. V(r) = EvaluateCondition(r, profile, today)
    BY <1>2, <1>5, VerdictValues
  <2>2. Met(r, answers) <=> answers[r.field] \in r.accepts
    BY <1>2, <1>5, MetValues, Zenon
  <2>3. (V(r) = "YES" => answers[r.field] \in r.accepts)
        /\ (V(r) = "NO" => answers[r.field] \notin r.accepts)
    BY <1>2, <1>5, <2>1, ConditionIsFinal
  <2> QED
    BY <1>2, <2>2, <2>3, Zenon
<1>6. CASE ~IsCondition(r) /\ r.kind = "and"
  <2>1. V(r) = EvaluateAnd(parts)
    BY <1>2, <1>6, VerdictValues
  <2>2. Met(r, answers) <=> \A q \in Parts(r) : Met(q, answers)
    BY <1>2, <1>6, MetValues, Zenon
  <2>3. V(r) = "YES" => \A q \in Parts(r) : V(q) = "YES"
    BY <1>4, <2>1, AndDecided DEF PartVerdicts
  <2>4. V(r) = "NO" => \E q \in Parts(r) : V(q) = "NO"
    BY <1>4, <2>1, AndDecided DEF PartVerdicts
  <2> HIDE DEF V
  <2> QED
    BY <1>2, <1>3, <2>2, <2>3, <2>4, Zenon
<1>7. CASE ~IsCondition(r) /\ r.kind = "or"
  <2>1. V(r) = EvaluateOr(parts)
    <3>1. r \in Rule /\ ~IsCondition(r) /\ r.kind # "and"
      BY <1>2, <1>7
    <3> QED
      BY <3>1, VerdictValues
  <2>2. Met(r, answers) <=> \E q \in Parts(r) : Met(q, answers)
    BY <1>2, <1>7, MetValues, Zenon
  <2>3. V(r) = "NO" => \A q \in Parts(r) : V(q) = "NO"
    BY <1>4, <2>1, OrDecided DEF PartVerdicts
  <2>4. V(r) = "YES" => \E q \in Parts(r) : V(q) = "YES"
    BY <1>4, <2>1, OrDecided DEF PartVerdicts
  <2> HIDE DEF V
  <2> QED
    BY <1>2, <1>3, <2>2, <2>3, <2>4, Zenon
<1> QED
  BY <1>2, <1>5, <1>6, <1>7, RuleKinds

\* A policy the app shows as met, or hides as not met, stays so whatever the
\* citizen answers to the questions that are open: evaluateRule decides only
\* what the answers that are still valid decide.
THEOREM VerdictFinal == Spec => []VerdictIsFinal
<1>1. TypeOK => VerdictIsFinal
  <2> SUFFICES ASSUME TypeOK, NEW p \in policies
               PROVE  IsFinal(RuleOf[p], screen.profile, day)
    BY DEF VerdictIsFinal
  <2>1. day \in Nat /\ screen.profile \in ProfileType /\ p \in Policy
    BY DEF TypeOK, StoreType
  <2>2. RuleOf[p] \in Rule
    BY <2>1, AppAssumption
  <2> QED
    BY <2>1, <2>2, RuleIsFinal
<1> QED
  BY <1>1, TypeCorrect, PTL

===============================================================================
