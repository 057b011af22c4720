------------------------- MODULE AdminSettings_proofs -------------------------
(***************************************************************************)
(* What holds of the settings for any workers, bodies and defaults.        *)
(***************************************************************************)
EXTENDS AdminSettings, TLAPS

LEMMA NonEmpty ==
    ASSUME NEW S, NEW s \in Seq(S), s # <<>>
    PROVE  Len(s) \in Nat \ {0}
OBVIOUS

LEMMA FirstOfPlaces ==
    ASSUME NEW S \in SUBSET DOMAIN Order, S # {}
    PROVE  FirstOf(S) \in S /\ \A i \in S : FirstOf(S) <= i
<1>1. S \subseteq {1, 2, 3}
  BY DEF Order
<1>2. \E i \in S : \A j \in S : i <= j
  <2>1. CASE 1 \in S
    BY <1>1, <2>1
  <2>2. CASE 1 \notin S /\ 2 \in S
    BY <1>1, <2>2
  <2>3. CASE 1 \notin S /\ 2 \notin S
    BY <1>1, <2>3
  <2> QED
    BY <2>1, <2>2, <2>3
<1> QED
  BY <1>2 DEF FirstOf

\* Every body has something to apply.
LEMMA SomethingToApply ==
    ASSUME NEW w \in Worker, req[w] \in Request, Len(req[w].sections) # 0
    PROVE  ToApply(w) \in SUBSET DOMAIN Order /\ ToApply(w) # {}
<1>1. req[w].sections \in Seq(Section)
  BY DEF Request
<1>2. 1 \in DOMAIN req[w].sections /\ req[w].sections[1] \in Section
  BY <1>1
<1>3. Section \subseteq {Order[i] : i \in DOMAIN Order}
  BY DEF Section, Field, SectionOf, Order
<1> QED
  BY <1>2, <1>3 DEF ToApply

LEMMA NoPatchType == NoPatch \in [Field -> Value]
BY DEF NoPatch, Value

LEMMA NoRequestType == NoRequest \in Request
<1>1. "base_url" \in Field /\ SectionOf["base_url"] = "llm"
  BY DEF Field, SectionOf
<1>2. "llm" \in Section
  BY <1>1 DEF Section
<1>3. <<"llm">> \in Seq(Section)
  BY <1>2
<1> QED
  BY <1>3, NoPatchType DEF NoRequest, Request

LEMMA MergeType ==
    ASSUME NEW old \in [Field -> Value], NEW patch \in [Field -> Value]
    PROVE  /\ Merge(old, patch) \in [Field -> Value]
           /\ old \in [Field -> Nat] => Merge(old, patch) \in [Field -> Nat]
BY DEF Merge, Value

LEMMA OverlayType ==
    ASSUME NEW T, NEW old \in [Field -> T], NEW new \in [Field -> T], NEW s
    PROVE  Overlay(old, new, s) \in [Field -> T]
BY DEF Overlay

LEMMA EffectiveType == TypeOK => Effective \in [Field -> Nat]
BY DefaultAssumption, MergeType DEF TypeOK, Effective, Value

LEMMA ForgetType ==
    ASSUME TypeOK, NEW W, Forget(W), UNCHANGED stored, runtime' \in [Field -> Nat],
           shared' \subseteq Section
    PROVE  TypeOK'
BY NoPatchType, NoRequestType DEF TypeOK, Forget

LEMMA SettingsInit == Init => TypeOK
BY DefaultAssumption, NoPatchType, NoRequestType DEF Init, TypeOK

LEMMA TrackType == TypeOK /\ Track => shared' \subseteq Section
BY DEF TypeOK, Track, Section

LEMMA StepType == ASSUME TypeOK, NEW w \in Worker, Step(w), Track PROVE TypeOK'
<1>0. shared' \subseteq Section
  BY TrackType
<1>1. CASE Begin(w)
  <2> PICK r \in Requests[w] : req' = [req EXCEPT ![w] = r]
    BY <1>1 DEF Begin
  <2>1. r \in Request /\ r.sections # <<>>
    BY RequestsAssumption
  <2>2. r.sections \in Seq(Section)
    BY <2>1 DEF Request
  <2>3. Len(r.sections) \in Nat \ {0}
    BY <2>1, <2>2, NonEmpty
  <2> QED
    BY <1>0, <1>1, <2>1, <2>3 DEF TypeOK, Begin
<1>2. CASE Validate(w)
  <2>1. CASE Accepted(w)
    BY <1>0, <1>2, <2>1 DEF TypeOK, Validate, Goto
  <2>2. CASE ~Accepted(w)
    BY <1>0, <1>2, <2>2, ForgetType DEF TypeOK, Validate
  <2> QED
    BY <2>1, <2>2
<1>3. CASE MergeSection(w)
  <2>1. stored \in [Field -> Value] /\ Patch(w) \in [Field -> Value]
        /\ pending[w] \in [Field -> Value]
    BY DEF TypeOK, Patch, Request
  <2>2. Overlay(pending[w], Merge(stored, Patch(w)), Here(w)) \in [Field -> Value]
    BY <2>1, MergeType, OverlayType
  <2>3. pending' \in [Worker -> [Field -> Value]]
    BY <1>3, <2>2 DEF TypeOK, MergeSection
  <2>4. at[w] \in Nat \ {0} /\ at[w] <= Len(req[w].sections) /\ Len(req[w].sections) \in Nat
    BY <1>3 DEF TypeOK, MergeSection, Request
  <2>5. CASE AtEnd(w)
    <3>1. Goto(w, "write", 1) /\ UNCHANGED <<stored, runtime>>
      BY <1>3, <2>5 DEF MergeSection
    <3> QED
      BY <1>0, <2>3, <2>4, <3>1 DEF TypeOK, Goto
  <2>6. CASE ~AtEnd(w)
    <3>1. Goto(w, "validate", at[w] + 1) /\ UNCHANGED <<stored, runtime>>
      BY <1>3, <2>6 DEF MergeSection
    <3>2. at[w] + 1 <= Len(req[w].sections)
      BY <2>4, <2>6 DEF AtEnd
    <3> QED
      BY <1>0, <2>3, <2>4, <3>1, <3>2 DEF TypeOK, Goto
  <2> QED
    BY <2>5, <2>6
<1>4. CASE WriteSection(w)
  <2>1. stored' \in [Field -> Value]
    BY <1>4, OverlayType DEF TypeOK, WriteSection
  <2>2. at[w] \in Nat \ {0} /\ at[w] <= Len(req[w].sections) /\ Len(req[w].sections) \in Nat
    BY <1>4 DEF TypeOK, WriteSection, Request
  <2>3. CASE AtEnd(w)
    <3>1. Goto(w, "apply", FirstOf(ToApply(w))) /\ UNCHANGED <<runtime, pending>>
      BY <1>4, <2>3 DEF WriteSection
    <3>2. req[w] \in Request /\ Len(req[w].sections) # 0
      BY <2>2 DEF TypeOK
    <3>3. FirstOf(ToApply(w)) \in DOMAIN Order
      BY <3>2, FirstOfPlaces, SomethingToApply
    <3>4. FirstOf(ToApply(w)) \in Nat \ {0}
      BY <3>3 DEF Order
    <3> QED
      BY <1>0, <2>1, <2>2, <3>1, <3>4 DEF TypeOK, Goto
  <2>4. CASE ~AtEnd(w)
    <3>1. Goto(w, "write", at[w] + 1) /\ UNCHANGED <<runtime, pending>>
      BY <1>4, <2>4 DEF WriteSection
    <3>2. at[w] + 1 <= Len(req[w].sections)
      BY <2>2, <2>4 DEF AtEnd
    <3> QED
      BY <1>0, <2>1, <2>2, <3>1, <3>2 DEF TypeOK, Goto
  <2> QED
    BY <2>3, <2>4
<1>5. CASE ApplySection(w)
  <2>1. runtime \in [Field -> Nat] /\ runtime \in [Field -> Value]
        /\ pending[w] \in [Field -> Value]
    BY DEF TypeOK, Value
  <2>2. Merge(runtime, pending[w]) \in [Field -> Nat]
    BY <2>1, MergeType
  <2>3. runtime' \in [Field -> Nat]
    BY <1>5, <2>1, <2>2, OverlayType DEF ApplySection
  <2>4. CASE Forget({w})
    BY <1>0, <1>5, <2>3, <2>4, ForgetType DEF ApplySection
  <2> DEFINE rest == {i \in ToApply(w) : i > at[w]}
  <2>5. CASE rest # {} /\ Goto(w, "apply", FirstOf(rest)) /\ UNCHANGED pending
    <3>1. rest \in SUBSET DOMAIN Order
      BY DEF ToApply
    <3>2. FirstOf(rest) \in DOMAIN Order
      BY <2>5, <3>1, FirstOfPlaces
    <3>3. FirstOf(rest) \in Nat \ {0}
      BY <3>2 DEF Order
    <3> HIDE DEF rest
    <3> QED
      BY <1>0, <1>5, <2>3, <2>5, <3>3 DEF TypeOK, ApplySection, Goto
  <2> QED
    BY <1>5, <2>4, <2>5 DEF ApplySection
<1> QED
  BY <1>1, <1>2, <1>3, <1>4, <1>5 DEF Step

LEMMA RestartType == TypeOK /\ Restart => TypeOK'
BY EffectiveType, ForgetType DEF TypeOK, Restart

(* The table, the singletons and the locals of every PUT keep their types,  *)
(* through restarts at any step: above all, the singletons of llm/config.py *)
(* have a value for every field whatever the table lacks.                   *)
THEOREM SettingsTypeCorrect == Spec => []TypeOK
<1>1. TypeOK /\ [Next]_vars => TypeOK'
  BY StepType, RestartType DEF Next, TypeOK, vars
<1> QED
  BY <1>1, SettingsInit, PTL DEF Spec
-------------------------------------------------------------------------------
(* Sections that no two requests have had in common since the start.       *)

Own(f) == SectionOf[f] \notin shared

\* Two requests under way on one field share its section.
SharedInv ==
    \A v, w \in Worker : v # w =>
        \A f \in Field : Under(v, f) /\ Under(w, f) => ~Own(f)

Among(w, f, n) ==
    \E j \in DOMAIN req[w].sections : j <= n /\ req[w].sections[j] = SectionOf[f]

\* How far the request of w is with field f.
Merged(w, f) ==
    \/ pc[w] \in {"validate", "merge"} /\ Among(w, f, at[w] - 1)
    \/ Committed(w) /\ Covers(req[w], f)

Passed(w, f) == Merged(w, f) \/ (pc[w] = "merge" /\ SectionOf[f] = Here(w))

Written(w, f) ==
    \/ pc[w] = "write" /\ Among(w, f, at[w] - 1)
    \/ pc[w] = "apply" /\ Covers(req[w], f)

Applied(w, f) ==
    /\ pc[w] = "apply" /\ Covers(req[w], f)
    /\ \E i \in DOMAIN Order : i < at[w] /\ Order[i] = SectionOf[f]

Touches(patch) == patch["chunk_size"] # Unset \/ patch["chunk_overlap"] # Unset

FromRequests(w) == pc[w] # "idle" => req[w] \in Requests[w]

AtToApply(w) == pc[w] = "apply" => at[w] \in ToApply(w)

\* What is merged is what the table has come to, still, with the body over it.
PendingMerged(w) ==
    \A f \in Field : Own(f) /\ Merged(w, f) =>
        pending[w][f] = Merge(stored, Patch(w))[f]

FieldsChecked(w) ==
    \A f \in Field : Passed(w, f) /\ Patch(w)[f] # Unset => Patch(w)[f] \in Legal[f]

\* The pair is legal still, although it was checked with an earlier read.
PairChecked(w) ==
    Own("chunk_size") /\ Passed(w, "chunk_size") /\ Touches(Patch(w)) =>
        PairLegal(Merge(Effective, Patch(w)))

WrittenStored(w) ==
    \A f \in Field : Own(f) /\ Written(w, f) => stored[f] = pending[w][f]

AppliedInUse(w) ==
    \A f \in Field :
        Own(f) /\ Applied(w, f) /\ pending[w][f] # Unset => runtime[f] = pending[w][f]

RequestInv(w) ==
    /\ FromRequests(w) /\ AtToApply(w) /\ PendingMerged(w) /\ FieldsChecked(w)
    /\ PairChecked(w) /\ WrittenStored(w) /\ AppliedInUse(w)

\* What the table does not have nobody ever set.
DefaultKept ==
    \A f \in Field : Own(f) /\ stored[f] = Unset => runtime[f] = Default[f]

Coming(w, f) == Committed(w) /\ Covers(req[w], f) /\ ~Applied(w, f)

InUseOrComing ==
    \A f \in Field :
        Own(f) => runtime[f] = Effective[f] \/ \E w \in Worker : Coming(w, f)

MatchInv ==
    /\ \A w \in Worker : RequestInv(w)
    /\ SharedInv /\ DefaultKept /\ InUseOrComing

LEMMA PairFields ==
    /\ "chunk_size" \in Field /\ "chunk_overlap" \in Field
    /\ SectionOf["chunk_size"] = "retrieval" /\ SectionOf["chunk_overlap"] = "retrieval"
BY DEF Field, SectionOf

LEMMA MergeAt ==
    ASSUME NEW old, NEW patch, NEW f \in Field
    PROVE  Merge(old, patch)[f] = IF patch[f] # Unset THEN patch[f] ELSE old[f]
BY DEF Merge

LEMMA EffectiveAt ==
    ASSUME NEW f \in Field
    PROVE  Effective[f] = IF stored[f] # Unset THEN stored[f] ELSE Default[f]
BY MergeAt DEF Effective

LEMMA OverlayAt ==
    ASSUME NEW old, NEW new, NEW s, NEW f \in Field
    PROVE  Overlay(old, new, s)[f] = IF SectionOf[f] = s THEN new[f] ELSE old[f]
BY DEF Overlay

\* The pair is legal or not by the values of its two fields.
LEMMA PairByValues ==
    ASSUME NEW c, NEW d, c["chunk_size"] = d["chunk_size"],
           c["chunk_overlap"] = d["chunk_overlap"]
    PROVE  PairLegal(c) <=> PairLegal(d)
BY DEF PairLegal

LEMMA Progress ==
    ASSUME NEW w \in Worker, NEW f \in Field
    PROVE  /\ Merged(w, f) => Under(w, f)
           /\ Written(w, f) => Merged(w, f) /\ Committed(w)
           /\ Applied(w, f) => Written(w, f)
           /\ Committed(w) /\ Covers(req[w], f) => Merged(w, f) /\ Under(w, f)
BY DEF Merged, Written, Applied, Under, Committed, Covers, Among

LEMMA IdleNothing ==
    ASSUME NEW w \in Worker, NEW f \in Field, pc[w] = "idle"
    PROVE  ~Passed(w, f) /\ ~Merged(w, f) /\ ~Written(w, f) /\ ~Applied(w, f)
BY DEF Merged, Written, Applied, Passed, Committed

\* A step of one thread leaves the requests of the others as they were.
LEMMA StepOthers ==
    ASSUME TypeOK, NEW w \in Worker, Step(w), NEW v \in Worker, v # w
    PROVE  /\ pc'[v] = pc[v] /\ req'[v] = req[v]
           /\ at'[v] = at[v] /\ pending'[v] = pending[v]
BY DEF TypeOK, Step, Begin, Validate, MergeSection, WriteSection, ApplySection, Goto, Forget

LEMMA SameProgress ==
    ASSUME NEW v \in Worker, NEW f \in Field,
           pc'[v] = pc[v], req'[v] = req[v], at'[v] = at[v]
    PROVE  /\ Merged(v, f)' = Merged(v, f) /\ Passed(v, f)' = Passed(v, f)
           /\ Written(v, f)' = Written(v, f) /\ Applied(v, f)' = Applied(v, f)
           /\ Committed(v)' = Committed(v) /\ Under(v, f)' = Under(v, f)
           /\ Patch(v)' = Patch(v) /\ ToApply(v)' = ToApply(v)
BY DEF Merged, Passed, Written, Applied, Committed, Under, Among, Here, Patch, ToApply
LEMMA HereCovered ==
    ASSUME TypeOK, NEW w \in Worker, NEW f \in Field,
           pc[w] \in {"validate", "merge", "write"}, SectionOf[f] = Here(w)
    PROVE  Under(w, f)
<1>1. at[w] \in Nat \ {0} /\ at[w] <= Len(req[w].sections)
      /\ req[w].sections \in Seq(Section)
  BY DEF TypeOK, Request
<1>2. at[w] \in DOMAIN req[w].sections
  BY <1>1
<1> QED
  BY <1>2 DEF Under, Covers, Here

\* What is under way in one thread no other thread writes or applies.
LEMMA OthersKeep ==
    ASSUME TypeOK, SharedInv, \A u \in Worker : RequestInv(u),
           NEW w \in Worker, Step(w), NEW v \in Worker, v # w,
           NEW f \in Field, Own(f), Under(v, f)
    PROVE  stored'[f] = stored[f] /\ runtime'[f] = runtime[f]
<1>2. ~Under(w, f)
  BY DEF SharedInv
<1>3. CASE Begin(w) \/ Validate(w) \/ MergeSection(w)
  BY <1>3 DEF Begin, Validate, MergeSection
<1>4. CASE WriteSection(w)
  <2>1. SectionOf[f] # Here(w)
    BY <1>2, <1>4, HereCovered DEF WriteSection
  <2> QED
    BY <1>4, <2>1, OverlayAt DEF WriteSection
<1>5. CASE ApplySection(w)
  <2>1. SectionOf[f] # Order[at[w]]
    BY <1>2, <1>5 DEF ApplySection, RequestInv, AtToApply, ToApply, Under, Covers
  <2> QED
    BY <1>5, <2>1, OverlayAt DEF ApplySection
<1> QED
  BY <1>3, <1>4, <1>5 DEF Step

LEMMA OthersStep ==
    ASSUME TypeOK, SharedInv, \A u \in Worker : RequestInv(u),
           NEW w \in Worker, Step(w), shared \subseteq shared', NEW v \in Worker, v # w
    PROVE  RequestInv(v)'
<1>0. \A f \in Field : Own(f)' => Own(f)
  BY DEF Own
<1>1. /\ pc'[v] = pc[v] /\ req'[v] = req[v]
      /\ at'[v] = at[v] /\ pending'[v] = pending[v]
  BY StepOthers
<1>2. \A f \in Field :
         Own(f) /\ Under(v, f) => stored'[f] = stored[f] /\ runtime'[f] = runtime[f]
  BY OthersKeep
<1>3. Patch(v)' = Patch(v) /\ ToApply(v)' = ToApply(v)
  BY <1>1 DEF Patch, ToApply
<1>4. FromRequests(v)' /\ AtToApply(v)'
  BY <1>1, <1>3 DEF RequestInv, FromRequests, AtToApply
<1>5. PendingMerged(v)'
  <2> SUFFICES ASSUME NEW f \in Field, Own(f)', Merged(v, f)'
               PROVE  pending'[v][f] = Merge(stored', Patch(v)')[f]
    BY DEF PendingMerged
  <2>1. Own(f) /\ Merged(v, f) /\ Under(v, f)
    BY <1>0, <1>1, SameProgress, Progress
  <2>2. pending[v][f] = Merge(stored, Patch(v))[f]
    BY <2>1 DEF RequestInv, PendingMerged
  <2> QED
    BY <1>1, <1>2, <1>3, <2>1, <2>2, MergeAt
<1>6. FieldsChecked(v)'
  BY <1>1, <1>3, SameProgress DEF RequestInv, FieldsChecked
<1>7. PairChecked(v)'
  <2> SUFFICES ASSUME Own("chunk_size")', Passed(v, "chunk_size")', Touches(Patch(v))
               PROVE  PairLegal(Merge(Effective', Patch(v)))
    BY <1>3 DEF PairChecked
  <2>1. Own("chunk_size") /\ Own("chunk_overlap") /\ Passed(v, "chunk_size")
    BY <1>0, <1>1, PairFields, SameProgress DEF Own
  <2>2. Under(v, "chunk_size")
    BY <2>1, PairFields, Progress, HereCovered DEF Passed
  <2>3. Under(v, "chunk_overlap")
    BY <2>2, PairFields DEF Under, Covers
  <2>4. /\ stored'["chunk_size"] = stored["chunk_size"]
        /\ stored'["chunk_overlap"] = stored["chunk_overlap"]
    BY <1>2, <2>1, <2>2, <2>3, PairFields
  <2>5. \A f \in {"chunk_size", "chunk_overlap"} :
           Merge(Effective', Patch(v))[f] = Merge(Effective, Patch(v))[f]
    BY <2>4, PairFields, MergeAt DEF Effective
  <2>6. PairLegal(Merge(Effective, Patch(v)))
    BY <2>1 DEF RequestInv, PairChecked
  <2> QED
    BY <2>5, <2>6 DEF PairLegal
<1>8. WrittenStored(v)'
  <2> SUFFICES ASSUME NEW f \in Field, Own(f)', Written(v, f)'
               PROVE  stored'[f] = pending'[v][f]
    BY DEF WrittenStored
  <2>1. Own(f) /\ Written(v, f) /\ Under(v, f)
    BY <1>0, <1>1, SameProgress, Progress
  <2> QED
    BY <1>1, <1>2, <2>1 DEF RequestInv, WrittenStored
<1>9. AppliedInUse(v)'
  <2> SUFFICES ASSUME NEW f \in Field, Own(f)', Applied(v, f)',
                      pending'[v][f] # Unset
               PROVE  runtime'[f] = pending'[v][f]
    BY DEF AppliedInUse
  <2>1. Own(f) /\ Applied(v, f) /\ Under(v, f)
    BY <1>0, <1>1, SameProgress, Progress
  <2> QED
    BY <1>1, <1>2, <2>1 DEF RequestInv, AppliedInUse
<1> QED
  BY <1>4, <1>5, <1>6, <1>7, <1>8, <1>9 DEF RequestInv
LEMMA Forgotten ==
    ASSUME NEW W, Forget(W), NEW w \in Worker, w \in W
    PROVE  RequestInv(w)' /\ pc'[w] = "idle"
<1>1. pc'[w] = "idle"
  BY DEF Forget
<1>2. \A f \in Field : ~Passed(w, f)' /\ ~Merged(w, f)' /\ ~Written(w, f)' /\ ~Applied(w, f)'
  BY <1>1 DEF Merged, Written, Applied, Passed, Committed
<1>3. FromRequests(w)'
  BY <1>1 DEF FromRequests
<1> QED
  BY <1>1, <1>2, <1>3, PairFields
     DEF RequestInv, AtToApply, PendingMerged, FieldsChecked, PairChecked, WrittenStored,
         AppliedInUse

LEMMA BeginOwn ==
    ASSUME TypeOK, NEW w \in Worker, Begin(w)
    PROVE  RequestInv(w)'
<1>1. pc'[w] = "validate" /\ req'[w] \in Requests[w] /\ at'[w] = 1
  BY DEF TypeOK, Begin
<1>2. \A r \in Requests[w] : DOMAIN r.sections \subseteq Nat \ {0}
  <2>1. \A r \in Requests[w] : r.sections \in Seq(Section)
    BY RequestsAssumption DEF Request
  <2> QED
    BY <2>1
<1>3. \A f \in Field : ~Among(w, f, at[w] - 1)'
  BY <1>1, <1>2 DEF Among
<1>4. \A f \in Field : ~Passed(w, f)' /\ ~Merged(w, f)' /\ ~Written(w, f)' /\ ~Applied(w, f)'
  BY <1>1, <1>3 DEF Merged, Written, Applied, Passed, Committed
<1>5. FromRequests(w)'
  BY <1>1 DEF FromRequests
<1> QED
  BY <1>1, <1>4, <1>5, PairFields
     DEF RequestInv, AtToApply, PendingMerged, FieldsChecked, PairChecked, WrittenStored,
         AppliedInUse

LEMMA ValidateOwn ==
    ASSUME TypeOK, NEW w \in Worker, RequestInv(w), Validate(w),
           shared \subseteq shared'
    PROVE  RequestInv(w)'
<1>0. \A f \in Field : Own(f)' => Own(f)
  BY DEF Own
<1>1. CASE Forget({w})
  BY <1>1, Forgotten
<1>2. CASE Accepted(w) /\ Goto(w, "merge", at[w]) /\ UNCHANGED <<pending, stored, runtime>>
  <2>1. pc[w] = "validate" /\ pc'[w] = "merge" /\ at'[w] = at[w] /\ UNCHANGED req
    BY <1>2 DEF TypeOK, Validate, Goto
  <2>2. Patch(w)' = Patch(w) /\ Here(w)' = Here(w)
    BY <2>1 DEF Patch, Here
  <2>3. \A f \in Field : Merged(w, f)' = Merged(w, f)
    BY <2>1 DEF Merged, Among, Committed
  <2>4. \A f \in Field : Passed(w, f)' = (Passed(w, f) \/ SectionOf[f] = Here(w))
    BY <2>1, <2>2, <2>3 DEF Passed
  <2>5. \A f \in Field : ~Written(w, f)' /\ ~Applied(w, f)'
    BY <2>1 DEF Written, Applied
  <2>6. PendingMerged(w)'
    BY <1>0, <1>2, <2>2, <2>3 DEF RequestInv, PendingMerged
  <2>7. FieldsChecked(w)'
    BY <1>2, <2>2, <2>4 DEF RequestInv, FieldsChecked, Accepted
  <2>8. PairChecked(w)'
    <3>1. Effective' = Effective
      BY <1>2 DEF Effective
    <3> QED
      BY <1>0, <1>2, <2>2, <2>4, <3>1, PairFields
         DEF RequestInv, PairChecked, Accepted, Touches
  <2> QED
    BY <2>1, <2>5, <2>6, <2>7, <2>8
       DEF RequestInv, FromRequests, AtToApply, WrittenStored, AppliedInUse
<1> QED
  BY <1>1, <1>2 DEF Validate

LEMMA AmongNext ==
    ASSUME TypeOK, NEW w \in Worker, NEW f \in Field,
           pc[w] \in {"validate", "merge", "write"}
    PROVE  /\ Among(w, f, at[w]) <=> Among(w, f, at[w] - 1) \/ SectionOf[f] = Here(w)
           /\ AtEnd(w) => (Among(w, f, at[w]) <=> Covers(req[w], f))
           /\ ~Among(w, f, 0)
<1>1. at[w] \in Nat \ {0} /\ at[w] <= Len(req[w].sections)
      /\ req[w].sections \in Seq(Section)
  BY DEF TypeOK, Request
<1>2. DOMAIN req[w].sections = 1 .. Len(req[w].sections) /\ Len(req[w].sections) \in Nat
  BY <1>1
<1> QED
  BY <1>1, <1>2 DEF Among, AtEnd, Covers, Here

LEMMA MergeOwn ==
    ASSUME TypeOK, NEW w \in Worker, RequestInv(w), MergeSection(w),
           shared \subseteq shared'
    PROVE  /\ RequestInv(w)'
           /\ \A f \in Field : Passed(w, f)' => Passed(w, f)
<1>0. \A f \in Field : Own(f)' => Own(f)
  BY DEF Own
<1>1. pc[w] = "merge" /\ UNCHANGED <<req, stored, runtime>>
  BY DEF MergeSection, Goto
<1>2. \/ AtEnd(w) /\ pc'[w] = "write" /\ at'[w] = 1
      \/ ~AtEnd(w) /\ pc'[w] = "validate" /\ at'[w] = at[w] + 1
  BY DEF TypeOK, MergeSection, Goto
<1>3. at[w] \in Nat
  BY DEF TypeOK
<1>4. Patch(w)' = Patch(w) /\ Effective' = Effective
  BY <1>1 DEF Patch, Effective
<1>5. \A f \in Field : Passed(w, f) <=> Among(w, f, at[w])
  <2> TAKE f \in Field
  <2>1. Among(w, f, at[w]) <=> Among(w, f, at[w] - 1) \/ SectionOf[f] = Here(w)
    BY <1>1, AmongNext
  <2>2. Merged(w, f) <=> Among(w, f, at[w] - 1)
    BY <1>1 DEF Merged, Committed
  <2> QED
    BY <1>1, <2>1, <2>2 DEF Passed
<1>6. \A f \in Field : Merged(w, f)' <=> Passed(w, f)
  <2>1. CASE AtEnd(w)
    BY <1>1, <1>2, <1>5, <2>1, AmongNext DEF Merged, Committed
  <2>2. CASE ~AtEnd(w)
    <3>1. at'[w] - 1 = at[w]
      BY <1>2, <1>3, <2>2
    <3>2. \A f \in Field : Among(w, f, at[w] - 1)' <=> Among(w, f, at[w])
      BY <1>1, <3>1 DEF Among
    <3> QED
      BY <1>2, <1>5, <2>2, <3>2 DEF Merged, Committed
  <2> QED
    BY <2>1, <2>2
<1>7. \A f \in Field : Passed(w, f)' <=> Passed(w, f)
  <2>1. \A f \in Field : Passed(w, f)' <=> Merged(w, f)'
    BY <1>2 DEF Passed
  <2> QED
    BY <1>6, <2>1
<1>8. \A f \in Field : ~Written(w, f)' /\ ~Applied(w, f)'
  <2>1. \A f \in Field : ~Among(w, f, 0)'
    BY <1>1, AmongNext DEF Among
  <2> QED
    BY <1>2, <2>1 DEF Written, Applied
<1>9. PendingMerged(w)'
  <2> SUFFICES ASSUME NEW f \in Field, Own(f)', Merged(w, f)'
               PROVE  pending'[w][f] = Merge(stored, Patch(w))[f]
    BY <1>1, <1>4 DEF PendingMerged
  <2>1. pending'[w] = Overlay(pending[w], Merge(stored, Patch(w)), Here(w))
    BY DEF TypeOK, MergeSection
  <2>2. Merged(w, f) \/ SectionOf[f] = Here(w)
    BY <1>6 DEF Passed
  <2> QED
    BY <1>0, <2>1, <2>2, OverlayAt DEF RequestInv, PendingMerged
<1>10. FieldsChecked(w)' /\ PairChecked(w)'
  BY <1>0, <1>4, <1>7, PairFields DEF RequestInv, FieldsChecked, PairChecked
<1> QED
  BY <1>1, <1>2, <1>7, <1>8, <1>9, <1>10
     DEF RequestInv, FromRequests, AtToApply, WrittenStored, AppliedInUse
\* What a write does to a field of its section is what the merge did to the body.
LEMMA WriteAt ==
    ASSUME TypeOK, NEW w \in Worker, RequestInv(w), WriteSection(w), NEW f \in Field
    PROVE  /\ SectionOf[f] = Here(w) =>
                /\ stored'[f] = pending[w][f]
                /\ Own(f) => stored'[f] = Merge(stored, Patch(w))[f]
                /\ Under(w, f)
           /\ SectionOf[f] # Here(w) => stored'[f] = stored[f]
<1>1. stored' = Overlay(stored, pending[w], Here(w)) /\ pc[w] = "write"
  BY DEF WriteSection
<1>2. CASE SectionOf[f] = Here(w)
  <2>1. Under(w, f) /\ Merged(w, f)
    BY <1>1, <1>2, HereCovered, Progress DEF Under, Committed
  <2> QED
    BY <1>1, <1>2, <2>1, OverlayAt DEF RequestInv, PendingMerged
<1> QED
  BY <1>1, <1>2, OverlayAt

LEMMA WriteGoes ==
    ASSUME TypeOK, NEW w \in Worker, WriteSection(w)
    PROVE  /\ UNCHANGED <<req, pending, runtime>>
           /\ pc[w] = "write"
           /\ \/ AtEnd(w) /\ pc'[w] = "apply" /\ at'[w] = FirstOf(ToApply(w))
              \/ ~AtEnd(w) /\ pc'[w] = "write" /\ at'[w] = at[w] + 1
BY DEF TypeOK, WriteSection, Goto

\* At the first place nothing has been applied.
LEMMA NoneBefore ==
    ASSUME NEW w \in Worker, req[w] \in Request, Len(req[w].sections) # 0,
           NEW f \in Field, Covers(req[w], f)
    PROVE  /\ FirstOf(ToApply(w)) \in ToApply(w)
           /\ ~\E i \in DOMAIN Order : i < FirstOf(ToApply(w)) /\ Order[i] = SectionOf[f]
<1>1. ToApply(w) \in SUBSET DOMAIN Order /\ ToApply(w) # {}
  BY SomethingToApply
<1>2. FirstOf(ToApply(w)) \in ToApply(w) /\ \A i \in ToApply(w) : FirstOf(ToApply(w)) <= i
  BY <1>1, FirstOfPlaces
<1>3. \A i \in DOMAIN Order : Order[i] = SectionOf[f] => i \in ToApply(w)
  BY DEF ToApply, Covers
<1>4. \A i \in DOMAIN Order : i \in Nat
  BY DEF Order
<1> QED
  BY <1>1, <1>2, <1>3, <1>4

LEMMA WriteOwn ==
    ASSUME TypeOK, NEW w \in Worker, RequestInv(w), WriteSection(w),
           shared \subseteq shared'
    PROVE  RequestInv(w)' /\ \A f \in Field : ~Applied(w, f)'
<1>0. \A f \in Field : Own(f)' => Own(f)
  BY DEF Own
<1>1. /\ UNCHANGED <<req, pending, runtime>>
      /\ pc[w] = "write" /\ pc'[w] \in {"write", "apply"}
  BY WriteGoes
<1>2. Patch(w)' = Patch(w)
  BY <1>1 DEF Patch
<1>3. /\ \A f \in Field : Merged(w, f)' <=> Merged(w, f)
      /\ \A f \in Field : Passed(w, f)' <=> Passed(w, f)
  BY <1>1 DEF Merged, Passed, Committed
<1>4. at[w] \in Nat \ {0} /\ at[w] <= Len(req[w].sections) /\ req[w] \in Request
      /\ Len(req[w].sections) \in Nat
  BY <1>1 DEF TypeOK, Request
<1>5. \A f \in Field : Written(w, f)' => Written(w, f) \/ SectionOf[f] = Here(w)
  <2> SUFFICES ASSUME NEW f \in Field, Written(w, f)'
               PROVE  Written(w, f) \/ SectionOf[f] = Here(w)
    OBVIOUS
  <2>1. Among(w, f, at[w])
    <3>1. CASE AtEnd(w)
      BY <1>1, <3>1, WriteGoes, AmongNext DEF Written
    <3>2. CASE ~AtEnd(w)
      <4>1. at'[w] - 1 = at[w] /\ pc'[w] = "write"
        BY <1>4, <3>2, WriteGoes
      <4> QED
        BY <1>1, <4>1 DEF Written, Among
    <3> QED
      BY <3>1, <3>2
  <2> QED
    BY <1>1, <2>1, AmongNext DEF Written
<1>6. AtToApply(w)' /\ \A f \in Field : ~Applied(w, f)'
  <2>1. CASE ~AtEnd(w)
    BY <2>1, WriteGoes DEF AtToApply, Applied
  <2>2. CASE AtEnd(w)
    <3>1. pc'[w] = "apply" /\ at'[w] = FirstOf(ToApply(w)) /\ ToApply(w)' = ToApply(w)
      BY <1>1, <2>2, WriteGoes DEF ToApply
    <3>2. \A f \in Field : ~Applied(w, f)'
      BY <1>1, <1>4, <3>1, NoneBefore DEF Applied
    <3>3. FirstOf(ToApply(w)) \in ToApply(w)
      BY <1>4, SomethingToApply, FirstOfPlaces
    <3> QED
      BY <3>1, <3>2, <3>3 DEF AtToApply
  <2> QED
    BY <2>1, <2>2
<1>7. PendingMerged(w)'
  <2> SUFFICES ASSUME NEW f \in Field, Own(f)', Merged(w, f)
               PROVE  pending[w][f] = Merge(stored', Patch(w))[f]
    BY <1>1, <1>2, <1>3 DEF PendingMerged
  <2>1. Own(f) /\ pending[w][f] = Merge(stored, Patch(w))[f]
    BY <1>0 DEF RequestInv, PendingMerged
  <2> QED
    BY <2>1, WriteAt, MergeAt
<1>8. FieldsChecked(w)'
  BY <1>2, <1>3 DEF RequestInv, FieldsChecked
<1>9. PairChecked(w)'
  <2> SUFFICES ASSUME Own("chunk_size")', Passed(w, "chunk_size"), Touches(Patch(w))
               PROVE  PairLegal(Merge(Effective', Patch(w)))
    BY <1>2, <1>3, PairFields DEF PairChecked
  <2>0. Own("chunk_size") /\ Own("chunk_overlap")
    BY <1>0, PairFields DEF Own
  <2>1. \A f \in {"chunk_size", "chunk_overlap"} :
           Merge(Effective', Patch(w))[f] = Merge(Effective, Patch(w))[f]
    BY <2>0, PairFields, WriteAt, MergeAt DEF Effective
  <2>2. PairLegal(Merge(Effective, Patch(w)))
    BY <2>0 DEF RequestInv, PairChecked
  <2> QED
    BY <2>1, <2>2, PairFields DEF PairLegal
<1>10. WrittenStored(w)'
  <2> SUFFICES ASSUME NEW f \in Field, Own(f)', Written(w, f)'
               PROVE  stored'[f] = pending[w][f]
    BY <1>1 DEF WrittenStored
  <2> QED
    BY <1>0, <1>5, WriteAt DEF RequestInv, WrittenStored
<1> QED
  BY <1>1, <1>6, <1>7, <1>8, <1>9, <1>10
     DEF RequestInv, FromRequests, AppliedInUse

\* The section that is applied, and the fields of it.
LEMMA ApplyAt ==
    ASSUME TypeOK, NEW w \in Worker, RequestInv(w), ApplySection(w), NEW f \in Field
    PROVE  /\ SectionOf[f] = Order[at[w]] =>
                /\ Under(w, f) /\ Merged(w, f) /\ Written(w, f)
                /\ runtime'[f] = IF pending[w][f] # Unset THEN pending[w][f] ELSE runtime[f]
           /\ SectionOf[f] # Order[at[w]] => runtime'[f] = runtime[f]
<1>1. runtime' = Overlay(runtime, Merge(runtime, pending[w]), Order[at[w]]) /\ pc[w] = "apply"
  BY DEF ApplySection
<1>2. CASE SectionOf[f] = Order[at[w]]
  <2>1. at[w] \in ToApply(w)
    BY <1>1 DEF RequestInv, AtToApply
  <2>2. Covers(req[w], f)
    BY <1>2, <2>1 DEF ToApply, Covers
  <2>3. Under(w, f) /\ Merged(w, f) /\ Written(w, f)
    BY <1>1, <2>2 DEF Under, Merged, Written, Committed
  <2> QED
    BY <1>1, <1>2, <2>3, OverlayAt, MergeAt
<1> QED
  BY <1>1, <1>2, OverlayAt

\* An earlier place is behind, and everything behind was applied.
LEMMA ApplyGoes ==
    ASSUME TypeOK, NEW w \in Worker, RequestInv(w), ApplySection(w)
    PROVE  \/ /\ Forget({w})
              /\ \A i \in ToApply(w) : i <= at[w]
           \/ /\ UNCHANGED <<req, pending>> /\ pc'[w] = "apply"
              /\ at'[w] \in ToApply(w) /\ at'[w] > at[w]
              /\ \A i \in ToApply(w) : i < at'[w] => i <= at[w]
<1> DEFINE rest == {i \in ToApply(w) : i > at[w]}
<1>1. ToApply(w) \subseteq DOMAIN Order /\ DOMAIN Order \subseteq Nat /\ at[w] \in Nat
  BY DEF ToApply, Order, TypeOK
<1>2. CASE rest = {}
  BY <1>1, <1>2 DEF ApplySection
<1>3. CASE rest # {}
  <2>1. UNCHANGED <<req, pending>> /\ pc'[w] = "apply" /\ at'[w] = FirstOf(rest)
    BY <1>3 DEF TypeOK, ApplySection, Goto
  <2>2. FirstOf(rest) \in rest /\ \A i \in rest : FirstOf(rest) <= i
    BY <1>1, <1>3, FirstOfPlaces
  <2> QED
    BY <1>1, <2>1, <2>2
<1> QED
  BY <1>2, <1>3

LEMMA ApplyOwn ==
    ASSUME TypeOK, NEW w \in Worker, RequestInv(w), ApplySection(w),
           shared \subseteq shared'
    PROVE  RequestInv(w)'
<1>0. \A f \in Field : Own(f)' => Own(f)
  BY DEF Own
<1>1. CASE Forget({w})
  BY <1>1, Forgotten
<1>2. CASE /\ UNCHANGED <<req, pending>> /\ pc'[w] = "apply"
           /\ at'[w] \in ToApply(w) /\ at'[w] > at[w]
           /\ \A i \in ToApply(w) : i < at'[w] => i <= at[w]
  <2>1. pc[w] = "apply" /\ UNCHANGED stored
    BY DEF ApplySection
  <2>2. Patch(w)' = Patch(w) /\ ToApply(w)' = ToApply(w) /\ Effective' = Effective
    BY <1>2, <2>1 DEF Patch, ToApply, Effective
  <2>3. \A f \in Field : /\ Merged(w, f)' <=> Merged(w, f)
                         /\ Passed(w, f)' <=> Passed(w, f)
                         /\ Written(w, f)' <=> Written(w, f)
    BY <1>2, <2>1 DEF Merged, Passed, Written, Committed
  <2>4. AppliedInUse(w)'
    <3> SUFFICES ASSUME NEW f \in Field, Own(f)', Applied(w, f)',
                        pending[w][f] # Unset
                 PROVE  runtime'[f] = pending[w][f]
      BY <1>2 DEF AppliedInUse
    <3>1. PICK i \in DOMAIN Order : i < at'[w] /\ Order[i] = SectionOf[f]
      BY DEF Applied
    <3>2. i \in ToApply(w) /\ Covers(req[w], f)
      BY <1>2, <3>1 DEF ToApply, Applied, Covers
    <3>3. i <= at[w] /\ i \in Nat /\ at[w] \in Nat
      BY <1>2, <3>1, <3>2 DEF TypeOK, Order
    <3>4. CASE i = at[w]
      BY <3>1, <3>4, ApplyAt
    <3>5. CASE i < at[w]
      <4>1. Applied(w, f)
        BY <2>1, <3>1, <3>2, <3>5 DEF Applied
      <4>2. runtime[f] = pending[w][f]
        BY <1>0, <4>1 DEF RequestInv, AppliedInUse
      <4> QED
        BY <4>2, ApplyAt
    <3> QED
      BY <3>3, <3>4, <3>5
  <2>5. PendingMerged(w)' /\ FieldsChecked(w)' /\ WrittenStored(w)'
    BY <1>0, <1>2, <2>1, <2>2, <2>3
       DEF RequestInv, PendingMerged, FieldsChecked, WrittenStored
  <2>6. PairChecked(w)'
    BY <1>0, <2>2, <2>3, PairFields DEF RequestInv, PairChecked
  <2> QED
    BY <1>2, <2>1, <2>2, <2>4, <2>5, <2>6 DEF RequestInv, FromRequests, AtToApply
<1> QED
  BY <1>1, <1>2, ApplyGoes
\* What another thread brings still comes.
LEMMA StillComing ==
    ASSUME TypeOK, NEW w \in Worker, Step(w), NEW v \in Worker, v # w,
           NEW f \in Field, Coming(v, f)
    PROVE  Coming(v, f)'
BY StepOthers, SameProgress DEF Coming, Committed, Covers

\* Steps that touch neither the table nor a singleton.
LEMMA QuietStep ==
    ASSUME TypeOK, MatchInv, NEW w \in Worker,
           Begin(w) \/ Validate(w) \/ MergeSection(w), shared \subseteq shared'
    PROVE  DefaultKept' /\ InUseOrComing'
<1>0. \A f \in Field : Own(f)' => Own(f)
  BY DEF Own
<1>1. UNCHANGED <<stored, runtime>> /\ ~Committed(w) /\ Step(w)
  BY DEF Begin, Validate, MergeSection, Committed, Step
<1>2. Effective' = Effective
  BY <1>1 DEF Effective
<1>3. InUseOrComing'
  BY <1>0, <1>1, <1>2, StillComing DEF MatchInv, InUseOrComing, Coming
<1> QED
  BY <1>0, <1>1, <1>2, <1>3 DEF MatchInv, DefaultKept

LEMMA WriteStep ==
    ASSUME TypeOK, MatchInv, NEW w \in Worker, WriteSection(w), shared \subseteq shared'
    PROVE  DefaultKept' /\ InUseOrComing'
<1>0. \A f \in Field : Own(f)' => Own(f)
  BY DEF Own
<1>1. RequestInv(w) /\ Step(w)
  BY DEF MatchInv, Step
<1>2. /\ UNCHANGED <<req, pending, runtime>>
      /\ pc[w] = "write" /\ pc'[w] \in {"write", "apply"}
  BY WriteGoes
<1>3. DefaultKept'
  <2> SUFFICES ASSUME NEW f \in Field, Own(f)', stored'[f] = Unset
               PROVE  runtime[f] = Default[f]
    BY <1>2 DEF DefaultKept
  <2>1. Own(f) /\ stored[f] = Unset
    BY <1>0, <1>1, WriteAt, MergeAt
  <2> QED
    BY <2>1 DEF MatchInv, DefaultKept
<1>4. InUseOrComing'
  <2> SUFFICES ASSUME NEW f \in Field, Own(f)'
               PROVE  runtime[f] = Effective'[f] \/ \E v \in Worker : Coming(v, f)'
    BY <1>2 DEF InUseOrComing
  <2>1. CASE SectionOf[f] = Here(w)
    <3>1. Coming(w, f)'
      BY <1>1, <1>2, <2>1, WriteAt, WriteOwn DEF Coming, Committed, Under
    <3> QED
      BY <3>1
  <2>2. CASE SectionOf[f] # Here(w)
    <3>1. Effective'[f] = Effective[f]
      BY <1>1, <2>2, WriteAt, MergeAt DEF Effective
    <3>2. CASE Coming(w, f)
      <4>1. Coming(w, f)'
        BY <1>1, <1>2, <3>2, WriteOwn DEF Coming, Committed
      <4> QED
        BY <4>1
    <3>3. CASE ~Coming(w, f)
      BY <1>0, <1>1, <3>1, <3>3, StillComing DEF MatchInv, InUseOrComing
    <3> QED
      BY <3>2, <3>3
  <2> QED
    BY <2>1, <2>2
<1> QED
  BY <1>3, <1>4

LEMMA ApplyStep ==
    ASSUME TypeOK, MatchInv, NEW w \in Worker, ApplySection(w), shared \subseteq shared'
    PROVE  DefaultKept' /\ InUseOrComing'
<1>0. \A f \in Field : Own(f)' => Own(f)
  BY DEF Own
<1>1. RequestInv(w) /\ Step(w) /\ UNCHANGED stored /\ pc[w] = "apply"
  BY DEF MatchInv, Step, ApplySection
<1>2. Effective' = Effective
  BY <1>1 DEF Effective
<1>3. DefaultKept'
  <2> SUFFICES ASSUME NEW f \in Field, Own(f)', stored[f] = Unset
               PROVE  runtime'[f] = Default[f]
    BY <1>1 DEF DefaultKept
  <2>0. Own(f)
    BY <1>0
  <2>1. SectionOf[f] = Order[at[w]] => pending[w][f] = Unset
    BY <1>1, <2>0, ApplyAt DEF RequestInv, WrittenStored
  <2> QED
    BY <1>1, <2>0, <2>1, ApplyAt DEF MatchInv, DefaultKept
<1>4. InUseOrComing'
  <2> SUFFICES ASSUME NEW f \in Field, Own(f)'
               PROVE  runtime'[f] = Effective[f] \/ \E v \in Worker : Coming(v, f)'
    BY <1>2 DEF InUseOrComing
  <2>1. CASE SectionOf[f] = Order[at[w]]
    <3>1. /\ stored[f] = pending[w][f]
          /\ runtime'[f] = IF pending[w][f] # Unset THEN pending[w][f] ELSE runtime[f]
      BY <1>0, <1>1, <2>1, ApplyAt DEF RequestInv, WrittenStored
    <3> QED
      BY <1>0, <3>1, EffectiveAt DEF MatchInv, DefaultKept
  <2>2. CASE SectionOf[f] # Order[at[w]]
    <3>1. runtime'[f] = runtime[f]
      BY <1>1, <2>2, ApplyAt
    <3>2. CASE Coming(w, f)
      <4>1. PICK i \in DOMAIN Order : Order[i] = SectionOf[f]
        BY DEF Field, SectionOf, Order
      <4>2. i \in ToApply(w) /\ i \in Nat /\ at[w] \in Nat
        BY <3>2, <4>1 DEF Coming, Covers, ToApply, TypeOK, Order
      <4>3. i > at[w]
        BY <1>1, <2>2, <3>2, <4>1, <4>2 DEF Coming, Applied
      <4>4. /\ UNCHANGED <<req, pending>> /\ pc'[w] = "apply"
            /\ at'[w] \in ToApply(w)
            /\ \A k \in ToApply(w) : k < at'[w] => k <= at[w]
        <5>1. ~(i <= at[w])
          BY <4>2, <4>3
        <5> QED
          BY <1>1, <4>2, <5>1, ApplyGoes
      <4>5. ~(i < at'[w])
        BY <4>2, <4>3, <4>4
      <4>6. \A k \in DOMAIN Order : Order[k] = SectionOf[f] => k = i
        BY <4>1 DEF Order
      <4>7. Coming(w, f)'
        BY <3>2, <4>4, <4>5, <4>6 DEF Coming, Committed, Applied
      <4> QED
        BY <4>7
    <3>3. CASE ~Coming(w, f)
      BY <1>0, <1>1, <3>1, <3>3, StillComing DEF MatchInv, InUseOrComing
    <3> QED
      BY <3>2, <3>3
  <2> QED
    BY <2>1, <2>2
<1> QED
  BY <1>3, <1>4

LEMMA RestartMatches ==
    ASSUME TypeOK, Restart
    PROVE  MatchInv'
<1>1. UNCHANGED stored /\ runtime' = Effective /\ Effective' = Effective
  BY DEF Restart, Effective
<1>2. \A w \in Worker : RequestInv(w)' /\ pc'[w] = "idle"
  BY Forgotten DEF Restart
<1>3. DefaultKept' /\ InUseOrComing'
  BY <1>1, EffectiveAt DEF DefaultKept, InUseOrComing
<1>4. SharedInv'
  BY <1>2 DEF SharedInv, Under
<1> QED
  BY <1>2, <1>3, <1>4 DEF MatchInv

LEMMA MatchInit == Init => MatchInv
<1> SUFFICES ASSUME Init PROVE MatchInv
  OBVIOUS
<1>1. \A w \in Worker : pc[w] = "idle"
  BY DEF Init
<1>2. \A w \in Worker : RequestInv(w)
  BY <1>1, IdleNothing, PairFields
     DEF RequestInv, FromRequests, AtToApply, PendingMerged, FieldsChecked, PairChecked,
         WrittenStored, AppliedInUse
<1>3. \A f \in Field : stored[f] = Unset /\ runtime[f] = Default[f] /\ Effective[f] = Default[f]
  BY EffectiveAt DEF Init, NoPatch
<1> QED
  BY <1>1, <1>2, <1>3 DEF MatchInv, SharedInv, Under, DefaultKept, InUseOrComing

LEMMA TrackShares == Track => SharedInv' /\ shared \subseteq shared'
BY DEF Track, SharedInv, Own

LEMMA MatchNext ==
    ASSUME TypeOK, MatchInv, [Next]_vars
    PROVE  MatchInv'
<1>1. ASSUME NEW w \in Worker, Step(w), Track PROVE MatchInv'
  <2>1. (\A v \in Worker : RequestInv(v)) /\ SharedInv
    BY DEF MatchInv
  <2>2. SharedInv' /\ shared \subseteq shared'
    BY <1>1, TrackShares
  <2>3. \A v \in Worker : v # w => RequestInv(v)'
    BY <1>1, <2>1, <2>2, OthersStep
  <2>4. RequestInv(w)'
    BY <1>1, <2>1, <2>2, BeginOwn, ValidateOwn, MergeOwn, WriteOwn, ApplyOwn DEF Step
  <2>5. DefaultKept' /\ InUseOrComing'
    BY <1>1, <2>2, QuietStep, WriteStep, ApplyStep DEF Step
  <2> QED
    BY <2>2, <2>3, <2>4, <2>5 DEF MatchInv
<1>2. CASE UNCHANGED vars
  <2>1. \A w \in Worker : RequestInv(w)'
    <3> TAKE w \in Worker
    <3>1. /\ pc'[w] = pc[w] /\ req'[w] = req[w] /\ at'[w] = at[w]
          /\ UNCHANGED <<stored, runtime, pending, shared>>
      BY <1>2 DEF vars
    <3>2. \A f \in Field :
             /\ Merged(w, f)' = Merged(w, f) /\ Passed(w, f)' = Passed(w, f)
             /\ Written(w, f)' = Written(w, f) /\ Applied(w, f)' = Applied(w, f)
             /\ Own(f)' = Own(f)
      BY <3>1, SameProgress DEF Own
    <3>3. Patch(w)' = Patch(w) /\ ToApply(w)' = ToApply(w) /\ Effective' = Effective
      BY <3>1 DEF Patch, ToApply, Effective
    <3> QED
      BY <3>1, <3>2, <3>3, PairFields
         DEF MatchInv, RequestInv, FromRequests, AtToApply, PendingMerged, FieldsChecked,
             PairChecked, WrittenStored, AppliedInUse
  <2>2. InUseOrComing'
    BY <1>2 DEF MatchInv, InUseOrComing, Coming, Committed, Applied, Effective, Own, vars
  <2> QED
    BY <1>2, <2>1, <2>2 DEF MatchInv, DefaultKept, SharedInv, Under, Own, vars
<1> QED
  BY <1>1, <1>2, RestartMatches DEF Next

LEMMA SettingsNext == TypeOK /\ MatchInv /\ [Next]_vars => TypeOK' /\ MatchInv'
BY StepType, RestartType, MatchNext DEF Next, TypeOK, vars

\* A write of a section that was never shared keeps the pair legal.
LEMMA WriteKeepsPair ==
    ASSUME TypeOK, MatchInv, NEW w \in Worker, WriteSection(w),
           PairLegal(Effective), "retrieval" \notin shared
    PROVE  PairLegal(Effective)'
<1>1. RequestInv(w) /\ Own("chunk_size") /\ Own("chunk_overlap")
  BY PairFields DEF MatchInv, Own
<1>2. pc[w] = "write"
  BY WriteGoes
<1>3. CASE Here(w) = "retrieval"
  <2>1. \A f \in {"chunk_size", "chunk_overlap"} :
           Effective'[f] = Merge(Effective, Patch(w))[f]
    BY <1>1, <1>3, PairFields, WriteAt, MergeAt DEF Effective
  <2>2. Passed(w, "chunk_size")
    BY <1>1, <1>2, <1>3, PairFields, WriteAt, Progress DEF Passed, Committed, Under
  <2>3. CASE Touches(Patch(w))
    BY <1>1, <2>1, <2>2, <2>3 DEF RequestInv, PairChecked, PairLegal
  <2>4. CASE ~Touches(Patch(w))
    <3>1. \A f \in {"chunk_size", "chunk_overlap"} : Effective'[f] = Effective[f]
      BY <2>1, <2>4, PairFields, MergeAt DEF Touches
    <3> QED
      BY <3>1 DEF PairLegal
  <2> QED
    BY <2>3, <2>4
<1>4. CASE Here(w) # "retrieval"
  <2>1. \A f \in {"chunk_size", "chunk_overlap"} : Effective'[f] = Effective[f]
    BY <1>1, <1>4, PairFields, WriteAt, MergeAt DEF Effective
  <2> QED
    BY <2>1 DEF PairLegal
<1> QED
  BY <1>3, <1>4

\* Only a write changes what the table comes to.
LEMMA EffectiveKept ==
    ASSUME [Next]_vars, \A w \in Worker : ~WriteSection(w)
    PROVE  UNCHANGED stored
BY DEF Next, Step, Restart, vars, Begin, Validate, MergeSection, ApplySection

(* Whatever the threads are given, the overlap of chunks goes to or past    *)
(* their size only when two requests share the retrieval section, or have:  *)
(* _validate_section_payload checks the pair with one read of the row and   *)
(* update_settings merges with another, and nothing else comes between.     *)
THEOREM SharedOnlyBreaksOverlap == Spec => OverlapStaysBelow
<1>1. Init => TypeOK /\ MatchInv
  BY SettingsInit, MatchInit
<1>2. TypeOK /\ MatchInv /\ [Next]_vars =>
        [ PairLegal(Effective) /\ ~PairLegal(Effective)' => "retrieval" \in shared ]_vars
  <2> SUFFICES ASSUME TypeOK, MatchInv, [Next]_vars,
                      PairLegal(Effective), ~PairLegal(Effective)'
               PROVE  "retrieval" \in shared
    OBVIOUS
  <2>1. \E w \in Worker : WriteSection(w)
    <3>1. Effective' = Effective => PairLegal(Effective)'
      BY DEF PairLegal
    <3> QED
      BY <3>1, EffectiveKept DEF Effective
  <2> QED
    BY <2>1, WriteKeepsPair
<1> QED
  BY <1>1, <1>2, SettingsNext, PTL DEF Spec, OverlapStaysBelow

(* Where no PUT is under way the singletons of llm/config.py hold what the  *)
(* table and the defaults say, after any refusals and deaths and whatever   *)
(* goes on in other sections, unless two requests shared the section.       *)
THEOREM RuntimeAlwaysMatches == Spec => []RuntimeMatches
<1>1. Init => TypeOK /\ MatchInv
  BY SettingsInit, MatchInit
<1>2. MatchInv => RuntimeMatches
  BY DEF MatchInv, InUseOrComing, Coming, Committed, Own, Under, RuntimeMatches
<1> QED
  BY <1>1, <1>2, SettingsNext, PTL DEF Spec
-------------------------------------------------------------------------------
(* Bodies that name both fields of the pair, or neither, as the retrieval   *)
(* form of the page does.                                                   *)

WholePairs ==
    \A w \in Worker : \A r \in Requests[w] :
        r.patch["chunk_size"] # Unset <=> r.patch["chunk_overlap"] # Unset

\* What a request brings is legal by itself.
BringsPair(w) ==
    /\ Passed(w, "chunk_size") /\ Touches(Patch(w)) => PairLegal(Patch(w))
    /\ Merged(w, "chunk_size") => PairLegal(Merge(Default, pending[w]))

PairInv == PairLegal(Effective) /\ \A w \in Worker : BringsPair(w)

LEMMA BringsKept ==
    ASSUME NEW v \in Worker, BringsPair(v), Patch(v)' = Patch(v), pending'[v] = pending[v],
           Passed(v, "chunk_size")' => Passed(v, "chunk_size"),
           Merged(v, "chunk_size")' => Merged(v, "chunk_size")
    PROVE  BringsPair(v)'
BY DEF BringsPair, Touches

LEMMA BringsNothing ==
    ASSUME NEW v \in Worker, pc'[v] = "idle"
    PROVE  BringsPair(v)'
<1>1. ~Passed(v, "chunk_size")' /\ ~Merged(v, "chunk_size")'
  BY DEF Merged, Passed, Committed
<1> QED
  BY <1>1 DEF BringsPair

LEMMA ValidateBrings ==
    ASSUME TypeOK, WholePairs, NEW w \in Worker, FromRequests(w), BringsPair(w), Validate(w)
    PROVE  BringsPair(w)'
<1>1. CASE Forget({w})
  BY <1>1, Forgotten, BringsNothing
<1>2. CASE Accepted(w) /\ Goto(w, "merge", at[w]) /\ UNCHANGED pending
  <2>1. pc[w] = "validate" /\ pc'[w] = "merge" /\ at'[w] = at[w] /\ UNCHANGED <<req, pending>>
    BY <1>2 DEF TypeOK, Validate, Goto
  <2>2. Patch(w)' = Patch(w) /\ Here(w)' = Here(w)
    BY <2>1 DEF Patch, Here
  <2>3. Merged(w, "chunk_size")' = Merged(w, "chunk_size")
    BY <2>1 DEF Merged, Among, Committed
  <2>4. Passed(w, "chunk_size")' = (Passed(w, "chunk_size") \/ Here(w) = "retrieval")
    BY <2>1, <2>2, <2>3, PairFields DEF Passed
  <2>5. ASSUME Here(w) = "retrieval", Touches(Patch(w)) PROVE PairLegal(Patch(w))
    <3>1. Patch(w)["chunk_size"] # Unset /\ Patch(w)["chunk_overlap"] # Unset
      BY <2>1, <2>5 DEF FromRequests, WholePairs, Patch, Touches
    <3>2. PairLegal(Merge(Effective, Patch(w)))
      BY <1>2, <2>5, <3>1 DEF Accepted
    <3> QED
      BY <3>1, <3>2, PairFields, MergeAt DEF PairLegal
  <2> QED
    BY <2>1, <2>2, <2>3, <2>4, <2>5 DEF BringsPair, Touches
<1> QED
  BY <1>1, <1>2 DEF Validate

LEMMA MergeBrings ==
    ASSUME TypeOK, WholePairs, PairLegal(Effective), NEW w \in Worker, RequestInv(w),
           BringsPair(w), MergeSection(w), shared \subseteq shared'
    PROVE  BringsPair(w)'
<1>1. pc[w] = "merge" /\ UNCHANGED <<req, stored>>
  BY DEF MergeSection, Goto
<1>2. Patch(w)' = Patch(w)
  BY <1>1 DEF Patch
<1>3. Passed(w, "chunk_size")' => Passed(w, "chunk_size")
  BY PairFields, MergeOwn
<1>4. ASSUME Merged(w, "chunk_size")' PROVE PairLegal(Merge(Default, pending'[w]))
  <2>1. Passed(w, "chunk_size")
    BY <1>3, <1>4 DEF Passed
  <2>2. pending'[w] = Overlay(pending[w], Merge(stored, Patch(w)), Here(w))
    BY DEF TypeOK, MergeSection
  <2>3. CASE Here(w) = "retrieval" /\ Touches(Patch(w))
    <3>1. Patch(w)["chunk_size"] # Unset /\ Patch(w)["chunk_overlap"] # Unset
      BY <1>1, <2>3 DEF RequestInv, FromRequests, WholePairs, Patch, Touches
    <3>2. PairLegal(Patch(w))
      BY <2>1, <2>3 DEF BringsPair
    <3> QED
      BY <2>2, <2>3, <3>1, <3>2, PairFields, OverlayAt, MergeAt DEF PairLegal
  <2>4. CASE Here(w) = "retrieval" /\ ~Touches(Patch(w))
    <3>1. \A f \in {"chunk_size", "chunk_overlap"} : pending'[w][f] = stored[f]
      BY <2>2, <2>4, PairFields, OverlayAt, MergeAt DEF Touches
    <3> QED
      BY <3>1, PairFields, MergeAt DEF PairLegal, Effective
  <2>5. CASE Here(w) # "retrieval"
    <3>1. \A f \in {"chunk_size", "chunk_overlap"} : pending'[w][f] = pending[w][f]
      BY <2>2, <2>5, PairFields, OverlayAt
    <3>2. Merged(w, "chunk_size")
      BY <2>1, <2>5, PairFields DEF Passed
    <3> QED
      BY <3>1, <3>2, PairFields, MergeAt DEF BringsPair, PairLegal
  <2> QED
    BY <2>3, <2>4, <2>5
<1> QED
  BY <1>2, <1>3, <1>4 DEF BringsPair, Touches

LEMMA WriteBrings ==
    ASSUME TypeOK, NEW w \in Worker, RequestInv(w), PairInv, WriteSection(w)
    PROVE  PairLegal(Effective)' /\ BringsPair(w)'
<1>1. /\ UNCHANGED <<req, pending>>
      /\ pc[w] = "write" /\ pc'[w] \in {"write", "apply"}
  BY WriteGoes
<1>2. BringsPair(w)'
  BY <1>1, BringsKept DEF PairInv, Patch, Merged, Passed, Committed
<1>3. CASE Here(w) = "retrieval"
  <2>1. \A f \in {"chunk_size", "chunk_overlap"} : stored'[f] = pending[w][f]
    BY <1>3, PairFields, WriteAt
  <2>2. Merged(w, "chunk_size")
    BY <1>1, <1>3, PairFields, WriteAt, Progress DEF Committed, Under
  <2> QED
    BY <1>2, <2>1, <2>2, PairFields, MergeAt DEF PairInv, BringsPair, PairLegal, Effective
<1>4. CASE Here(w) # "retrieval"
  BY <1>2, <1>4, PairFields, WriteAt, MergeAt DEF PairInv, PairLegal, Effective
<1> QED
  BY <1>2, <1>3, <1>4

LEMMA ApplyBrings ==
    ASSUME TypeOK, NEW w \in Worker, RequestInv(w), BringsPair(w), ApplySection(w)
    PROVE  BringsPair(w)'
<1>1. CASE Forget({w})
  BY <1>1, Forgotten, BringsNothing
<1>2. CASE UNCHANGED <<req, pending>> /\ pc'[w] = "apply"
  BY <1>2, BringsKept DEF ApplySection, Patch, Merged, Passed, Committed
<1> QED
  BY <1>1, <1>2, ApplyGoes

LEMMA PairNext ==
    ASSUME TypeOK, MatchInv, WholePairs, PairInv, [Next]_vars
    PROVE  PairInv'
<1>1. ASSUME NEW w \in Worker, Step(w), Track PROVE PairInv'
  <2>1. RequestInv(w) /\ BringsPair(w) /\ FromRequests(w) /\ shared \subseteq shared'
    BY <1>1, TrackShares DEF MatchInv, PairInv, RequestInv
  <2>2. \A v \in Worker : v # w => BringsPair(v)'
    <3> SUFFICES ASSUME NEW v \in Worker, v # w PROVE BringsPair(v)'
      OBVIOUS
    <3>1. /\ Patch(v)' = Patch(v) /\ pending'[v] = pending[v]
          /\ Passed(v, "chunk_size")' = Passed(v, "chunk_size")
          /\ Merged(v, "chunk_size")' = Merged(v, "chunk_size")
      BY <1>1, StepOthers, SameProgress, PairFields
    <3> QED
      BY <3>1, BringsKept DEF PairInv
  <2>3. CASE WriteSection(w)
    BY <2>1, <2>2, <2>3, WriteBrings DEF PairInv
  <2>4. CASE ~WriteSection(w)
    <3>1. UNCHANGED stored
      BY <1>1, <2>4 DEF Step, Begin, Validate, MergeSection, ApplySection
    <3>2. PairLegal(Effective)'
      BY <3>1 DEF PairInv, Effective
    <3>3. CASE Begin(w)
      <4>1. RequestInv(w)' /\ pc'[w] = "validate" /\ at'[w] = 1
        BY <3>3, BeginOwn DEF TypeOK, Begin
      <4>2. req'[w].sections \in Seq(Section)
        BY <4>1, RequestsAssumption DEF RequestInv, FromRequests, Request
      <4>3. ~Passed(w, "chunk_size")' /\ ~Merged(w, "chunk_size")'
        BY <4>1, <4>2 DEF Passed, Merged, Among, Committed
      <4> QED
        BY <2>2, <3>2, <4>3 DEF PairInv, BringsPair
    <3>4. CASE Validate(w)
      BY <2>1, <2>2, <3>2, <3>4, ValidateBrings DEF PairInv
    <3>5. CASE MergeSection(w)
      BY <2>1, <2>2, <3>2, <3>5, MergeBrings DEF PairInv
    <3>6. CASE ApplySection(w)
      BY <2>1, <2>2, <3>2, <3>6, ApplyBrings DEF PairInv
    <3> QED
      BY <1>1, <2>4, <3>3, <3>4, <3>5, <3>6 DEF Step
  <2> QED
    BY <2>3, <2>4
<1>2. CASE Restart
  <2>1. \A w \in Worker : BringsPair(w)'
    BY <1>2, Forgotten, BringsNothing DEF Restart
  <2> QED
    BY <1>2, <2>1 DEF Restart, PairInv, Effective
<1>3. CASE UNCHANGED vars
  <2>1. \A w \in Worker : BringsPair(w)'
    <3> TAKE w \in Worker
    <3>1. UNCHANGED <<pc, req, at, pending>>
      BY <1>3 DEF vars
    <3>2. /\ Passed(w, "chunk_size")' = Passed(w, "chunk_size")
          /\ Merged(w, "chunk_size")' = Merged(w, "chunk_size") /\ Patch(w)' = Patch(w)
      BY <3>1, SameProgress, PairFields
    <3> QED
      BY <3>1, <3>2, BringsKept DEF PairInv
  <2> QED
    BY <1>3, <2>1 DEF vars, PairInv, Effective
<1> QED
  BY <1>1, <1>2, <1>3 DEF Next

LEMMA PairInit == Init => PairInv
<1> SUFFICES ASSUME Init PROVE PairInv
  OBVIOUS
<1>1. \A w \in Worker : BringsPair(w)
  BY PairFields, IdleNothing DEF Init, BringsPair
<1>2. \A f \in Field : Effective[f] = Default[f]
  BY EffectiveAt DEF Init, NoPatch
<1> QED
  BY <1>1, <1>2, PairFields, DefaultAssumption DEF PairInv, PairLegal

(* Settings.vue saves the retrieval section with all its fields.  If every  *)
(* body that names one of the pair names both, the stored overlap stays     *)
(* below the size whatever interleaves in put_settings_endpoint: only       *)
(* bodies of one field each can reach the race of the two reads.            *)
THEOREM WholePairsStayBelow ==
    ASSUME WholePairs
    PROVE  Spec => []PairLegal(Effective)
<1>1. Init => TypeOK /\ MatchInv /\ PairInv
  BY SettingsInit, MatchInit, PairInit
<1>2. TypeOK /\ MatchInv /\ PairInv /\ [Next]_vars => PairInv'
  BY PairNext
<1>3. PairInv => PairLegal(Effective)
  BY DEF PairInv
<1> QED
  BY <1>1, <1>2, <1>3, SettingsNext, PTL DEF Spec
-------------------------------------------------------------------------------
(* The refinement of SettingsPolicy.                                       *)

\* Landing, when at most one thread is committed to a field.
Lands(old) ==
    \A f \in Field :
        /\ \A w \in Worker : Committed(w) /\ Covers(req[w], f) =>
              Landing(old)[f] = IF pending[w][f] # Unset THEN pending[w][f] ELSE old[f]
        /\ (\A w \in Worker : ~(Committed(w) /\ Covers(req[w], f))) =>
              Landing(old)[f] = old[f]

OneCommitted ==
    \A f \in Field : \A v, w \in Worker :
        /\ Committed(v) /\ Covers(req[v], f)
        /\ Committed(w) /\ Covers(req[w], f)
        => v = w

LEMMA CommittedAlone == shared = {} /\ MatchInv => OneCommitted
BY DEF MatchInv, SharedInv, Own, Under, Committed, OneCommitted

LEMMA CommittedAloneThen == shared' = {} /\ MatchInv' => OneCommitted'
BY DEF MatchInv, SharedInv, Own, Under, Committed, OneCommitted

LEMMA LandingLands ==
    ASSUME OneCommitted, NEW old
    PROVE  Lands(old)
<1> SUFFICES ASSUME NEW f \in Field
             PROVE  /\ \A w \in Worker : Committed(w) /\ Covers(req[w], f) =>
                          Landing(old)[f] =
                              IF pending[w][f] # Unset THEN pending[w][f] ELSE old[f]
                    /\ (\A w \in Worker : ~(Committed(w) /\ Covers(req[w], f))) =>
                          Landing(old)[f] = old[f]
  BY DEF Lands
<1> DEFINE holder == CHOOSE w \in Worker : Committed(w) /\ Covers(req[w], f)
<1>1. Landing(old)[f] =
        IF \E w \in Worker : Committed(w) /\ Covers(req[w], f)
        THEN IF pending[holder][f] # Unset THEN pending[holder][f] ELSE old[f]
        ELSE old[f]
  BY DEF Landing
<1>2. ASSUME NEW w \in Worker, Committed(w), Covers(req[w], f)
      PROVE  holder = w
  <2>1. holder \in Worker /\ Committed(holder) /\ Covers(req[holder], f)
    BY <1>2
  <2> HIDE DEF holder
  <2> QED
    BY <1>2, <2>1 DEF OneCommitted
<1> HIDE DEF holder
<1> QED
  BY <1>1, <1>2

LEMMA LandsNow == OneCommitted => Lands(stored) /\ Lands(runtime)
BY LandingLands

LEMMA LandsThen == OneCommitted' => Lands(stored)' /\ Lands(runtime)'
BY LandsNow, PTL

LEMMA LandingIsFcn == ASSUME NEW old PROVE Landing(old) = [f \in Field |-> Landing(old)[f]]
BY DEF Landing

LEMMA LandingIsFcnThen ==
    /\ Landing(stored)' = [f \in Field |-> Landing(stored)'[f]]
    /\ Landing(runtime)' = [f \in Field |-> Landing(runtime)'[f]]
BY DEF Landing

\* Landings that agree on every field are equal.
LEMMA LandingSame ==
    /\ (\A f \in Field : Landing(stored)'[f] = Landing(stored)[f])
         => Landing(stored)' = Landing(stored)
    /\ (\A f \in Field : Landing(runtime)'[f] = Landing(runtime)[f])
         => Landing(runtime)' = Landing(runtime)
<1>1. /\ Landing(stored) = [f \in Field |-> Landing(stored)[f]]
      /\ Landing(runtime) = [f \in Field |-> Landing(runtime)[f]]
  BY LandingIsFcn
<1> QED
  BY <1>1, LandingIsFcnThen

PolicyStutters == UNCHANGED <<stored, Landing(stored), Landing(runtime)>>

\* Whoever is not committed does not count.
LEMMA NotCounted ==
    ASSUME TypeOK, MatchInv, MatchInv', shared = {}, shared' = {},
           NEW w \in Worker, Step(w),
           ~Committed(w), ~Committed(w)', UNCHANGED <<stored, runtime>>
    PROVE  PolicyStutters
<1>1. Lands(stored) /\ Lands(runtime) /\ Lands(stored)' /\ Lands(runtime)'
  BY CommittedAlone, CommittedAloneThen, LandsNow, LandsThen
<1>2. \A v \in Worker, f \in Field :
         /\ (Committed(v) /\ Covers(req[v], f))' <=> Committed(v) /\ Covers(req[v], f)
         /\ Committed(v) => pending'[v] = pending[v]
  BY StepOthers DEF Committed, Covers
<1>3. \A f \in Field : /\ Landing(stored)'[f] = Landing(stored)[f]
                       /\ Landing(runtime)'[f] = Landing(runtime)[f]
  <2> TAKE f \in Field
  <2>1. CASE \E v \in Worker : Committed(v) /\ Covers(req[v], f)
    BY <1>1, <1>2, <2>1 DEF Lands
  <2>2. CASE \A v \in Worker : ~(Committed(v) /\ Covers(req[v], f))
    BY <1>1, <1>2, <2>2 DEF Lands
  <2> QED
    BY <2>1, <2>2
<1> QED
  BY <1>3, LandingSame DEF PolicyStutters

\* A body is taken whole when its last section has been merged.
LEMMA CommitStep ==
    ASSUME TypeOK, MatchInv, MatchInv', shared = {}, shared' = {}, NEW w \in Worker,
           MergeSection(w), AtEnd(w)
    PROVE  Policy!Put(Patch(w))
<1>0. \A f \in Field : Own(f) /\ Own(f)'
  BY DEF Own
<1>1. Lands(stored) /\ Lands(runtime) /\ Lands(stored)' /\ Lands(runtime)'
  BY CommittedAlone, CommittedAloneThen, LandsNow, LandsThen
<1>2. /\ pc[w] = "merge" /\ pc'[w] = "write" /\ UNCHANGED <<stored, runtime, req>>
      /\ RequestInv(w) /\ RequestInv(w)' /\ Step(w)
  BY DEF TypeOK, MergeSection, Goto, MatchInv, Step
<1>3. Patch(w)' = Patch(w) /\ ~Committed(w) /\ Committed(w)'
  BY <1>2 DEF Patch, Committed
<1>4. \A v \in Worker : v # w =>
         /\ pc'[v] = pc[v] /\ req'[v] = req[v] /\ pending'[v] = pending[v]
  BY <1>2, StepOthers
<1>5. \A f \in Field : Patch(w)[f] # Unset => Covers(req[w], f)
  BY <1>2, RequestsAssumption DEF RequestInv, FromRequests, Patch, Covers
<1>6. \A f \in Field : Covers(req[w], f) =>
         /\ Merged(w, f)' /\ Passed(w, f)
         /\ pending'[w][f] = Merge(stored, Patch(w))[f]
  <2> SUFFICES ASSUME NEW f \in Field, Covers(req[w], f)
               PROVE  /\ Merged(w, f)' /\ Passed(w, f)
                      /\ pending'[w][f] = Merge(stored, Patch(w))[f]
    OBVIOUS
  <2>1. Merged(w, f)'
    BY <1>2, <1>3 DEF Merged, Committed, Covers
  <2>2. Among(w, f, at[w])
    BY <1>2, AmongNext
  <2>3. Passed(w, f)
    BY <1>2, <2>2, AmongNext DEF Passed, Merged
  <2> QED
    BY <1>0, <1>2, <1>3, <2>1, <2>3 DEF RequestInv, PendingMerged
<1>7. \A f \in Field : Covers(req[w], f) =>
         \A v \in Worker : ~(Committed(v) /\ Covers(req[v], f))
  <2> SUFFICES ASSUME NEW f \in Field, Covers(req[w], f),
                      NEW v \in Worker, Committed(v), Covers(req[v], f)
               PROVE  FALSE
    OBVIOUS
  <2>1. v # w
    BY <1>3
  <2>2. (Committed(v) /\ Covers(req[v], f))' /\ (Committed(w) /\ Covers(req[w], f))'
    BY <1>2, <1>3, <1>4, <2>1 DEF Committed
  <2> QED
    BY <2>1, <2>2, CommittedAloneThen DEF OneCommitted
<1>8. \A f \in Field : Covers(req[w], f) =>
         /\ Landing(stored)[f] = stored[f]
         /\ Landing(runtime)[f] = runtime[f] /\ runtime[f] = Effective[f]
  <2> SUFFICES ASSUME NEW f \in Field, Covers(req[w], f)
               PROVE  /\ Landing(stored)[f] = stored[f]
                      /\ Landing(runtime)[f] = runtime[f] /\ runtime[f] = Effective[f]
    OBVIOUS
  <2>1. \A v \in Worker : ~(Committed(v) /\ Covers(req[v], f))
    BY <1>7
  <2> QED
    BY <1>0, <1>1, <2>1 DEF Lands, MatchInv, InUseOrComing, Coming
<1>9. \A f \in Field :
         /\ Landing(stored)'[f] = Merge(Landing(stored), Patch(w))[f]
         /\ Landing(runtime)'[f] = Merge(Landing(runtime), Patch(w))[f]
  <2> TAKE f \in Field
  <2>1. CASE Covers(req[w], f)
    <3>1. /\ Landing(stored)'[f] =
                IF pending'[w][f] # Unset THEN pending'[w][f] ELSE stored[f]
          /\ Landing(runtime)'[f] =
                IF pending'[w][f] # Unset THEN pending'[w][f] ELSE runtime[f]
      BY <1>1, <1>2, <1>3, <2>1 DEF Lands
    <3> QED
      BY <1>6, <1>8, <2>1, <3>1, MergeAt, EffectiveAt
  <2>2. CASE ~Covers(req[w], f)
    <3>1. \A v \in Worker : /\ (Committed(v) /\ Covers(req[v], f))'
                                 <=> Committed(v) /\ Covers(req[v], f)
                            /\ Committed(v) => pending'[v] = pending[v]
      BY <1>2, <1>3, <1>4, <2>2 DEF Committed
    <3>2. Landing(stored)'[f] = Landing(stored)[f] /\ Landing(runtime)'[f] = Landing(runtime)[f]
      <4>1. CASE \E v \in Worker : Committed(v) /\ Covers(req[v], f)
        BY <1>1, <1>2, <3>1, <4>1 DEF Lands
      <4>2. CASE \A v \in Worker : ~(Committed(v) /\ Covers(req[v], f))
        BY <1>1, <1>2, <3>1, <4>2 DEF Lands
      <4> QED
        BY <4>1, <4>2
    <3> QED
      BY <1>5, <2>2, <3>2, MergeAt
  <2> QED
    BY <2>1, <2>2
<1>10. /\ Landing(stored)' = Policy!Merge(Landing(stored), Patch(w))
       /\ Landing(runtime)' = Policy!Merge(Landing(runtime), Patch(w))
  <2>1. /\ Landing(stored)' = Merge(Landing(stored), Patch(w))
        /\ Landing(runtime)' = Merge(Landing(runtime), Patch(w))
    BY <1>9, LandingIsFcnThen DEF Merge
  <2> QED
    BY <2>1 DEF Merge, Policy!Merge
<1>11. Policy!InRange(Patch(w))
  BY <1>2, <1>5, <1>6 DEF Policy!InRange, RequestInv, FieldsChecked
<1>12. ASSUME Policy!TouchesPair(Patch(w))
       PROVE  Policy!PairLegal(Policy!Merge(Policy!Merge(Default, Landing(stored)), Patch(w)))
  <2>1. Touches(Patch(w))
    BY <1>12 DEF Policy!TouchesPair, Pair, Touches
  <2>2. Covers(req[w], "chunk_size") /\ Covers(req[w], "chunk_overlap")
    BY <1>5, <2>1, PairFields DEF Touches, Covers
  <2>3. PairLegal(Merge(Effective, Patch(w)))
    BY <1>0, <1>2, <1>6, <2>1, <2>2, PairFields DEF RequestInv, PairChecked
  <2>4. \A f \in {"chunk_size", "chunk_overlap"} :
           Policy!Merge(Policy!Merge(Default, Landing(stored)), Patch(w))[f]
             = Merge(Effective, Patch(w))[f]
    BY <1>8, <2>2, PairFields, MergeAt, EffectiveAt DEF Policy!Merge
  <2> QED
    BY <2>3, <2>4 DEF PairLegal, Policy!PairLegal, Pair
<1> QED
  BY <1>2, <1>10, <1>11, <1>12 DEF Policy!Put

\* A write brings one section of the table to what was taken.
LEMMA WriteLands ==
    ASSUME TypeOK, MatchInv, MatchInv', shared = {}, shared' = {},
           NEW w \in Worker, WriteSection(w)
    PROVE  \E f \in Field : Policy!Write(SectionOf[f])
<1>0. \A f \in Field : Own(f) /\ Own(f)'
  BY DEF Own
<1>1. Lands(stored) /\ Lands(runtime) /\ Lands(stored)' /\ Lands(runtime)'
  BY CommittedAlone, CommittedAloneThen, LandsNow, LandsThen
<1>2. /\ UNCHANGED <<req, pending, runtime>> /\ RequestInv(w) /\ Step(w)
      /\ pc[w] = "write" /\ Committed(w) /\ Committed(w)'
  BY WriteGoes DEF MatchInv, Step, Committed
<1>3. PICK g \in Field : SectionOf[g] = Here(w)
  <2>1. at[w] \in DOMAIN req[w].sections /\ req[w].sections \in Seq(Section)
    BY <1>2 DEF TypeOK, Request
  <2>2. Here(w) \in Section
    BY <2>1 DEF Here
  <2> QED
    BY <2>2 DEF Section
<1>4. \A v \in Worker : Committed(v)' <=> Committed(v)
  BY <1>2, StepOthers DEF Committed
<1>5. \A f \in Field : /\ Landing(stored)'[f] = Landing(stored)[f]
                       /\ Landing(runtime)'[f] = Landing(runtime)[f]
  <2> TAKE f \in Field
  <2>1. CASE SectionOf[f] = Here(w)
    <3>1. stored'[f] = pending[w][f] /\ Covers(req[w], f)
          /\ stored'[f] = Merge(stored, Patch(w))[f]
      BY <1>0, <1>2, <2>1, WriteAt DEF Under
    <3>2. Landing(stored)'[f] = IF pending[w][f] # Unset THEN pending[w][f] ELSE stored'[f]
      BY <1>1, <1>2, <3>1 DEF Lands
    <3>3. Landing(stored)[f] = IF pending[w][f] # Unset THEN pending[w][f] ELSE stored[f]
      BY <1>1, <1>2, <3>1 DEF Lands
    <3>4. Landing(runtime)'[f] = Landing(runtime)[f]
      BY <1>1, <1>2, <3>1 DEF Lands
    <3>5. pending[w][f] = Unset => stored[f] = Unset
      BY <3>1 DEF Merge
    <3> QED
      BY <3>1, <3>2, <3>3, <3>4, <3>5
  <2>2. CASE SectionOf[f] # Here(w)
    <3>1. stored'[f] = stored[f]
      BY <1>2, <2>2, WriteAt
    <3>2. CASE \E v \in Worker : Committed(v) /\ Covers(req[v], f)
      BY <1>1, <1>2, <1>4, <3>1, <3>2 DEF Lands
    <3>3. CASE \A v \in Worker : ~(Committed(v) /\ Covers(req[v], f))
      BY <1>1, <1>2, <1>4, <3>1, <3>3 DEF Lands
    <3> QED
      BY <3>2, <3>3
  <2> QED
    BY <2>1, <2>2
<1>6. Landing(stored)' = Landing(stored) /\ Landing(runtime)' = Landing(runtime)
  BY <1>5, LandingSame
<1>7. stored' = [f \in Field |-> IF SectionOf[f] = SectionOf[g]
                                 THEN Landing(stored)[f] ELSE stored[f]]
  <2>1. \A f \in Field : stored'[f] = IF SectionOf[f] = SectionOf[g]
                                      THEN Landing(stored)[f] ELSE stored[f]
    <3> TAKE f \in Field
    <3>1. CASE SectionOf[f] = Here(w)
      <4>1. stored'[f] = pending[w][f] /\ Covers(req[w], f)
            /\ stored'[f] = Merge(stored, Patch(w))[f]
        BY <1>0, <1>2, <3>1, WriteAt DEF Under
      <4>2. Landing(stored)[f] = IF pending[w][f] # Unset THEN pending[w][f] ELSE stored[f]
        BY <1>1, <1>2, <4>1 DEF Lands
      <4>3. pending[w][f] = Unset => stored[f] = Unset
        BY <4>1 DEF Merge
      <4> QED
        BY <1>3, <3>1, <4>1, <4>2, <4>3
    <3>2. CASE SectionOf[f] # Here(w)
      BY <1>2, <1>3, <3>2, WriteAt
    <3> QED
      BY <3>1, <3>2
  <2>2. stored' = [f \in Field |-> stored'[f]]
    BY DEF WriteSection, Overlay
  <2> QED
    BY <2>1, <2>2
<1> QED
  BY <1>6, <1>7 DEF Policy!Write

\* What is applied, and what is forgotten after it, had landed already.
LEMMA ApplyLands ==
    ASSUME TypeOK, MatchInv, MatchInv', shared = {}, shared' = {},
           NEW w \in Worker, ApplySection(w)
    PROVE  PolicyStutters
<1>0. \A f \in Field : Own(f) /\ Own(f)'
  BY DEF Own
<1>1. Lands(stored) /\ Lands(runtime) /\ Lands(stored)' /\ Lands(runtime)'
  BY CommittedAlone, CommittedAloneThen, LandsNow, LandsThen
<1>2. /\ UNCHANGED stored /\ RequestInv(w) /\ Step(w)
      /\ pc[w] = "apply" /\ Committed(w)
  BY DEF MatchInv, Step, Committed, ApplySection
<1>3. \A v \in Worker : v # w =>
         /\ pc'[v] = pc[v] /\ req'[v] = req[v] /\ pending'[v] = pending[v]
  BY <1>2, StepOthers
<1>4. \A f \in Field : /\ Landing(stored)'[f] = Landing(stored)[f]
                       /\ Landing(runtime)'[f] = Landing(runtime)[f]
  <2> TAKE f \in Field
  <2>1. CASE Covers(req[w], f)
    <3>1. /\ Landing(stored)[f] = IF pending[w][f] # Unset THEN pending[w][f] ELSE stored[f]
          /\ Landing(runtime)[f] = IF pending[w][f] # Unset THEN pending[w][f] ELSE runtime[f]
      BY <1>1, <1>2, <2>1 DEF Lands
    <3>2. stored[f] = pending[w][f]
      BY <1>0, <1>2, <2>1 DEF RequestInv, WrittenStored, Written
    <3>3. pending[w][f] = Unset => runtime'[f] = runtime[f]
      BY <1>2, ApplyAt
    <3>4. CASE Forget({w})
      <4>1. \A v \in Worker : ~(Committed(v) /\ Covers(req[v], f))'
        <5> SUFFICES ASSUME NEW v \in Worker, (Committed(v) /\ Covers(req[v], f))'
                     PROVE  FALSE
          OBVIOUS
        <5>1. v # w
          BY <3>4, Forgotten DEF Committed
        <5>2. Committed(v) /\ Covers(req[v], f)
          BY <1>3, <5>1 DEF Committed
        <5>3. v = w
          BY <1>2, <2>1, <5>2, CommittedAlone DEF OneCommitted
        <5> QED
          BY <5>1, <5>3
      <4>2. Landing(stored)'[f] = stored[f] /\ Landing(runtime)'[f] = runtime'[f]
        BY <1>1, <1>2, <4>1 DEF Lands
      <4>3. pending[w][f] # Unset => runtime'[f] = pending[w][f]
        <5> SUFFICES ASSUME pending[w][f] # Unset PROVE runtime'[f] = pending[w][f]
          OBVIOUS
        <5>1. PICK i \in DOMAIN Order : Order[i] = SectionOf[f]
          BY DEF Field, SectionOf, Order
        <5>2. i \in ToApply(w)
          BY <2>1, <5>1 DEF Covers, ToApply
        <5>3. i <= at[w]
          <6>1. \A k \in ToApply(w) : ~(k > at[w])
            <7>1. pc'[w] = "idle"
              BY <3>4, Forgotten
            <7>2. at[w] \in Nat /\ \A k \in ToApply(w) : k \in Nat
              BY DEF TypeOK, ToApply, Order
            <7>3. \A k \in ToApply(w) : k <= at[w]
              BY <1>2, <7>1, ApplyGoes
            <7> QED
              BY <7>2, <7>3
          <6> QED
            BY <5>2, <6>1 DEF TypeOK, ToApply, Order
        <5>4. CASE i = at[w]
          BY <1>2, <5>1, <5>4, ApplyAt
        <5>5. CASE i < at[w]
          <6>1. Applied(w, f)
            BY <1>2, <2>1, <5>1, <5>5 DEF Applied
          <6>2. runtime[f] = pending[w][f]
            BY <1>0, <1>2, <6>1 DEF RequestInv, AppliedInUse
          <6> QED
            BY <1>2, <6>2, ApplyAt
        <5> QED
          BY <5>3, <5>4, <5>5 DEF TypeOK, Order
      <4> QED
        BY <3>1, <3>2, <3>3, <4>2, <4>3
    <3>5. CASE UNCHANGED <<req, pending>> /\ pc'[w] = "apply"
      <4>1. (Committed(w) /\ Covers(req[w], f))'
        BY <2>1, <3>5 DEF Committed
      <4>2. /\ Landing(stored)'[f] = IF pending[w][f] # Unset THEN pending[w][f] ELSE stored[f]
            /\ Landing(runtime)'[f] = IF pending[w][f] # Unset THEN pending[w][f] ELSE runtime'[f]
        BY <1>1, <1>2, <3>5, <4>1 DEF Lands
      <4> QED
        BY <3>1, <3>3, <4>2
    <3> QED
      BY <1>2, <3>4, <3>5, ApplyGoes
  <2>2. CASE ~Covers(req[w], f)
    <3>1. runtime'[f] = runtime[f]
      BY <1>2, <2>2, ApplyAt DEF Under
    <3>2. \A v \in Worker : /\ (Committed(v) /\ Covers(req[v], f))'
                                 <=> Committed(v) /\ Covers(req[v], f)
                            /\ Committed(v) /\ Covers(req[v], f) => pending'[v] = pending[v]
      <4> TAKE v \in Worker
      <4>1. CASE v # w
        BY <1>3, <4>1 DEF Committed
      <4>2. CASE v = w
        <5>1. ~(Committed(w) /\ Covers(req[w], f))'
          <6>1. CASE Forget({w})
            BY <6>1, Forgotten DEF Committed
          <6>2. CASE UNCHANGED req
            BY <2>2, <6>2
          <6> QED
            BY <1>2, <6>1, <6>2, ApplyGoes
        <5> QED
          BY <2>2, <4>2, <5>1
      <4> QED
        BY <4>1, <4>2
    <3>3. CASE \E v \in Worker : Committed(v) /\ Covers(req[v], f)
      BY <1>1, <1>2, <3>1, <3>2, <3>3 DEF Lands
    <3>4. CASE \A v \in Worker : ~(Committed(v) /\ Covers(req[v], f))
      BY <1>1, <1>2, <3>1, <3>2, <3>4 DEF Lands
    <3> QED
      BY <3>3, <3>4
  <2> QED
    BY <2>1, <2>2
<1> QED
  BY <1>2, <1>4, LandingSame DEF PolicyStutters

LEMMA RestartLands ==
    ASSUME TypeOK, MatchInv', Restart
    PROVE  Policy!Restart
<1>1. Lands(stored)' /\ Lands(runtime)'
  BY CommittedAloneThen, LandsThen DEF Restart
<1>2. /\ UNCHANGED stored /\ runtime' = Effective
      /\ \A w \in Worker : ~Committed(w)'
  BY Forgotten DEF Restart, Committed
<1>3. \A f \in Field : Landing(stored)'[f] = stored[f] /\ Landing(runtime)'[f] = Effective[f]
  BY <1>1, <1>2 DEF Lands
<1>4. stored = [f \in Field |-> stored[f]]
  BY DEF TypeOK
<1>5. Landing(stored)' = stored
  BY <1>3, <1>4, LandingIsFcnThen
<1>6. Landing(runtime)' = Policy!Merge(Default, stored)
  BY <1>3, LandingIsFcnThen, EffectiveAt DEF Policy!Merge
<1> QED
  BY <1>2, <1>5, <1>6 DEF Policy!Restart

LEMMA PolicyStep ==
    ASSUME TypeOK, MatchInv, MatchInv', shared' = {}, [Next]_vars
    PROVE  Policy!Next \/ PolicyStutters
<1>1. ASSUME NEW w \in Worker, Step(w), Track PROVE Policy!Next \/ PolicyStutters
  <2>0. shared = {}
    BY <1>1, TrackShares
  <2>1. CASE Begin(w) \/ Validate(w) \/ (MergeSection(w) /\ ~AtEnd(w))
    <3>1. ~Committed(w) /\ ~Committed(w)' /\ UNCHANGED <<stored, runtime>>
      BY <2>1 DEF TypeOK, Begin, Validate, MergeSection, Goto, Forget, Committed
    <3> QED
      BY <1>1, <2>0, <3>1, NotCounted
  <2>2. CASE MergeSection(w) /\ AtEnd(w)
    <3>1. Policy!Put(Patch(w))
      BY <2>0, <2>2, CommitStep
    <3>2. req[w] \in Requests[w]
      BY <2>2 DEF MatchInv, RequestInv, FromRequests, MergeSection
    <3>3. Patch(w) \in {r.patch : r \in UNION {Requests[v] : v \in Worker}}
      BY <3>2 DEF Patch
    <3> QED
      BY <3>1, <3>3 DEF Policy!Next
  <2>3. CASE WriteSection(w)
    BY <2>0, <2>3, WriteLands DEF Policy!Next
  <2>4. CASE ApplySection(w)
    BY <2>0, <2>4, ApplyLands
  <2> QED
    BY <1>1, <2>1, <2>2, <2>3, <2>4 DEF Step
<1>2. CASE Restart
  BY <1>2, RestartLands DEF Policy!Next
<1>3. CASE UNCHANGED vars
  BY <1>3 DEF vars, PolicyStutters, Landing, Committed
<1> QED
  BY <1>1, <1>2, <1>3 DEF Next

LEMMA PolicyInit ==
    ASSUME Init
    PROVE  Policy!Init
<1>1. MatchInv
  BY MatchInit
<1>2. Lands(stored) /\ Lands(runtime)
  BY <1>1, CommittedAlone, LandsNow DEF Init
<1>3. \A w \in Worker : ~Committed(w)
  BY DEF Init, Committed
<1>4. \A f \in Field : Landing(stored)[f] = Unset /\ Landing(runtime)[f] = Default[f]
  BY <1>2, <1>3 DEF Lands, Init, NoPatch
<1>5. /\ Landing(stored) = [f \in Field |-> Landing(stored)[f]]
      /\ Landing(runtime) = [f \in Field |-> Landing(runtime)[f]]
  BY LandingIsFcn
<1>6. Default = [f \in Field |-> Default[f]]
  BY DefaultAssumption
<1>7. Landing(stored) = NoPatch /\ Landing(runtime) = Default
  BY <1>4, <1>5, <1>6 DEF NoPatch
<1> QED
  BY <1>7 DEF Init, NoPatch, Policy!Init

(* As long as no two requests have shared a section since the start, PUT    *)
(* /api/admin/settings is what SettingsPolicy promises: a body takes effect *)
(* whole or not at all, however many reads, writes and reloads              *)
(* put_settings_endpoint makes of it and whatever other sections are saved  *)
(* in between, and a process that dies starts on what it had written.       *)
THEOREM PutImplementsPolicy == Spec => ImplementsPolicy
<1>1. Init => TypeOK /\ MatchInv /\ Policy!Init
  BY SettingsInit, MatchInit, PolicyInit
<1>2. TypeOK /\ MatchInv /\ MatchInv' /\ [Next]_vars
        => [shared' # {} \/ Policy!Next]_<<stored, Landing(stored), Landing(runtime)>>
  BY PolicyStep DEF PolicyStutters
<1> QED
  BY <1>1, <1>2, SettingsNext, PTL DEF Spec, ImplementsPolicy
===============================================================================
