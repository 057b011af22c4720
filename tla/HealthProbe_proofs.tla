-------------------------- MODULE HealthProbe_proofs --------------------------
(***************************************************************************)
(* What holds of the health light for any pages, times and settings: who   *)
(* waits for the lock is answered in time, and what it is told is true of  *)
(* the address in use, or was a cache life and a probe ago.                *)
(***************************************************************************)
EXTENDS HealthProbe, AdminSettings_proofs

LEMMA ServerTypeInit == ServerInit => ServerTypeOK
<1> SUFFICES ASSUME ServerInit PROVE ServerTypeOK
  OBVIOUS
<1>1. outcome \in [Page -> BOOLEAN] /\ opened \in BOOLEAN
  BY Zenon DEF ServerInit, HealthInit
<1> QED
  BY <1>1, SettingsInit, TimesAssumption DEF ServerInit, HealthInit, ServerTypeOK, Steady

LEMMA CappedType ==
    ASSUME NEW limit \in Nat, NEW n \in 0 .. limit
    PROVE  Capped(n, limit) \in 0 .. limit
BY DEF Capped

LEMMA RespondType ==
    ASSUME ServerTypeOK, NEW p \in Page, NEW ok \in BOOLEAN, Respond(p, ok)
    PROVE  /\ serving' \in [Page -> {"none", "waiting", "probing", "loading"}]
           /\ asked' \subseteq Page
           /\ waited' \in [Page -> 0 .. AbortAfter]
           /\ light' \in [Page -> {"checking", "ok", "degraded", "offline"}]
BY TimesAssumption DEF ServerTypeOK, Respond, Light

LEMMA FinishType ==
    ASSUME ServerTypeOK, NEW p \in Page, NEW ok \in BOOLEAN, Finish(p, ok)
    PROVE  /\ serving' \in [Page -> {"none", "waiting", "probing", "loading"}]
           /\ outcome' \in [Page -> BOOLEAN]
           /\ asked' \subseteq Page
           /\ waited' \in [Page -> 0 .. AbortAfter]
           /\ light' \in [Page -> {"checking", "ok", "degraded", "offline"}]
<1>1. CASE opened
  BY <1>1, RespondType DEF Finish, ServerTypeOK
<1>2. CASE ~opened
  BY <1>2 DEF Finish, ServerTypeOK, pageVars
<1> QED
  BY <1>1, <1>2

\* The thread of a page that has given up goes on with its probe.
LEMMA GivesUp ==
    ASSUME ServerTypeOK, NEW p \in Page, Abort(p)
    PROVE  /\ lock' \in {lock, Gone} /\ (lock = p => lock' = Gone) /\ (lock # p => lock' = lock)
           /\ asked' = asked \ {p} /\ serving'[p] = "none" /\ waited'[p] = 0
           /\ \A q \in Page : q # p => serving'[q] = serving[q] /\ waited'[q] = waited[q]
           /\ UNCHANGED <<answering, cache, probe, opened, steady>>
BY DEF ServerTypeOK, Abort

LEMMA ServerTypeStep == ServerTypeOK /\ [ServerNext]_serverVars => ServerTypeOK'
<1> SUFFICES ASSUME ServerTypeOK, [ServerNext]_serverVars PROVE ServerTypeOK'
  OBVIOUS
<1> USE TimesAssumption, PageAssumption, NoProbeAssumption
<1>a. Steady \in Nat
  BY DEF Steady
<1>1. ASSUME UNCHANGED vars PROVE TypeOK'
  BY <1>1 DEF ServerTypeOK, TypeOK, vars
<1>2. runtime["base_url"] \in Nat
  BY DEF ServerTypeOK, TypeOK, Field, SectionOf
<1>3. ASSUME NEW w \in Worker, Step(w), Track, Noticed, UNCHANGED <<probeVars, pageVars>>
      PROVE  ServerTypeOK'
  BY <1>a, <1>3, StepType DEF ServerTypeOK, Noticed, probeVars, pageVars
<1>4. ASSUME Restart, HealthRestart, Noticed PROVE ServerTypeOK'
  <2>1. outcome' \in [Page -> BOOLEAN] /\ opened' \in BOOLEAN
    BY <1>4, Zenon DEF HealthRestart
  <2> QED
    BY <1>a, <1>4, <2>1, RestartType DEF ServerTypeOK, HealthRestart, Noticed
<1>5. ASSUME NEW p \in Page, Poll(p), UNCHANGED vars PROVE ServerTypeOK'
  BY <1>1, <1>5 DEF ServerTypeOK, Poll
<1>6. ASSUME NEW p \in Page, Hit(p), UNCHANGED vars PROVE ServerTypeOK'
  <2>1. cache.ok \in BOOLEAN
    BY <1>6 DEF ServerTypeOK, Hit, Fresh
  <2>2. Finish(p, cache.ok) /\ UNCHANGED <<answering, cache, lock, probe, opened, steady>>
    BY <1>6 DEF Hit
  <2> QED
    BY <1>1, <1>6, <2>1, <2>2, FinishType DEF ServerTypeOK
<1>7. ASSUME NEW p \in Page, Probe(p), UNCHANGED vars PROVE ServerTypeOK'
  BY <1>1, <1>2, <1>7 DEF ServerTypeOK, Probe, pageVars
<1>8. ASSUME NEW p \in Page, Probed(p), UNCHANGED vars PROVE ServerTypeOK'
  <2> DEFINE ok == probe.url \in answering
  <2>1. Finish(p, ok) /\ UNCHANGED <<answering, opened, steady>>
        /\ cache' = [ok |-> ok, age |-> 0] /\ lock' = Nobody /\ probe' = NoProbe
    BY <1>8 DEF Probed
  <2>2. ok \in BOOLEAN
    OBVIOUS
  <2> HIDE DEF ok
  <2> QED
    BY <1>1, <1>8, <2>1, <2>2, FinishType DEF ServerTypeOK
<1>9. ASSUME NEW p \in Page, Abort(p), UNCHANGED vars PROVE ServerTypeOK'
  BY <1>1, <1>9 DEF ServerTypeOK, Abort
<1>10. ASSUME Upstream, UNCHANGED vars PROVE ServerTypeOK'
  BY <1>a, <1>1, <1>10 DEF ServerTypeOK, Upstream, pageVars
<1>11. ASSUME Tick, UNCHANGED vars PROVE ServerTypeOK'
  <2>1. cache' \in [ok : BOOLEAN, age : 0 .. TTL] \cup {NoProbe}
    BY <1>11, CappedType DEF ServerTypeOK, Tick
  <2>2. probe' \in [url : Nat, age : 0 .. LongestProbe] \cup {NoProbe}
    BY <1>11 DEF ServerTypeOK, Tick
  <2>3. waited' \in [Page -> 0 .. AbortAfter]
    BY <1>11 DEF ServerTypeOK, Tick
  <2>4. steady' \in 0 .. Steady
    BY <1>a, <1>11, CappedType DEF ServerTypeOK, Tick
  <2> QED
    BY <1>1, <1>11, <2>1, <2>2, <2>3, <2>4 DEF ServerTypeOK, Tick
<1>13. ASSUME NEW p \in Page, Loaded(p), UNCHANGED vars PROVE ServerTypeOK'
  <2>1. Respond(p, outcome[p]) /\ outcome[p] \in BOOLEAN
        /\ outcome' = [outcome EXCEPT ![p] = FALSE] /\ opened' \in {opened, TRUE}
        /\ UNCHANGED <<answering, cache, lock, probe, steady>>
    BY <1>13 DEF Loaded, ServerTypeOK
  <2>2. opened' \in BOOLEAN
    BY <2>1 DEF ServerTypeOK
  <2>3. outcome' \in [Page -> BOOLEAN]
    BY <2>1 DEF ServerTypeOK
  <2>4. UNCHANGED <<answering, cache, lock, probe, steady>>
    BY <2>1
  <2>5. /\ serving' \in [Page -> {"none", "waiting", "probing", "loading"}]
        /\ asked' \subseteq Page
        /\ waited' \in [Page -> 0 .. AbortAfter]
        /\ light' \in [Page -> {"checking", "ok", "degraded", "offline"}]
    BY <2>1, RespondType
  <2> QED
    BY <1>1, <1>13, <2>2, <2>3, <2>4, <2>5 DEF ServerTypeOK
<1>14. ASSUME Open, UNCHANGED vars PROVE ServerTypeOK'
  BY <1>1, <1>14 DEF ServerTypeOK, Open, pageVars
<1>15. ASSUME ProbedForNobody, UNCHANGED vars PROVE ServerTypeOK'
  <2> DEFINE ok == probe.url \in answering
  <2>1. cache' = [ok |-> ok, age |-> 0] /\ lock' = Nobody /\ probe' = NoProbe
        /\ UNCHANGED <<answering, opened, serving, outcome, pageVars, steady>>
    BY <1>15 DEF ProbedForNobody
  <2>2. ok \in BOOLEAN
    OBVIOUS
  <2> HIDE DEF ok
  <2> QED
    BY <1>1, <1>15, <2>1, <2>2 DEF ServerTypeOK, pageVars
<1>12. CASE UNCHANGED serverVars
  BY <1>1, <1>12 DEF ServerTypeOK, serverVars, healthVars, probeVars, pageVars
<1> QED
  BY <1>3, <1>4, <1>5, <1>6, <1>7, <1>8, <1>9, <1>10, <1>11, <1>12, <1>13, <1>14, <1>15
     DEF ServerNext, HealthStep

(* Settings, probe, lock and pages keep their types (app/routes_health.py   *)
(* beside app/admin/routes.py in one process, and its pages).               *)
THEOREM ServerTypeCorrect == ServerSpec => []ServerTypeOK
BY ServerTypeInit, ServerTypeStep, PTL DEF ServerSpec

-------------------------------------------------------------------------------
(* Why WaitsForOneProbe holds.  The lock is held by the one request that      *)
(* probes.  Who waits behind a probe has waited no longer than it lasts; and   *)
(* when the lock is free, who has waited at all finds an entry that was just   *)
(* made, so that no second probe comes before it.  Pages that wait for         *)
(* anything have not given up.                                                 *)
Queued(p) == serving[p] \in {"waiting", "probing"}

LockIsTheProbes ==
    /\ lock = Nobody => probe = NoProbe
    /\ lock # Nobody => probe # NoProbe
    /\ \A p \in Page : serving[p] = "probing" <=> lock = p

BehindOneProbe ==
    \A p \in Page :
        /\ p \notin asked => waited[p] = 0
        /\ serving[p] # "none" => p \in asked
        /\ Queued(p) /\ lock # Nobody => waited[p] <= probe.age
        /\ Queued(p) /\ lock = Nobody /\ waited[p] > 0 => Fresh

WaitInv == LockIsTheProbes /\ BehindOneProbe

LEMMA WaitInit == ServerInit => WaitInv
BY PageAssumption
   DEF ServerInit, HealthInit, WaitInv, LockIsTheProbes, BehindOneProbe, Queued

LEMMA RespondWait ==
    ASSUME ServerTypeOK, NEW p \in Page, NEW ok, Respond(p, ok), BehindOneProbe
    PROVE  \A q \in Page :
              /\ q \notin asked' => waited'[q] = 0
              /\ q # p => /\ waited'[q] = waited[q] /\ serving'[q] = serving[q]
                          /\ q \in asked' <=> q \in asked
              /\ serving'[p] = "none"
BY DEF ServerTypeOK, Respond, BehindOneProbe

LEMMA FinishWait ==
    ASSUME ServerTypeOK, NEW p \in Page, NEW ok, Finish(p, ok), BehindOneProbe,
           serving[p] # "none"
    PROVE  \A q \in Page :
              /\ q \notin asked' => waited'[q] = 0
              /\ q # p => /\ waited'[q] = waited[q] /\ serving'[q] = serving[q]
                          /\ q \in asked' <=> q \in asked
              /\ serving'[p] = "none" \/ (serving'[p] = "loading" /\ p \in asked')
<1>1. CASE opened
  BY <1>1, RespondWait DEF Finish
<1>2. CASE ~opened
  BY <1>2 DEF Finish, ServerTypeOK, pageVars, BehindOneProbe
<1> QED
  BY <1>1, <1>2

LEMMA WaitStep ==
    ASSUME ServerTypeOK, WaitInv, [ServerNext]_serverVars
    PROVE  WaitInv'
<1> USE TimesAssumption, PageAssumption, NoProbeAssumption
<1> USE DEF WaitInv, LockIsTheProbes, BehindOneProbe, Queued
<1>1. ASSUME UNCHANGED <<probeVars, pageVars>> PROVE WaitInv'
  BY <1>1 DEF probeVars, pageVars, Fresh
<1>2. ASSUME HealthRestart PROVE WaitInv'
  BY <1>2 DEF ServerTypeOK, HealthRestart
<1>3. ASSUME NEW p \in Page, Poll(p) PROVE WaitInv'
  <2>1. waited[p] = 0 /\ UNCHANGED <<cache, lock, probe, waited>>
    BY <1>3 DEF Poll
  <2>2. \A q \in Page : q # p => serving'[q] = serving[q]
    BY <1>3 DEF ServerTypeOK, Poll
  <2>3. serving'[p] \in {"waiting", "none"} /\ serving[p] = "none"
    BY <1>3 DEF ServerTypeOK, Poll
  <2>4. lock # Nobody => probe.age \in Nat
    BY DEF ServerTypeOK
  <2> QED
    BY <1>3, <2>1, <2>2, <2>3, <2>4 DEF Poll, Fresh
<1>4. ASSUME NEW p \in Page, Hit(p) PROVE WaitInv'
  <2>1. Finish(p, cache.ok) /\ UNCHANGED <<cache, lock, probe>>
        /\ lock = Nobody /\ serving[p] = "waiting"
    BY <1>4 DEF Hit, MayEnter
  <2> QED
    BY <2>1, FinishWait DEF Fresh
<1>5. ASSUME NEW p \in Page, Probe(p) PROVE WaitInv'
  <2>1. lock = Nobody /\ ~Fresh /\ lock' = p /\ UNCHANGED <<cache, asked, waited>>
        /\ serving' = [serving EXCEPT ![p] = "probing"]
    BY <1>5 DEF Probe, MayEnter, pageVars
  <2>2. probe'.age = 0 /\ probe' # NoProbe
    <3>1. runtime["base_url"] \in Nat
      BY DEF ServerTypeOK, TypeOK, Field, SectionOf
    <3> QED
      BY <1>5, <3>1 DEF Probe
  <2>3. \A q \in Page : Queued(q) => waited[q] = 0
    BY <2>1 DEF ServerTypeOK
  <2>4. serving[p] = "waiting"
    BY <1>5 DEF Probe, MayEnter
  <2> QED
    BY <2>1, <2>2, <2>3, <2>4 DEF ServerTypeOK
<1>6. ASSUME NEW p \in Page, Probed(p) PROVE WaitInv'
  <2> DEFINE ok == probe.url \in answering
  <2>1. Finish(p, ok) /\ cache' = [ok |-> ok, age |-> 0] /\ lock' = Nobody
        /\ probe' = NoProbe /\ serving[p] = "probing"
    BY <1>6 DEF Probed
  <2>2. Fresh'
    <3>1. ok \in BOOLEAN /\ 0 \in 0 .. TTL
      OBVIOUS
    <3> HIDE DEF ok
    <3> QED
      BY <2>1, <3>1 DEF Fresh
  <2> HIDE DEF ok
  <2> QED
    BY <2>1, <2>2, FinishWait DEF ServerTypeOK
<1>7. ASSUME NEW p \in Page, Abort(p) PROVE WaitInv'
  BY <1>7, GivesUp DEF Fresh
<1>8. ASSUME Upstream PROVE WaitInv'
  BY <1>8 DEF Upstream, pageVars, Fresh
<1>9. ASSUME Tick PROVE WaitInv'
  <2>1. UNCHANGED <<lock, serving, asked>>
        /\ waited' = [p \in Page |-> IF p \in asked THEN waited[p] + 1 ELSE waited[p]]
    BY <1>9 DEF Tick
  <2>2. lock = Nobody => \A p \in Page : ~Queued(p)
    BY <1>9 DEF Tick, MayEnter, ServerTypeOK
  <2>3. lock = Nobody => probe' = NoProbe
    BY <1>9 DEF Tick
  <2>4. lock # Nobody => /\ probe.age \in Nat /\ probe'.age = probe.age + 1
                        /\ probe.age < LongestProbe
                        /\ probe' # NoProbe
    BY <1>9 DEF Tick, ServerTypeOK
  <2>5. waited \in [Page -> Nat]
    BY DEF ServerTypeOK
  <2> QED
    BY <2>1, <2>2, <2>3, <2>4, <2>5
<1>10. ASSUME NEW p \in Page, Loaded(p) PROVE WaitInv'
  <2>1. Respond(p, outcome[p]) /\ UNCHANGED <<cache, lock, probe>>
        /\ serving[p] = "loading"
    BY <1>10 DEF Loaded
  <2> QED
    BY <2>1, RespondWait DEF Fresh
<1>11. ASSUME Open PROVE WaitInv'
  BY <1>11 DEF Open, pageVars, Fresh
<1>12. ASSUME ProbedForNobody PROVE WaitInv'
  <2> DEFINE ok == probe.url \in answering
  <2>1. cache' = [ok |-> ok, age |-> 0] /\ lock' = Nobody /\ probe' = NoProbe
        /\ lock = Gone /\ UNCHANGED <<serving, asked, waited>>
    BY <1>12 DEF ProbedForNobody, pageVars
  <2>2. Fresh'
    <3>1. ok \in BOOLEAN /\ 0 \in 0 .. TTL
      OBVIOUS
    <3> HIDE DEF ok
    <3> QED
      BY <2>1, <3>1 DEF Fresh
  <2> HIDE DEF ok
  <2> QED
    BY <2>1, <2>2
<1> QED
  BY <1>1, <1>2, <1>3, <1>4, <1>5, <1>6, <1>7, <1>8, <1>9, <1>10, <1>11, <1>12
     DEF ServerNext, HealthStep, serverVars, healthVars

LEMMA WaitBound == ServerTypeOK /\ WaitInv => WaitsForOneProbe
BY DEF ServerTypeOK, WaitInv, LockIsTheProbes, BehindOneProbe, Queued, WaitsForOneProbe

(* Under the lock no request waits for more than one probe, however many       *)
(* pages poll at once, however long the probe takes, and whatever is           *)
(* configured, restarted or given up on meanwhile.                             *)
THEOREM NeverWaitsForTwo == ServerSpec => []WaitsForOneProbe
<1>1. ServerTypeOK /\ WaitInv /\ [ServerNext]_serverVars => WaitInv'
  BY WaitStep
<1> QED
  BY <1>1, WaitInit, WaitBound, ServerTypeInit, ServerTypeStep, PTL DEF ServerSpec

-------------------------------------------------------------------------------
(* Why LightFollowsSettings holds: the outcome of a probe is that of the     *)
(* address in use, unless the settings or the upstream changed after it read *)
(* the address; and steady counts no more than what passed since.            *)
ProbeIsTrue ==
    lock # Nobody => probe.url = runtime["base_url"] \/ steady <= probe.age

CacheIsTrue ==
    Fresh => cache.ok = Truth \/ steady <= cache.age + LongestProbe

TruthInv == ProbeIsTrue /\ CacheIsTrue

LEMMA TruthInit == ServerInit => TruthInv
BY DEF ServerInit, HealthInit, TruthInv, ProbeIsTrue, CacheIsTrue, Fresh

\* The ages the steps below compute with.
LEMMA Ages ==
    ASSUME ServerTypeOK, WaitInv
    PROVE  /\ lock # Nobody => probe.age \in 0 .. LongestProbe
           /\ Fresh => cache.age \in 0 .. TTL /\ cache.age < TTL
           /\ steady \in Nat
BY TimesAssumption DEF ServerTypeOK, WaitInv, LockIsTheProbes, Fresh, Steady

LEMMA TruthStep ==
    ASSUME ServerTypeOK, WaitInv, TruthInv, [ServerNext]_serverVars
    PROVE  TruthInv'
<1> USE TimesAssumption, PageAssumption, NoProbeAssumption, Ages
<1> USE DEF TruthInv, ProbeIsTrue, CacheIsTrue
<1>1. ASSUME Noticed, UNCHANGED probeVars PROVE TruthInv'
  <2>1. UNCHANGED <<answering, cache, lock, probe>>
    BY <1>1 DEF probeVars
  <2>2. CASE runtime'["base_url"] # runtime["base_url"]
    BY <1>1, <2>1, <2>2 DEF Noticed, Fresh
  <2>3. CASE runtime'["base_url"] = runtime["base_url"]
    BY <1>1, <2>1, <2>3 DEF Noticed, Fresh, Truth
  <2> QED
    BY <2>2, <2>3
<1>2. ASSUME HealthRestart PROVE TruthInv'
  BY <1>2 DEF HealthRestart, Fresh
<1>3. ASSUME UNCHANGED <<answering, cache, lock, probe, steady, runtime>> PROVE TruthInv'
  BY <1>3 DEF Fresh, Truth
<1>4. ASSUME NEW p \in Page, Probe(p), UNCHANGED runtime PROVE TruthInv'
  <2>1. UNCHANGED <<answering, cache, steady>> /\ probe'.url = runtime["base_url"]
    BY <1>4 DEF Probe
  <2> QED
    BY <1>4, <2>1 DEF Fresh, Truth
<1>5. ASSUME NEW p \in Page, Probed(p), UNCHANGED runtime PROVE TruthInv'
  <2>1. lock # Nobody
    BY <1>5 DEF Probed, WaitInv, LockIsTheProbes
  <2>2. cache'.ok = (probe.url \in answering) /\ cache'.age = 0 /\ lock' = Nobody
        /\ UNCHANGED <<answering, steady>>
    BY <1>5 DEF Probed
  <2>3. CASE probe.url = runtime["base_url"]
    BY <1>5, <2>2, <2>3 DEF Truth
  <2>4. CASE steady <= probe.age
    BY <2>1, <2>2, <2>4
  <2> QED
    BY <2>1, <2>3, <2>4
<1>6. ASSUME Upstream PROVE TruthInv'
  BY <1>6 DEF Upstream, Fresh
<1>8. ASSUME ProbedForNobody, UNCHANGED runtime PROVE TruthInv'
  <2>1. lock # Nobody
    BY <1>8 DEF ProbedForNobody
  <2>2. cache'.ok = (probe.url \in answering) /\ cache'.age = 0 /\ lock' = Nobody
        /\ UNCHANGED <<answering, steady>>
    BY <1>8 DEF ProbedForNobody
  <2>3. CASE probe.url = runtime["base_url"]
    BY <1>8, <2>2, <2>3 DEF Truth
  <2>4. CASE steady <= probe.age
    BY <2>1, <2>2, <2>4
  <2> QED
    BY <2>1, <2>3, <2>4
<1>9. ASSUME NEW p \in Page, Abort(p), UNCHANGED runtime PROVE TruthInv'
  BY <1>9, GivesUp DEF WaitInv, LockIsTheProbes, Fresh, Truth
<1>7. ASSUME Tick, UNCHANGED runtime PROVE TruthInv'
  <2>1. steady' <= steady + 1
    BY <1>7 DEF Tick, Capped, Steady, ServerTypeOK
  <2>2. steady' \in Nat
    BY <1>7 DEF Tick, Capped, Steady
  <2>3. ProbeIsTrue'
    BY <1>7, <2>1, <2>2 DEF Tick, WaitInv, LockIsTheProbes
  <2>4. ASSUME Fresh' PROVE Fresh /\ cache'.ok = cache.ok /\ cache'.age = cache.age + 1
    <3>1. cache # NoProbe /\ cache' = [cache EXCEPT !.age = Capped(@, TTL)]
      BY <1>7, <2>4 DEF Tick, Fresh
    <3>2. cache \in [ok : BOOLEAN, age : 0 .. TTL]
      BY <3>1 DEF ServerTypeOK
    <3>3. cache'.ok = cache.ok /\ cache'.age = Capped(cache.age, TTL)
      BY <3>1, <3>2
    <3> QED
      BY <2>4, <3>1, <3>2, <3>3 DEF Fresh, Capped
  <2>5. UNCHANGED answering
    BY <1>7 DEF Tick
  <2>6. CacheIsTrue'
    BY <1>7, <2>1, <2>2, <2>4, <2>5 DEF Truth
  <2> QED
    BY <2>3, <2>6
<1> QED
  BY <1>1, <1>2, <1>3, <1>4, <1>5, <1>6, <1>7, <1>8, <1>9
     DEF ServerNext, HealthStep, Poll, Hit, Loaded, Open,
         serverVars, healthVars, probeVars, vars

\* An outcome that waits for the store was true, or nearly so, when the wait
\* began, and nothing has been steady for longer.
OutcomesTrue ==
    \A p \in Page :
        serving[p] = "loading" =>
            outcome[p] = Truth \/ steady < TTL + LongestProbe + waited[p]

LEMMA OutcomesInit == ServerInit => OutcomesTrue
BY DEF ServerInit, HealthInit, OutcomesTrue

LEMMA OutcomeStep ==
    ASSUME ServerTypeOK, WaitInv, TruthInv, OutcomesTrue, [ServerNext]_serverVars
    PROVE  OutcomesTrue'
<1> USE TimesAssumption, PageAssumption, Ages
<1> DEFINE True(p) ==
        serving[p] = "loading" =>
            outcome[p] = Truth \/ steady < TTL + LongestProbe + waited[p]
<1> SUFFICES ASSUME NEW p \in Page PROVE True(p)'
  BY DEF OutcomesTrue
<1>a. True(p)
  BY DEF OutcomesTrue
<1>b. waited[p] \in Nat /\ (waited \in [Page -> Nat])'
  BY ServerTypeStep DEF ServerTypeOK
<1>1. ASSUME Noticed, UNCHANGED <<probeVars, pageVars>> PROVE True(p)'
  <2>1. UNCHANGED <<answering, serving, outcome, waited>>
    BY <1>1 DEF probeVars, pageVars
  <2>2. CASE runtime'["base_url"] # runtime["base_url"]
    BY <1>1, <1>b, <2>1, <2>2 DEF Noticed
  <2>3. CASE runtime'["base_url"] = runtime["base_url"]
    BY <1>1, <1>a, <2>1, <2>3 DEF Noticed, Truth
  <2> QED
    BY <2>2, <2>3
<1>2. ASSUME HealthRestart PROVE True(p)'
  BY <1>2 DEF HealthRestart
<1>3. ASSUME serving'[p] = "loading" => /\ serving[p] = "loading"
                                       /\ outcome'[p] = outcome[p]
                                       /\ waited'[p] = waited[p],
             UNCHANGED <<answering, steady, runtime>>
      PROVE  True(p)'
  BY <1>3, <1>a DEF Truth
<1>4. ASSUME NEW q \in Page, NEW ok \in BOOLEAN, Finish(q, ok), ServerTypeOK',
             ok = Truth \/ steady < TTL + LongestProbe,
             UNCHANGED <<answering, steady, runtime>>
      PROVE  True(p)'
  <2>1. CASE opened
    BY <1>3, <1>4, <2>1 DEF Finish, Respond, ServerTypeOK
  <2>2. CASE ~opened /\ p = q
    <3>1. outcome'[p] = ok /\ waited'[p] = waited[p]
      BY <1>4, <2>2 DEF Finish, pageVars, ServerTypeOK
    <3> QED
      BY <1>4, <1>b, <3>1 DEF Truth, ServerTypeOK, Steady
  <2>3. CASE ~opened /\ p # q
    BY <1>3, <1>4, <2>3 DEF Finish, pageVars, ServerTypeOK
  <2> QED
    BY <2>1, <2>2, <2>3
<1>5. ASSUME NEW q \in Page, Poll(q), UNCHANGED runtime PROVE True(p)'
  <2>1. UNCHANGED <<answering, steady, outcome, waited>>
        /\ (serving'[p] = serving[p] \/ serving'[p] \in {"waiting", "none"})
    BY <1>5 DEF Poll, ServerTypeOK
  <2> QED
    BY <1>3, <1>5, <2>1
<1>6. ASSUME NEW q \in Page, Hit(q), UNCHANGED runtime PROVE True(p)'
  <2>1. Finish(q, cache.ok) /\ Fresh /\ UNCHANGED <<answering, steady>>
    BY <1>6 DEF Hit
  <2>2. cache.ok \in BOOLEAN
    BY <2>1 DEF Fresh, ServerTypeOK
  <2>3. cache.ok = Truth \/ steady < TTL + LongestProbe
    BY <2>1 DEF TruthInv, CacheIsTrue
  <2> QED
    BY <1>4, <1>6, <2>1, <2>2, <2>3, ServerTypeStep
<1>7. ASSUME NEW q \in Page, Probed(q), UNCHANGED runtime PROVE True(p)'
  <2> DEFINE ok == probe.url \in answering
  <2>1. Finish(q, ok) /\ UNCHANGED <<answering, steady>>
    BY <1>7 DEF Probed
  <2>2. lock # Nobody
    BY <1>7 DEF Probed, WaitInv, LockIsTheProbes
  <2>3. ok = Truth \/ steady < TTL + LongestProbe
    BY <2>2 DEF TruthInv, ProbeIsTrue, Truth
  <2>4. ok \in BOOLEAN
    OBVIOUS
  <2> HIDE DEF ok
  <2> QED
    BY <1>4, <1>7, <2>1, <2>3, <2>4, ServerTypeStep
<1>8. ASSUME NEW q \in Page, Probe(q), UNCHANGED runtime PROVE True(p)'
  <2>1. UNCHANGED <<answering, steady, outcome, waited>>
        /\ (serving'[p] = serving[p] \/ serving'[p] = "probing")
    BY <1>8 DEF Probe, pageVars, ServerTypeOK
  <2> QED
    BY <1>3, <1>8, <2>1
<1>9. ASSUME NEW q \in Page, Loaded(q), UNCHANGED runtime PROVE True(p)'
  <2>1. UNCHANGED <<answering, steady>>
        /\ (p = q => serving'[p] = "none")
        /\ (p # q => UNCHANGED <<serving[p], outcome[p], waited[p]>>)
    BY <1>9 DEF Loaded, Respond, ServerTypeOK
  <2> QED
    BY <1>3, <1>9, <2>1
<1>10. ASSUME NEW q \in Page, Abort(q), UNCHANGED runtime PROVE True(p)'
  <2>1. UNCHANGED <<answering, steady>>
        /\ (p = q => serving'[p] # "loading")
        /\ (p # q => UNCHANGED <<serving[p], outcome[p], waited[p]>>)
    BY <1>10 DEF Abort, ServerTypeOK
  <2> QED
    BY <1>3, <1>10, <2>1
<1>11. ASSUME Open, UNCHANGED runtime PROVE True(p)'
  BY <1>3, <1>11 DEF Open, pageVars
<1>15. ASSUME ProbedForNobody, UNCHANGED runtime PROVE True(p)'
  BY <1>3, <1>15 DEF ProbedForNobody, pageVars
<1>12. ASSUME Upstream PROVE True(p)'
  BY <1>12, <1>b DEF Upstream, pageVars
<1>13. ASSUME Tick, UNCHANGED runtime PROVE True(p)'
  <2>1. steady' <= steady + 1
    BY <1>13 DEF Tick, Capped, Steady, ServerTypeOK
  <2>2. UNCHANGED <<answering, serving, outcome>> /\ steady' \in Nat
    BY <1>13 DEF Tick, Capped, Steady
  <2>3. serving[p] = "loading" => waited'[p] = waited[p] + 1
    BY <1>13 DEF Tick, WaitInv, BehindOneProbe
  <2> QED
    BY <1>13, <1>a, <1>b, <2>1, <2>2, <2>3 DEF Truth
<1>14. CASE UNCHANGED serverVars
  BY <1>3, <1>14 DEF serverVars, healthVars, probeVars, pageVars, vars
<1> QED
  BY <1>1, <1>2, <1>5, <1>6, <1>7, <1>8, <1>9, <1>10, <1>11, <1>12, <1>13, <1>14, <1>15
     DEF ServerNext, HealthStep, vars

Told ==
    \A p \in asked \ asked' : light'[p] # "offline" => ToldTheTruth(p)

LEMMA TruthTold ==
    ASSUME ServerTypeOK, WaitInv, TruthInv, OutcomesTrue, [ServerNext]_serverVars
    PROVE  Told
<1> USE TimesAssumption
<1> SUFFICES ASSUME NEW p \in asked, p \notin asked', light'[p] # "offline"
             PROVE  ToldTheTruth(p)
  BY DEF Told
<1>1. p \in Page
  BY DEF ServerTypeOK
<1>a. Delay(p) \in Nat
  BY <1>1 DEF Delay, ServerTypeOK
<1>b. steady \in Nat
  BY Ages
<1>2. ASSUME NEW q \in Page, NEW ok, Respond(q, ok) PROVE p = q /\ light'[p] = Light(ok)
  BY <1>1, <1>2 DEF Respond, ServerTypeOK
<1>3. ASSUME NEW q \in Page, NEW ok, Finish(q, ok) PROVE p = q /\ light'[p] = Light(ok)
  BY <1>2, <1>3 DEF Finish, pageVars
<1>4. ASSUME steady < TTL + LongestProbe PROVE ToldTheTruth(p)
  BY <1>4, <1>a, <1>b DEF ToldTheTruth
<1>5. ASSUME NEW q \in Page, Hit(q) PROVE ToldTheTruth(p)
  <2>1. light'[p] = Light(cache.ok) /\ Fresh
    BY <1>3, <1>5 DEF Hit
  <2>2. cache.ok = Truth \/ steady < TTL + LongestProbe
    BY <2>1, Ages DEF TruthInv, CacheIsTrue
  <2> QED
    BY <1>4, <2>1, <2>2 DEF ToldTheTruth
<1>6. ASSUME NEW q \in Page, Probed(q) PROVE ToldTheTruth(p)
  <2>1. lock # Nobody
    BY <1>6, PageAssumption DEF Probed, WaitInv, LockIsTheProbes
  <2>2. light'[p] = Light(probe.url \in answering)
    BY <1>3, <1>6 DEF Probed
  <2>3. CASE probe.url = runtime["base_url"]
    BY <2>2, <2>3 DEF ToldTheTruth, Truth
  <2>4. CASE steady <= probe.age
    BY <2>1, <2>4, <1>4, Ages
  <2> QED
    BY <2>1, <2>3, <2>4 DEF TruthInv, ProbeIsTrue
<1>7. ASSUME NEW q \in Page, Loaded(q) PROVE ToldTheTruth(p)
  <2>1. p = q /\ serving[p] = "loading" /\ light'[p] = Light(outcome[p])
    BY <1>2, <1>7 DEF Loaded
  <2> QED
    BY <1>1, <2>1 DEF ToldTheTruth, OutcomesTrue, Delay
<1>8. ASSUME NEW q \in Page, Abort(q) PROVE FALSE
  BY <1>1, <1>8 DEF Abort, ServerTypeOK
<1>9. ASSUME HealthRestart PROVE FALSE
  BY <1>1, <1>9 DEF HealthRestart, ServerTypeOK
<1>10. ASSUME asked \subseteq asked' PROVE FALSE
  BY <1>10
<1> QED
  BY <1>5, <1>6, <1>7, <1>8, <1>9, <1>10
     DEF ServerNext, HealthStep, Poll, Probe, ProbedForNobody, Open, Upstream, Tick,
         serverVars, healthVars, pageVars

(* The light of a page says of the language model in use what is true of it, *)
(* or was less than a cache life and a probe before the server found it out: *)
(* an administrator's change needs no restart (docstring of _probe_llm).     *)
THEOREM LightAlwaysFollows == ServerSpec => LightFollowsSettings
<1>1. ServerTypeOK /\ WaitInv /\ [ServerNext]_serverVars => WaitInv'
  BY WaitStep
<1>2. ServerTypeOK /\ WaitInv /\ TruthInv /\ [ServerNext]_serverVars => TruthInv'
  BY TruthStep
<1>3. ServerTypeOK /\ WaitInv /\ TruthInv /\ OutcomesTrue /\ [ServerNext]_serverVars
        => OutcomesTrue'
  BY OutcomeStep
<1>4. ServerTypeOK /\ WaitInv /\ TruthInv /\ OutcomesTrue /\ [ServerNext]_serverVars
        => [Told]_serverVars
  BY TruthTold
<1> QED
  BY <1>1, <1>2, <1>3, <1>4, WaitInit, TruthInit, OutcomesInit, ServerTypeInit, ServerTypeStep, PTL
     DEF ServerSpec, LightFollowsSettings, Told

===============================================================================
