----------------------------- MODULE HealthProbe ------------------------------
(***************************************************************************)
(* The health light: GET /api/health of app/routes_health.py, which probes *)
(* the language model's server under a lock and caches the outcome, and    *)
(* the store frontend/src/stores/health.ts of every open page, which polls *)
(* it.  The handler is a plain function, so that requests run on threads   *)
(* of the pool and wait for the lock there.                                *)
(*                                                                         *)
(* Time is counted in ticks.  What takes no waiting takes no time: a tick  *)
(* passes only when every thread that could go on has gone on.  The count  *)
(* of chunks in the response takes no time either, but for the first time  *)
(* in a process: get_chroma() loads the embedding model, for as long as    *)
(* that takes, in every thread that comes before it is done.               *)
(*                                                                         *)
(* A probe may outlast the page that asked for it: the timeout of urlopen  *)
(* bounds each operation of the socket and neither the resolution of the   *)
(* name nor the whole.  LongestProbe only keeps the ages finite, and no    *)
(* assumption puts it below AbortAfter.                                    *)
(*                                                                         *)
(* The probe reads the base_url that administrators change meanwhile, so   *)
(* the specification is of both: settings and health in one server process *)
(* that loses what it has in memory when it starts again.                  *)
(***************************************************************************)
EXTENDS AdminSettings

CONSTANTS
    Page,          \* open pages, each with at most one request on its way
    TTL,           \* _PROBE_TTL_SECONDS
    LongestProbe,  \* a bound of the model; the code has none
    AbortAfter,    \* the page gives up: 3000 ms
    NoProbe, Nobody,
    Gone           \* who probes for a page that has given up

ASSUME TimesAssumption ==
    /\ TTL \in Nat \ {0} /\ LongestProbe \in Nat /\ AbortAfter \in Nat \ {0}
ASSUME PageAssumption == Nobody \notin Page /\ Gone \notin Page /\ Nobody # Gone
ASSUME NoProbeAssumption ==
    /\ NoProbe \notin [ok : BOOLEAN, age : 0 .. TTL]
    /\ NoProbe \notin [url : Nat, age : 0 .. LongestProbe]

VARIABLES
    answering,     \* the addresses at which GET /models answers 200 in time
    cache,         \* _probe_cache: the outcome and its age
    lock,          \* _probe_lock: the request that holds it
    probe,         \* the probe under way: the address it read, and its age
    opened,        \* get_chroma() has its store
    serving,       \* where the server is with the request of each page
    outcome,       \* llm_ok of a request that waits for the store
    asked,         \* pages that await fetch()
    waited,        \* for how long
    light,         \* status of each page's store
    steady         \* history: ticks since base_url or answering changed

pageVars == <<asked, waited, light>>
probeVars == <<answering, cache, lock, probe, opened, serving, outcome>>
healthVars == <<probeVars, pageVars, steady>>
serverVars == <<vars, healthVars>>

Url == Legal["base_url"]

Steady == TTL + LongestProbe + AbortAfter     \* steady is counted up to here
Truth == runtime["base_url"] \in answering
Fresh == cache # NoProbe /\ cache.age < TTL
MayEnter(p) == serving[p] = "waiting" /\ lock = Nobody

Capped(n, limit) == IF n < limit THEN n + 1 ELSE limit
Light(ok) == IF ok THEN "ok" ELSE "degraded"

\* The response: dropped by a page that has given up.
Respond(p, ok) ==
    /\ serving' = [serving EXCEPT ![p] = "none"]
    /\ asked' = asked \ {p}
    /\ waited' = [waited EXCEPT ![p] = 0]
    /\ light' = IF p \in asked THEN [light EXCEPT ![p] = Light(ok)] ELSE light

\* What follows on the probe: collection_count(), and the response.
Finish(p, ok) ==
    IF opened
    THEN Respond(p, ok) /\ UNCHANGED outcome
    ELSE /\ serving' = [serving EXCEPT ![p] = "loading"]
         /\ outcome' = [outcome EXCEPT ![p] = ok]
         /\ UNCHANGED pageVars

-------------------------------------------------------------------------------
\* refresh().  The interval is longer than any refresh lasts.  The request may
\* be lost on its way, and the page does not learn of it.
Poll(p) ==
    /\ p \notin asked
    /\ serving[p] = "none"
    /\ asked' = asked \cup {p}
    /\ \E place \in {"waiting", "none"} : serving' = [serving EXCEPT ![p] = place]
    /\ UNCHANGED <<answering, cache, lock, probe, opened, outcome, waited, light, steady>>

\* Mutation of Hit: a hit makes the entry young again.
HitRenews(p) ==
    /\ MayEnter(p)
    /\ Fresh
    /\ Finish(p, cache.ok)
    /\ cache' = [cache EXCEPT !.age = 0]
    /\ UNCHANGED <<answering, lock, probe, opened, steady>>

Hit(p) ==
    /\ MayEnter(p)
    /\ Fresh
    /\ Finish(p, cache.ok)
    /\ UNCHANGED <<answering, cache, lock, probe, opened, steady>>

\* Mutation of Probe: it does not look at the cache once it has the lock.
ProbeAnyway(p) ==
    /\ MayEnter(p)
    /\ lock' = p
    /\ probe' = [url |-> runtime["base_url"], age |-> 0]
    /\ serving' = [serving EXCEPT ![p] = "probing"]
    /\ UNCHANGED <<answering, cache, opened, outcome, pageVars, steady>>

\* The lock is taken, the entry is old or missing: the settings are read, and
\* the request goes out.
Probe(p) ==
    /\ MayEnter(p)
    /\ ~Fresh
    /\ lock' = p
    /\ probe' = [url |-> runtime["base_url"], age |-> 0]
    /\ serving' = [serving EXCEPT ![p] = "probing"]
    /\ UNCHANGED <<answering, cache, opened, outcome, pageVars, steady>>

\* It answered, or raised, or timed out; the time is taken now.
Probed(p) ==
    LET ok == probe.url \in answering IN
    /\ serving[p] = "probing"
    /\ cache' = [ok |-> ok, age |-> 0]
    /\ lock' = Nobody
    /\ probe' = NoProbe
    /\ Finish(p, ok)
    /\ UNCHANGED <<answering, opened, steady>>

\* The same for a page that has given up: the thread goes on to the end, for
\* the entry.
ProbedForNobody ==
    /\ lock = Gone
    /\ cache' = [ok |-> probe.url \in answering, age |-> 0]
    /\ lock' = Nobody
    /\ probe' = NoProbe
    /\ UNCHANGED <<answering, opened, serving, outcome, pageVars, steady>>

\* The store is open, or could not be opened, which counts as no chunks.
Loaded(p) ==
    /\ serving[p] = "loading"
    /\ Respond(p, outcome[p])
    /\ opened' \in {opened, TRUE}
    /\ outcome' = [outcome EXCEPT ![p] = FALSE]
    /\ UNCHANGED <<answering, cache, lock, probe, steady>>

\* The store is opened by a chat, a re-index, or for a page that has given up.
Open ==
    /\ opened' = TRUE
    /\ UNCHANGED <<answering, cache, lock, probe, serving, outcome, pageVars, steady>>

\* The timer of the AbortController.  The thread that serves the request does
\* not know: one that probes goes on, one that loads opens the store, and one
\* that waits finds what the probe leaves.
Abort(p) ==
    /\ p \in asked
    /\ waited[p] = AbortAfter
    /\ asked' = asked \ {p}
    /\ waited' = [waited EXCEPT ![p] = 0]
    /\ light' = [light EXCEPT ![p] = "offline"]
    /\ serving' = [serving EXCEPT ![p] = "none"]
    /\ lock' = IF lock = p THEN Gone ELSE lock
    /\ outcome' = [outcome EXCEPT ![p] = FALSE]
    /\ UNCHANGED <<answering, cache, probe, opened, steady>>

\* A language model's server goes up or down.
Upstream ==
    /\ \E u \in Url : answering' = (answering \ {u}) \cup ({u} \ answering)
    /\ steady' = 0
    /\ UNCHANGED <<cache, lock, probe, opened, serving, outcome, pageVars>>

Tick ==
    /\ \A p \in Page : ~MayEnter(p)
    /\ probe # NoProbe => probe.age < LongestProbe
    /\ \A p \in asked : waited[p] < AbortAfter
    /\ cache' = IF cache = NoProbe THEN cache ELSE [cache EXCEPT !.age = Capped(@, TTL)]
    /\ probe' = IF probe = NoProbe THEN probe ELSE [probe EXCEPT !.age = @ + 1]
    /\ waited' = [p \in Page |-> IF p \in asked THEN waited[p] + 1 ELSE waited[p]]
    /\ steady' = Capped(steady, Steady)
    /\ UNCHANGED <<answering, lock, opened, serving, outcome, asked, light>>

\* The server dies and starts again: what was cached is gone, and so are the
\* connections of the pages that wait.
HealthRestart ==
    /\ cache' = NoProbe /\ lock' = Nobody /\ probe' = NoProbe
    /\ opened' = FALSE
    /\ serving' = [p \in Page |-> "none"]
    /\ outcome' = [p \in Page |-> FALSE]
    /\ light' = [p \in Page |-> IF serving[p] # "none" THEN "offline" ELSE light[p]]
    /\ asked' = {p \in asked : serving[p] = "none"}
    /\ waited' = [p \in Page |-> IF p \in asked' THEN waited[p] ELSE 0]
    /\ UNCHANGED answering

HealthInit ==
    /\ answering \in SUBSET Url
    /\ cache = NoProbe /\ lock = Nobody /\ probe = NoProbe
    /\ opened = FALSE
    /\ serving = [p \in Page |-> "none"]
    /\ outcome = [p \in Page |-> FALSE]
    /\ asked = {}
    /\ waited = [p \in Page |-> 0]
    /\ light = [p \in Page |-> "checking"]
    /\ steady = 0

ServerInit == Init /\ HealthInit

HealthStep ==
    \/ \E p \in Page : Poll(p) \/ Hit(p) \/ Probe(p) \/ Probed(p) \/ Loaded(p) \/ Abort(p)
    \/ ProbedForNobody
    \/ Open
    \/ Upstream
    \/ Tick

\* A restart, or the hot reload, may change the address in use.
Noticed == steady' = IF runtime'["base_url"] # runtime["base_url"] THEN 0 ELSE steady

ServerNext ==
    \/ (\E w \in Worker : Step(w)) /\ Track /\ Noticed /\ UNCHANGED <<probeVars, pageVars>>
    \/ Restart /\ HealthRestart /\ Noticed
    \/ HealthStep /\ UNCHANGED vars

ServerSpec == ServerInit /\ [][ServerNext]_serverVars

-------------------------------------------------------------------------------
\* The type of every variable.
ServerTypeOK ==
    /\ TypeOK
    /\ answering \subseteq Url
    /\ cache \in [ok : BOOLEAN, age : 0 .. TTL] \cup {NoProbe}
    /\ lock \in Page \cup {Nobody, Gone}
    /\ probe \in [url : Nat, age : 0 .. LongestProbe] \cup {NoProbe}
    /\ opened \in BOOLEAN
    /\ serving \in [Page -> {"none", "waiting", "probing", "loading"}]
    /\ outcome \in [Page -> BOOLEAN]
    /\ asked \subseteq Page
    /\ waited \in [Page -> 0 .. AbortAfter]
    /\ light \in [Page -> {"checking", "ok", "degraded", "offline"}]
    /\ steady \in 0 .. Steady

\* A page waits for one probe at most, its own or the one it found under way,
\* however long that takes and however many pages poll: it has waited no longer
\* than the probe that has the lock, and when the lock is free, who has waited
\* at all has an outcome to take and starts no probe after that one.
WaitsForOneProbe ==
    \A p \in asked :
        serving[p] \in {"waiting", "probing"} =>
            IF lock = Nobody THEN waited[p] = 0 \/ Fresh ELSE waited[p] <= probe.age

\* For how long an outcome waited for the store.
Delay(p) == IF serving[p] = "loading" THEN waited[p] ELSE 0

ToldTheTruth(p) ==
    light'[p] = Light(Truth) \/ steady < TTL + LongestProbe + Delay(p)

\* What a page is told is true of the address in use at that moment (the probe
\* reflects whatever the administrator just configured), unless the address or
\* what answers there changed less than a cache life and a probe before the
\* server knew.
LightFollowsSettings ==
    [][\A p \in asked \ asked' : light'[p] # "offline" => ToldTheTruth(p)]_serverVars
===============================================================================
