---------------------------- MODULE AdminSettings -----------------------------
(***************************************************************************)
(* The administrator's settings: the table settings of storage/admin_db.py *)
(* (one row a section, the fields that were ever set), the PUT handler of  *)
(* app/admin/routes.py with update_settings of app/admin/settings.py, the  *)
(* runtime singletons of llm/config.py, and the start of app/main.py.      *)
(*                                                                         *)
(* The handler runs on a thread of the pool.  It validates and merges one  *)
(* section after another, each with reads of its own, then writes one      *)
(* section after another, then copies them into the singletons.  One       *)
(* database call, or one update_*_settings, is one step.                   *)
(*                                                                         *)
(* Of each section the fields that differ in kind are kept: two of llm,    *)
(* which the page saves by two buttons, the pair of retrieval that is      *)
(* checked together, and the model of embedding.  Every value is a number. *)
(***************************************************************************)
EXTENDS Naturals, Sequences

CONSTANTS
    Worker,      \* threads of the pool
    Requests,    \* Requests[w]: the PUT bodies that thread w may be given
    Legal,       \* Legal[f]: the values the type and range checks let pass
    Default,     \* DEFAULTS
    Unset,       \* a field that a body, or the table, does not have
    Restarts     \* the process may be restarted

SectionOf == [temperature   |-> "llm",
              base_url      |-> "llm",
              chunk_size    |-> "retrieval",
              chunk_overlap |-> "retrieval",
              model         |-> "embedding"]

Field == DOMAIN SectionOf
Section == {SectionOf[f] : f \in Field}
Pair == <<"chunk_overlap", "chunk_size">>

Value == Nat \cup {Unset}
NoPatch == [f \in Field |-> Unset]
Request == [sections : Seq(Section), patch : [Field -> Value]]

PairLegal(config) == config["chunk_overlap"] < config["chunk_size"]

ASSUME UnsetAssumption == Unset \notin Nat
ASSUME DefaultAssumption == Default \in [Field -> Nat] /\ PairLegal(Default)
ASSUME RestartsAssumption == Restarts \in BOOLEAN
ASSUME RequestsAssumption ==
    \A w \in Worker : \A r \in Requests[w] :
        /\ r \in Request
        /\ r.sections # <<>>
        /\ \A f \in Field : r.patch[f] # Unset =>
              \E i \in DOMAIN r.sections : r.sections[i] = SectionOf[f]

VARIABLES
    stored,    \* table settings: the overrides
    runtime,   \* _llm_cfg, _rag_cfg, _emb_cfg
    pc,        \* where each worker is in its request
    req,       \* its body: sections, in order, and the fields to set
    at,        \* the section it is at
    pending,   \* what it will write
    shared     \* history, not in the code: the sections that two requests
               \* under way had in common since the process started

request == <<pc, req, at, pending>>
vars == <<stored, runtime, pc, req, at, pending, shared>>

Merge(old, patch) == [f \in Field |-> IF patch[f] # Unset THEN patch[f] ELSE old[f]]

\* old, with the fields of section s taken from new.
Overlay(old, new, s) == [f \in Field |-> IF SectionOf[f] = s THEN new[f] ELSE old[f]]

\* get_effective_settings
Effective == Merge(Default, stored)

Patch(w) == req[w].patch
Here(w) == req[w].sections[at[w]]
AtEnd(w) == at[w] = Len(req[w].sections)
Covers(r, f) == \E i \in DOMAIN r.sections : r.sections[i] = SectionOf[f]

\* The order in which the handler copies sections into the singletons, and the
\* places of those that it has written.
Order == <<"llm", "retrieval", "embedding">>
ToApply(w) ==
    {i \in DOMAIN Order :
        \E j \in DOMAIN req[w].sections : req[w].sections[j] = Order[i]}
FirstOf(S) == CHOOSE i \in S : \A j \in S : i <= j

Goto(w, label, i) ==
    /\ pc' = [pc EXCEPT ![w] = label]
    /\ at' = [at EXCEPT ![w] = i]
    /\ UNCHANGED req

NoRequest == [sections |-> <<"llm">>, patch |-> NoPatch]

\* The requests of W are over, answered or not: their locals are gone.
Forget(W) ==
    /\ pc' = [w \in Worker |-> IF w \in W THEN "idle" ELSE pc[w]]
    /\ at' = [w \in Worker |-> IF w \in W THEN 1 ELSE at[w]]
    /\ req' = [w \in Worker |-> IF w \in W THEN NoRequest ELSE req[w]]
    /\ pending' = [w \in Worker |-> IF w \in W THEN NoPatch ELSE pending[w]]

-------------------------------------------------------------------------------
Begin(w) ==
    /\ pc[w] = "idle"
    /\ \E r \in Requests[w] : req' = [req EXCEPT ![w] = r]
    /\ pc' = [pc EXCEPT ![w] = "validate"]
    /\ UNCHANGED <<stored, runtime, at, pending>>

\* Mutation of Accepted: the pair is checked only when both are in the body.
AcceptedWithoutStored(w) ==
    /\ \A f \in Field : SectionOf[f] = Here(w) /\ Patch(w)[f] # Unset =>
          Patch(w)[f] \in Legal[f]
    /\ Here(w) = "retrieval"
          /\ Patch(w)["chunk_size"] # Unset /\ Patch(w)["chunk_overlap"] # Unset
       => PairLegal(Patch(w))

\* _validate_section_payload: it reads the stored section for the pair only.
Accepted(w) ==
    /\ \A f \in Field : SectionOf[f] = Here(w) /\ Patch(w)[f] # Unset =>
          Patch(w)[f] \in Legal[f]
    /\ Here(w) = "retrieval"
          /\ (Patch(w)["chunk_size"] # Unset \/ Patch(w)["chunk_overlap"] # Unset)
       => PairLegal(Merge(Effective, Patch(w)))

Validate(w) ==
    /\ pc[w] = "validate"
    /\ IF Accepted(w)
       THEN Goto(w, "merge", at[w]) /\ UNCHANGED pending
       ELSE Forget({w})
    /\ UNCHANGED <<stored, runtime>>

\* Mutation of MergeSection: each section is written as soon as it is merged.
MergeSectionAndWrite(w) ==
    /\ pc[w] = "merge"
    /\ pending' = [pending EXCEPT ![w] =
                      Overlay(@, Merge(stored, Patch(w)), Here(w))]
    /\ stored' = Overlay(stored, Merge(stored, Patch(w)), Here(w))
    /\ IF AtEnd(w) THEN Goto(w, "write", 1) ELSE Goto(w, "validate", at[w] + 1)
    /\ UNCHANGED runtime

\* The stored section is read again, and the body laid over it.
MergeSection(w) ==
    /\ pc[w] = "merge"
    /\ pending' = [pending EXCEPT ![w] =
                      Overlay(@, Merge(stored, Patch(w)), Here(w))]
    /\ IF AtEnd(w) THEN Goto(w, "write", 1) ELSE Goto(w, "validate", at[w] + 1)
    /\ UNCHANGED <<stored, runtime>>

WriteSection(w) ==
    /\ pc[w] = "write"
    /\ stored' = Overlay(stored, pending[w], Here(w))
    /\ IF AtEnd(w)
       THEN Goto(w, "apply", FirstOf(ToApply(w)))
       ELSE Goto(w, "write", at[w] + 1)
    /\ UNCHANGED <<runtime, pending>>

\* Mutation of ApplySection: fields the section does not have are applied too.
ApplyUnset(w) ==
    LET rest == {i \in ToApply(w) : i > at[w]} IN
    /\ pc[w] = "apply"
    /\ runtime' = Overlay(runtime, pending[w], Order[at[w]])
    /\ IF rest = {}
       THEN Forget({w})
       ELSE Goto(w, "apply", FirstOf(rest)) /\ UNCHANGED pending
    /\ UNCHANGED stored

\* Mutation of ApplySection: the retrieval section is left for the next start.
ApplyAllButRetrieval(w) ==
    LET rest == {i \in ToApply(w) : i > at[w]} IN
    /\ pc[w] = "apply"
    /\ runtime' = IF Order[at[w]] = "retrieval" THEN runtime
                  ELSE Overlay(runtime, Merge(runtime, pending[w]), Order[at[w]])
    /\ IF rest = {}
       THEN Forget({w})
       ELSE Goto(w, "apply", FirstOf(rest)) /\ UNCHANGED pending
    /\ UNCHANGED stored

\* update_llm_settings and its siblings, with the whole stored section.
ApplySection(w) ==
    LET rest == {i \in ToApply(w) : i > at[w]} IN
    /\ pc[w] = "apply"
    /\ runtime' = Overlay(runtime, Merge(runtime, pending[w]), Order[at[w]])
    /\ IF rest = {}
       THEN Forget({w})
       ELSE Goto(w, "apply", FirstOf(rest)) /\ UNCHANGED pending
    /\ UNCHANGED stored

\* The process ends at any point and starts again: create_app lays the effective
\* settings, defaults included, over what the environment gave the singletons.
Restart ==
    /\ Restarts
    /\ runtime' = Effective
    /\ Forget(Worker)
    /\ shared' = {}
    /\ UNCHANGED stored

Init ==
    /\ stored = NoPatch
    /\ runtime = Default
    /\ pc = [w \in Worker |-> "idle"]
    /\ req = [w \in Worker |-> NoRequest]
    /\ at = [w \in Worker |-> 1]
    /\ pending = [w \in Worker |-> NoPatch]
    /\ shared = {}

Step(w) ==
    \/ Begin(w) \/ Validate(w) \/ MergeSection(w) \/ WriteSection(w)
    \/ ApplySection(w)

\* A request under way that covers field f.
Under(w, f) == pc[w] # "idle" /\ Covers(req[w], f)

Track ==
    shared' = shared \cup
        {SectionOf[f] : f \in {g \in Field :
            \E v, w \in Worker : v # w /\ Under(v, g)' /\ Under(w, g)'}}

Next == ((\E w \in Worker : Step(w)) /\ Track) \/ Restart

Spec == Init /\ [][Next]_vars

-------------------------------------------------------------------------------
\* The type of every variable.
TypeOK ==
    /\ stored \in [Field -> Value]
    /\ runtime \in [Field -> Nat]
    /\ pc \in [Worker -> {"idle", "validate", "merge", "write", "apply"}]
    /\ req \in [Worker -> Request]
    /\ at \in [Worker -> Nat \ {0}]
    /\ \A w \in Worker :
          /\ pc[w] = "idle" => at[w] = 1
          /\ pc[w] \in {"validate", "merge", "write"} => at[w] <= Len(req[w].sections)
    /\ pending \in [Worker -> [Field -> Value]]
    /\ shared \subseteq Section

\* The overlap of chunks stays below their size in what is stored, although the
\* two are checked against one read of the row and merged with another: only
\* requests that were under way together on the section can break it.
OverlapStaysBelow ==
    [][ PairLegal(Effective) /\ ~PairLegal(Effective)' => "retrieval" \in shared ]_vars

\* Where no request is under way, the singletons hold what the table and the
\* defaults say, whatever was written, refused, cut off by a death or is going on
\* in other sections; only a section that two requests had in common since the
\* start, and wrote and applied in opposite orders, may differ until the next.
RuntimeMatches ==
    \A f \in Field :
        SectionOf[f] \notin shared /\ (\A w \in Worker : ~Under(w, f))
            => runtime[f] = Effective[f]

-------------------------------------------------------------------------------
(* The policy.  A request takes effect when its last section is merged:    *)
(* from there on nothing can refuse it.                                    *)

Committed(w) == pc[w] \in {"write", "apply"}

\* What the table and the singletons come to once the committed are through.
Landing(old) ==
    [f \in Field |->
        IF \E w \in Worker : Committed(w) /\ Covers(req[w], f)
        THEN LET w == CHOOSE w \in Worker : Committed(w) /\ Covers(req[w], f)
             IN IF pending[w][f] # Unset THEN pending[w][f] ELSE old[f]
        ELSE old[f]]

Policy == INSTANCE SettingsPolicy
              WITH Patches <- {r.patch : r \in UNION {Requests[w] : w \in Worker}},
                   table <- stored,
                   saved <- Landing(stored), inUse <- Landing(runtime)

\* As long as no two requests have had a section in common since the process
\* started, the handler is the atomic PUT of the policy, requests to different
\* sections interleaving: one that is refused at its last section has written
\* nothing of the first, what is saved is what is in use, and a process that dies
\* before it has written or applied everything starts again on what it had written.
ImplementsPolicy ==
    Policy!Init
    /\ [][ shared' # {} \/ Policy!Next ]_<<stored, Landing(stored), Landing(runtime)>>
===============================================================================
