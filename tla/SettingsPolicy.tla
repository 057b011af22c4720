---------------------------- MODULE SettingsPolicy ----------------------------
(***************************************************************************)
(* What PUT /api/admin/settings promises: a request is taken whole or not  *)
(* at all, and what is saved is what the program uses from then on.  What  *)
(* was taken reaches the table one section at a time, and a restart is     *)
(* left with what has.  The steps of a request are gone.                   *)
(***************************************************************************)
EXTENDS Naturals

CONSTANTS Field,     \* every field of every section
          SectionOf, \* the section of a field
          Patches,   \* what a request may set
          Pair,      \* <<chunk_overlap, chunk_size>>
          Legal,     \* Legal[f]: the values the type and range checks let pass
          Default,   \* DEFAULTS
          Unset      \* a field that a patch, or the table, does not have

VARIABLES table,     \* the overrides in the table settings
          saved,     \* what they come to once all that was taken is written
          inUse      \* the runtime singletons

\* dict.update: the fields of patch replace those of old.
Merge(old, patch) == [f \in Field |-> IF patch[f] # Unset THEN patch[f] ELSE old[f]]

PairLegal(config) == config[Pair[1]] < config[Pair[2]]

InRange(patch) == \A f \in Field : patch[f] # Unset => patch[f] \in Legal[f]

TouchesPair(patch) == \E i \in DOMAIN Pair : patch[Pair[i]] # Unset

Init ==
    /\ table = [f \in Field |-> Unset]
    /\ saved = table
    /\ inUse = Default

Put(patch) ==
    /\ InRange(patch)
    /\ TouchesPair(patch) => PairLegal(Merge(Merge(Default, saved), patch))
    /\ saved' = Merge(saved, patch)
    /\ inUse' = Merge(inUse, patch)
    /\ UNCHANGED table

Write(section) ==
    /\ table' = [f \in Field |->
                    IF SectionOf[f] = section THEN saved[f] ELSE table[f]]
    /\ UNCHANGED <<saved, inUse>>

Restart ==
    /\ saved' = table
    /\ inUse' = Merge(Default, table)
    /\ UNCHANGED table

Next ==
    \/ \E patch \in Patches : Put(patch)
    \/ \E f \in Field : Write(SectionOf[f])
    \/ Restart

Spec == Init /\ [][Next]_<<table, saved, inUse>>
===============================================================================
