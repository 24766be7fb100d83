---------------------------- MODULE FeatureFlags -----------------------------
(***************************************************************************)
(* Platform feature flags.  An update reads the whole flag, replaces the   *)
(* fields it was given and writes the whole row back in a later statement; *)
(* creation and deletion ask whether the key exists before they act.       *)
(***************************************************************************)
EXTENDS Naturals, Containers

CONSTANTS
    Keys,           \* keys of flags
    Fields,         \* name, description, is_enabled, enabled_plans, ...
    NoFlag,         \* no flag with this key
    MaxEdits        \* bound: how many values administrators provide

ASSUME FlagAssumption == MaxEdits \in Nat

VARIABLES
    flags,          \* flags[k]: the row of the flag with key k
    editing,        \* editing[p]: the administrator's request p serves
    edits,          \* how many requests have provided values; value n is what
                    \* the nth provided, 0 the default of the seed
    provided,       \* history: provided[k] = for each field the value written
                    \* for it last by a request that was given one
    raced           \* history: keys some request held a copy of, or had found
                    \* absent, when another wrote them

flagVars == <<flags, editing, edits, provided, raced>>

FlagRow == [Fields -> 0..MaxEdits]

Edit == [op : {"none", "create", "update", "answer", "delete"}, key : Keys,
         copy : FlagRow, given : SUBSET Fields, value : 0..MaxEdits]
NoEdit == [op |-> "none", key |-> CHOOSE k \in Keys : TRUE,
           copy |-> [f \in Fields |-> 0], given |-> {}, value |-> 0]

FlagTypeOK ==
    /\ flags \in [Keys -> FlagRow \cup {NoFlag}]
    /\ editing \in [Processes -> Edit]
    /\ edits \in 0..MaxEdits
    /\ provided \in [Keys -> FlagRow]
    /\ raced \subseteq Keys

FlagInit ==
    /\ flags = [k \in Keys |-> NoFlag]
    /\ editing = [p \in Processes |-> NoEdit]
    /\ edits = 0
    /\ provided = [k \in Keys |-> [f \in Fields |-> 0]]
    /\ raced = {}

Exists(k) == flags[k] # NoFlag
EndEdit(p) == editing' = [editing EXCEPT ![p] = NoEdit]

\* Other requests than p's work from what they have read of k.
Held(p, k) == \E q \in Processes \ {p} :
                  editing[q].key = k /\ editing[q].op \in {"create", "update"}

\* A write of k by p; a flag that is created while nobody holds a copy of an
\* earlier one starts afresh.
WriteFlag(p, k, row) ==
    /\ flags' = [flags EXCEPT ![k] = row]
    /\ raced' = IF Held(p, k) THEN raced \cup {k}
                ELSE IF ~Exists(k) THEN raced \ {k} ELSE raced

\* What p was given is the last that was provided for these fields of k.
Provide(p, k) ==
    provided' = [provided EXCEPT ![k] =
        [f \in Fields |-> IF f \in editing[p].given THEN editing[p].value ELSE @[f]]]

\* create, after exists_by_key: every field is given.
BeginCreate(p, k) ==
    /\ editing[p] = NoEdit /\ ~Exists(k) /\ edits < MaxEdits
    /\ edits' = edits + 1
    /\ editing' = [editing EXCEPT ![p] =
          [op |-> "create", key |-> k, copy |-> [f \in Fields |-> edits + 1],
           given |-> Fields, value |-> edits + 1]]
    /\ UNCHANGED <<flags, provided, raced>>

\* The insert; the unique index refuses a key that has been taken meanwhile.
InsertFlag(p) ==
    /\ editing[p].op = "create"
    /\ LET k == editing[p].key IN
          IF Exists(k) THEN UNCHANGED <<flags, provided, raced>>
          ELSE /\ WriteFlag(p, k, editing[p].copy)
               /\ Provide(p, k)
    /\ EndEdit(p)
    /\ UNCHANGED edits

\* Mutated form of Merge: the row is replaced by what was provided.
Merge_OnlyGiven(row, given, value) == [f \in given |-> value]

\* Mutated form of Merge: a field that is not given falls back to its default.
Merge_Resets(row, given, value) == [f \in Fields |-> IF f \in given THEN value ELSE 0]

Merge(row, given, value) == [f \in Fields |-> IF f \in given THEN value ELSE row[f]]

\* update: get_by_key, then the copy with the fields provided.
BeginUpdate(p, k) ==
    /\ editing[p] = NoEdit /\ Exists(k) /\ edits < MaxEdits
    /\ edits' = edits + 1
    /\ \E given \in SUBSET Fields :
          editing' = [editing EXCEPT ![p] =
              [op |-> "update", key |-> k, copy |-> Merge(flags[k], given, edits + 1),
               given |-> given, value |-> edits + 1]]
    /\ UNCHANGED <<flags, provided, raced>>

\* Mutated form of UpdateFlag: the row is saved, so inserted when it is gone.
UpdateFlag_Saves(p) ==
    /\ editing[p].op = "update"
    /\ LET k == editing[p].key IN
          /\ WriteFlag(p, k, editing[p].copy)
          /\ Provide(p, k)
    /\ editing' = [editing EXCEPT ![p].op = "answer"]
    /\ UNCHANGED edits

\* filter(key).update(...) of every column; no row is an error.
UpdateFlag(p) ==
    /\ editing[p].op = "update"
    /\ LET k == editing[p].key IN
          IF Exists(k)
          THEN /\ WriteFlag(p, k, editing[p].copy)
               /\ Provide(p, k)
               /\ editing' = [editing EXCEPT ![p].op = "answer"]
          ELSE UNCHANGED <<flags, provided, raced>> /\ EndEdit(p)
    /\ UNCHANGED edits

\* The row is read again for the answer, or is found to be gone.
AnswerUpdate(p) ==
    /\ editing[p].op = "answer"
    /\ EndEdit(p)
    /\ UNCHANGED <<flags, edits, provided, raced>>

\* delete, after exists_by_key.
BeginDelete(p, k) ==
    /\ editing[p] = NoEdit /\ Exists(k)
    /\ editing' = [editing EXCEPT ![p] = [NoEdit EXCEPT !.op = "delete", !.key = k]]
    /\ UNCHANGED <<flags, edits, provided, raced>>

DeleteFlag(p) ==
    /\ editing[p].op = "delete"
    /\ WriteFlag(p, editing[p].key, NoFlag)
    /\ EndEdit(p)
    /\ UNCHANGED <<edits, provided>>

Edits(p) ==
    \/ \E k \in Keys : BeginCreate(p, k) \/ BeginUpdate(p, k) \/ BeginDelete(p, k)
    \/ InsertFlag(p) \/ UpdateFlag(p) \/ AnswerUpdate(p) \/ DeleteFlag(p)

-----------------------------------------------------------------------------
\* An update brings no deleted flag back, however late it writes: a flag that
\* is gone returns only by being created (feature_flag_repository.py:57).
DeletedStaysDeleted ==
    [][\A p \in Processes, k \in Keys :
          editing[p].op = "update" /\ editing[p].key = k /\ editing'[p] # editing[p]
             /\ ~Exists(k) => flags'[k] = NoFlag]_flagVars

\* A field holds what was provided for it last, unless two requests that wrote
\* the flag overlapped: one after the other they change only the fields they
\* are given (views.py:1714), over deletions and new creations of the key.
LossNeedsOverlap == \A k \in Keys : Exists(k) /\ k \notin raced => flags[k] = provided[k]
=============================================================================
