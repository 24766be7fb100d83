-------------------------- MODULE PasswordHistory ---------------------------
(***************************************************************************)
(* PasswordHistoryService: the rows of iam_password_history of one         *)
(* account.  Every operation below is one SQL statement; record is three   *)
(* of them.  Rows are numbered in the order they are inserted: the number  *)
(* stands for the primary key and for created_at.                          *)
(***************************************************************************)
EXTENDS Naturals, Sequences, FiniteSets

CONSTANTS
    HistoryLimit,   \* PASSWORD_HISTORY_LIMIT
    MaxRecords      \* bound: how many rows are inserted in a behaviour

ASSUME HistoryAssumption == HistoryLimit \in Nat \ {0} /\ MaxRecords \in Nat

VARIABLES
    history,        \* the rows, records [id, hash]
    recorded,       \* how many rows have been inserted
    replaced        \* history variable: the last HistoryLimit hashes that
                    \* were replaced in the user row, oldest first

historyVars == <<history, recorded, replaced>>

HistoryInit == history = {} /\ recorded = 0 /\ replaced = <<>>

\* order_by("-created_at")[:limit] of the rows.
MostRecent(rows, limit) ==
    {r \in rows : Cardinality({s \in rows : s.id > r.id}) < limit}

\* Mutated form of RecentHashes: one entry short.
RecentHashes_OffByOne == {r.hash : r \in MostRecent(history, HistoryLimit - 1)}

\* check: the hashes a new password is compared with.
RecentHashes == {r.hash : r \in MostRecent(history, HistoryLimit)}

\* record, first statement: insert the hash.
InsertHash(hash) ==
    /\ recorded < MaxRecords
    /\ recorded' = recorded + 1
    /\ history' = history \cup {[id |-> recorded + 1, hash |-> hash]}
    /\ UNCHANGED replaced

\* Mutated form of IdsToKeep: one entry too many.
IdsToKeep_OffByOne == {r.id : r \in MostRecent(history, HistoryLimit + 1)}

\* record, second statement: the ids that are to survive.
IdsToKeep == {r.id : r \in MostRecent(history, HistoryLimit)}

\* record, third statement: delete every row that is not in the list.
PruneExcept(keep) ==
    /\ history' = {r \in history : r.id \in keep}
    /\ UNCHANGED <<recorded, replaced>>

\* The user row got another password (bookkeeping only).
Replaced(hash) ==
    LET all == Append(replaced, hash)
    IN  IF Len(all) <= HistoryLimit THEN all ELSE Tail(all)
=============================================================================
