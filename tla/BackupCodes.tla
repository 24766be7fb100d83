---------------------------- MODULE BackupCodes -----------------------------
(***************************************************************************)
(* BackupCodeService: the MFA backup codes of one account.  Every          *)
(* operation below is one SQL statement.  A code is named <<g, i>>, the    *)
(* i-th code of the g-th set generated.                                    *)
(***************************************************************************)
EXTENDS Naturals

CONSTANTS
    CodesPerUser,   \* _CODES_PER_USER
    MaxSets         \* bound: how many sets of codes are generated

ASSUME BackupAssumption == CodesPerUser \in Nat \ {0} /\ MaxSets \in Nat

VARIABLES
    code_rows,      \* the codes with a row in iam_mfa_backup_code
    used,           \* those among them whose used_at is set
    sets,           \* how many sets have been generated
    redeemed        \* history: redeemed[c] = requests code c signed in

backupVars == <<code_rows, used, sets, redeemed>>

AllCodes == (1..MaxSets) \X (1..CodesPerUser)

BackupTypeOK ==
    /\ code_rows \subseteq AllCodes
    /\ used \subseteq code_rows
    /\ sets \in 0..MaxSets
    /\ redeemed \in [AllCodes -> Nat]

BackupInit ==
    /\ code_rows = {}
    /\ used = {}
    /\ sets = 0
    /\ redeemed = [c \in AllCodes |-> 0]

\* Mutated form of DeleteCodes: only the used codes are deleted.
DeleteCodes_UsedOnly ==
    /\ code_rows' = code_rows \ used
    /\ used' = {}
    /\ UNCHANGED <<sets, redeemed>>

\* generate, first statement: delete every existing code.
DeleteCodes ==
    /\ code_rows' = {}
    /\ used' = {}
    /\ UNCHANGED <<sets, redeemed>>

\* generate, second statement: insert a fresh set.
CreateCodes ==
    /\ sets < MaxSets
    /\ sets' = sets + 1
    /\ code_rows' = code_rows \cup ({sets + 1} \X (1..CodesPerUser))
    /\ UNCHANGED <<used, redeemed>>

\* verify_and_consume, the reads: the codes that match the unused rows.
Unused == code_rows \ used

\* Mutated form of Saveable: a full save() inserts the row when it is gone.
Saveable_Upsert(c) == c \in AllCodes

\* verify_and_consume, the write: save(update_fields=["used_at"]) is an
\* UPDATE of the row; it raises when the row is gone, and does not look at
\* whether the code has been used in the meantime.
Saveable(c) == c \in code_rows

\* Mutated form of MarkUsed: the code is accepted and not marked.
MarkUsed_Forgets(c) ==
    /\ redeemed' = [redeemed EXCEPT ![c] = @ + 1]
    /\ UNCHANGED <<code_rows, used, sets>>

\* verify_and_consume: the code is marked, and the request goes on.
MarkUsed(c) ==
    /\ used' = used \cup {c}
    /\ redeemed' = [redeemed EXCEPT ![c] = @ + 1]
    /\ UNCHANGED <<code_rows, sets>>
=============================================================================
