--------------------------- MODULE AccountCreation ---------------------------
(***************************************************************************)
(* How rows of iam_user come into being: registration, the first sign-in   *)
(* through Google or GitHub, and the superadmin a container seeds.  Each   *)
(* asks whether the address is taken and inserts in a later statement, so  *)
(* that two of them race on the unique index of the email column; the      *)
(* loser's IntegrityError is nobody's to handle.                           *)
(***************************************************************************)
EXTENDS Naturals, Containers

CONSTANTS
    Emails,         \* addresses, in lower case
    SeedEmail,      \* DEFAULT_EMAIL of the superadmin
    NoUser          \* no row with this address

VARIABLES
    users,          \* users[e]: the row with address e
    creating,       \* creating[p]: the request of p that may create a row
    created         \* history: created[e] = how often a row was created for e

creationVars == <<users, creating, created>>

UserRow == [origin : {"register", "social", "seed"}, is_email_verified : BOOLEAN,
            is_superuser : BOOLEAN]

ASSUME CreationAssumption == SeedEmail \in Emails /\ NoUser \notin UserRow

Creation == [op : {"none", "register", "social"}, email : Emails,
             phase : {"idle", "get", "insert", "finish"}]
NoCreation == [op |-> "none", email |-> SeedEmail, phase |-> "idle"]

CreationTypeOK ==
    /\ users \in [Emails -> UserRow \cup {NoUser}]
    /\ creating \in [Processes -> Creation]
    /\ created \in [Emails -> Nat]

CreationInit ==
    /\ users = [e \in Emails |-> NoUser]
    /\ creating = [p \in Processes |-> NoCreation]
    /\ created = [e \in Emails |-> 0]

Taken(e) == users[e] # NoUser
SuperuserExists == \E e \in Emails : Taken(e) /\ users[e].is_superuser

\* The rows the three inserts make.
Registered == [origin |-> "register", is_email_verified |-> FALSE, is_superuser |-> FALSE]
SignedUp == [origin |-> "social", is_email_verified |-> TRUE, is_superuser |-> FALSE]
Superadmin == [origin |-> "seed", is_email_verified |-> TRUE, is_superuser |-> TRUE]

\* Mutated form of CreateUser: an existing row is overwritten (an upsert).
CreateUser_Upsert(e, user) ==
    /\ users' = [users EXCEPT ![e] = user]
    /\ created' = [created EXCEPT ![e] = @ + 1]

\* The insert, past the unique index of the email column.
CreateUser(e, user) ==
    /\ ~Taken(e)
    /\ users' = [users EXCEPT ![e] = user]
    /\ created' = [created EXCEPT ![e] = @ + 1]

Move(p, phase) == creating' = [creating EXCEPT ![p].phase = phase]
End(p) == creating' = [creating EXCEPT ![p] = NoCreation]

\* exists_by_email.
BeginCreation(p, op, e) ==
    /\ creating[p] = NoCreation
    /\ creating' = [creating EXCEPT ![p] =
          [op |-> op, email |-> e, phase |-> IF Taken(e) THEN "get" ELSE "insert"]]
    /\ UNCHANGED <<users, created>>

\* get_by_email: registering an unverified address sends its code again, one
\* that is verified is refused; a sign-in gets tokens (or, for an account that
\* has been deactivated, is refused).
GetExisting(p) ==
    /\ creating[p].phase = "get"
    /\ \/ /\ creating[p].op = "register" => ~users[creating[p].email].is_email_verified
          /\ Move(p, "finish")
       \/ /\ creating[p].op = "register" => users[creating[p].email].is_email_verified
          /\ End(p)
    /\ UNCHANGED <<users, created>>

InsertUser(p) ==
    /\ creating[p].phase = "insert"
    /\ CreateUser(creating[p].email,
                  IF creating[p].op = "register" THEN Registered ELSE SignedUp)
    /\ Move(p, "finish")

\* The password is refused before the insert, or the index refuses the row.
InsertRefused(p) ==
    /\ creating[p].phase = "insert"
    /\ creating[p].op = "register" \/ Taken(creating[p].email)
    /\ End(p)
    /\ UNCHANGED <<users, created>>

\* The code is stored and announced, or the tokens are issued.
FinishCreation(p) ==
    /\ creating[p].phase = "finish"
    /\ End(p)
    /\ UNCHANGED <<users, created>>

\* VerifyEmail, on the row of an account that is not verified yet.
VerifyUser(e) ==
    /\ Taken(e) /\ ~users[e].is_email_verified
    /\ users' = [users EXCEPT ![e].is_email_verified = TRUE]
    /\ UNCHANGED <<creating, created>>

-----------------------------------------------------------------------------
\* One row per address, made once: registrations and first sign-ins that race
\* for an address do not replace each other's row (register.py:84).
CreatedOnce == \A e \in Emails : created[e] = IF Taken(e) THEN 1 ELSE 0
=============================================================================
