----------------------------- MODULE UserEntity -----------------------------
(***************************************************************************)
(* The iam_user row and the in-memory entity the use cases work on.        *)
(*                                                                         *)
(* The model follows one account.  A row is a record with one field per    *)
(* column the use cases read or write.  Timestamps that only matter as     *)
(* "set or not" (deleted_at, scheduled_deletion_at) are Booleans;          *)
(* locked_until is a clock value, 0 standing for NULL.  `name' stands for  *)
(* first_name, last_name and avatar_url, which are always written          *)
(* together, `contact' for phone and bio.  A password hash is identified   *)
(* with the password it was made from; Unusable is make_password(None),    *)
(* the hash of an account created by social sign-in.                       *)
(***************************************************************************)
EXTENDS Naturals

CONSTANTS
    Passwords,      \* the passwords users choose
    Unusable,       \* the hash no password matches
    Secrets,        \* TOTP secrets
    Names,          \* names and avatars a user may give the profile
    Contacts,       \* phone numbers (with the bio next to them)
    None            \* NULL

ASSUME UserEntityAssumption ==
    /\ Unusable \notin Passwords
    /\ None \notin Secrets /\ None \notin Contacts
    /\ None \notin {"totp", "sms", "email"}
    /\ Names # {} /\ "Deleted User" \notin Names

MfaTypes == {"totp", "sms", "email"}

\* The columns of iam_user that the use cases read or write.
Row == [ email                 : {"own", "redacted"},
         name                  : Names \cup {"Deleted User"},
         contact               : Contacts \cup {None},
         password_hash         : Passwords \cup {Unusable},
         is_email_verified     : BOOLEAN,
         is_active             : BOOLEAN,
         mfa_enabled           : BOOLEAN,
         mfa_secret            : Secrets \cup {None},
         mfa_type              : MfaTypes \cup {None},
         failed_login_attempts : Nat,
         locked_until          : Nat,
         deleted_at            : BOOLEAN,
         scheduled_deletion_at : BOOLEAN ]

\* A row as the account's creation leaves it: a registration (unverified), a
\* superuser command (verified), or a first social sign-in (no password).
NewRow(name, hash, verified) ==
    [ email |-> "own", name |-> name, contact |-> None,
      password_hash |-> hash, is_email_verified |-> verified,
      is_active |-> TRUE, mfa_enabled |-> FALSE, mfa_secret |-> None,
      mfa_type |-> None, failed_login_attempts |-> 0, locked_until |-> 0,
      deleted_at |-> FALSE, scheduled_deletion_at |-> FALSE ]

NewRows == {NewRow(n, h, v) : n \in Names, h \in Passwords \cup {Unusable}, v \in BOOLEAN}
InitialRows == {r \in NewRows : r.password_hash = Unusable => r.is_email_verified}

\* Mutated form of RepoUpdate: locked_until is not among the columns written.
RepoUpdate_DropsLock(row, entity) ==
    [entity EXCEPT !.email = row.email,
                   !.scheduled_deletion_at = row.scheduled_deletion_at,
                   !.locked_until = row.locked_until]

\* DjangoUserRepository.update: every mutable column is written from the
\* entity, whatever the use case changed; the e-mail address and the
\* scheduled deletion date are not among the columns written.
RepoUpdate(row, entity) ==
    [entity EXCEPT !.email = row.email,
                   !.scheduled_deletion_at = row.scheduled_deletion_at]
=============================================================================
