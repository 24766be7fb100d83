----------------------------- MODULE MCAccount ------------------------------
(***************************************************************************)
(* Instances of AccountService for TLC: the sets of endpoints the runs     *)
(* look at together, and the symmetry of the workers.                      *)
(***************************************************************************)
EXTENDS AccountProperties, TLC

WorkerSymmetry == Permutations(Workers)

MfaOps == {"setup_mfa", "enable_mfa", "disable_mfa", "setup_sms_mfa",
    "enable_sms_mfa", "setup_email_mfa", "enable_email_mfa"}

\* Overlapping writes of the columns that have to fit each other, and one
\* endpoint that writes nothing but what it read (update_profile).
RowOps == {"login", "update_profile", "setup_mfa", "enable_mfa", "disable_mfa",
    "suspend", "erase"}

\* What writes the row and no more than a set of backup codes with it, one
\* request at a time; and an erasure.
AccountOps == MfaOps \cup
    {"login", "verify_email", "resend_verification", "update_profile",
     "suspend", "activate", "erase"}

\* What uses up or replaces a credential, one request at a time.
CredentialOps == {"refresh", "logout", "revoke_session", "change_password",
    "delete_account", "request_reset", "confirm_reset", "setup_mfa", "enable_mfa",
    "regenerate_codes", "mfa_challenge"}

\* Overlapping requests on one-time passwords and the password history.
CodeOps == {"verify_email", "resend_verification", "request_reset", "confirm_reset"}

\* Overlapping requests on refresh tokens and backup codes.
SweepOps == {"social_auth", "setup_mfa", "enable_mfa", "regenerate_codes",
    "mfa_challenge", "refresh", "delete_account"}

\* Few endpoints each, where a sentence of the documentation is at stake.
EditRaceOps == {"update_profile", "change_password", "suspend"}
RevokeRaceOps == {"login", "change_password"}
RefreshOnly == {"refresh"}
DeletionOps == {"delete_account", "update_profile"}
=============================================================================
