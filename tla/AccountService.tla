--------------------------- MODULE AccountService ---------------------------
(***************************************************************************)
(* One IAM account and the requests that work on it concurrently.          *)
(*                                                                         *)
(* A worker is a gunicorn process: it serves one request at a time.  A     *)
(* request reads the user row, checks and changes the copy in memory, and  *)
(* then makes a fixed sequence of calls on Redis and on the database.  No  *)
(* transaction spans two of them (ATOMIC_REQUESTS is off and no use case   *)
(* opens one), so the calls of different workers interleave freely, and a  *)
(* worker that dies, or an error of Redis or of the database, leaves the   *)
(* calls already made in place and the others unmade (Interrupt).          *)
(*                                                                         *)
(* The first part of the module is the calls (one action each), the        *)
(* second the handlers: what each reads, which early returns it has, what  *)
(* it changes in its copy and which calls it then makes, in order.         *)
(***************************************************************************)
EXTENDS UserEntity, OtpService, TokenService, PasswordHistory, BackupCodes,
        Sequences, FiniteSets

CONSTANTS
    Workers,            \* gunicorn worker processes
    Ops,                \* the endpoints in use
    WeakPasswords,      \* passwords Django's validators reject
    MaxFailedAttempts,  \* MAX_FAILED_LOGIN_ATTEMPTS
    LockoutTicks,       \* ACCOUNT_LOCKOUT_MINUTES, in ticks of the clock
    MaxTime,            \* bound: how far the clock runs
    MaxGuesses,         \* bound: wrong passwords tried between two logins
    MaxInterrupts       \* bound: how many requests are cut off

ASSUME WorkersAssumption == IsFiniteSet(Workers)

ASSUME AccountAssumption ==
    /\ MaxFailedAttempts \in Nat \ {0} /\ LockoutTicks \in Nat \ {0}
    /\ MaxTime \in Nat /\ MaxGuesses \in Nat /\ MaxInterrupts \in Nat
    /\ WeakPasswords \subseteq Passwords

VARIABLES
    row,        \* the account's row in iam_user
    now,        \* the clock
    req,        \* req[w]: the request worker w is serving
    guesses,    \* history: wrong passwords compared since the last good one
    confirmed,  \* history: TOTP secrets whose codes the user has shown
    interrupted,    \* how many requests have been cut off
    cut         \* history: completing calls that were cut off and that no
                \* request has made since

accountVars == <<row, now, guesses, confirmed>>
faultVars == <<interrupted, cut>>
vars == <<accountVars, req, faultVars, otpVars, tokenVars, historyVars, backupVars>>

-----------------------------------------------------------------------------
(***************************************************************************)
(* Requests.                                                               *)
(***************************************************************************)
OpNames == {"login", "mfa_challenge", "social_auth", "verify_email",
    "resend_verification", "request_reset", "confirm_reset", "change_password",
    "setup_mfa", "enable_mfa", "disable_mfa", "setup_sms_mfa",
    "enable_sms_mfa", "setup_email_mfa", "enable_email_mfa",
    "regenerate_codes", "update_profile", "delete_account", "erase",
    "suspend", "activate", "refresh", "logout", "revoke_session"}

ASSUME OpsAssumption == Ops \subseteq OpNames

Calls == {"update", "otp_get", "otp_delete", "otp_set", "history_check",
    "history_insert", "history_list", "history_prune", "user_active",
    "issue", "session_check", "session_create", "blacklist", "session_off",
    "touch", "tokens_query", "blacklist_each", "sessions_off",
    "codes_delete", "codes_create", "codes_find", "code_save"}

\* The calls that finish a rewrite of several rows; another request that gets
\* so far makes good for one that was cut off.
Completing == {"history_prune", "codes_create"}

NoRow == NewRow(CHOOSE n \in Names : TRUE, Unusable, FALSE)

Request == [ op     : OpNames \cup {"idle", "authenticated"},
             todo   : Seq(Calls),       \* the calls still to be made
             entity : Row,              \* the copy of the row in memory
             old    : Passwords \cup {Unusable},    \* the replaced hash
             new    : Passwords \cup {Unusable},    \* the password asked for
             ns     : Namespaces,       \* the OTP namespace of the view
             code   : 0..MaxCodes,      \* the OTP submitted
             jti    : 0..MaxTokens,     \* the refresh token submitted
             issued : 0..MaxTokens,     \* the refresh token just issued
             seen   : 0..MaxTokens,     \* tokens the blacklist query saw
             toks   : SUBSET (1..MaxTokens),        \* those still to do
             keep   : SUBSET (1..MaxRecords),       \* ids_to_keep
             backup : AllCodes \cup {None} ]        \* the backup code submitted

Idle == [ op |-> "idle", todo |-> <<>>, entity |-> NoRow, old |-> Unusable,
          new |-> Unusable, ns |-> "email_verify", code |-> 0, jti |-> 0,
          issued |-> 0, seen |-> 0, toks |-> {}, keep |-> {}, backup |-> None ]

Begin(op, todo) == [Idle EXCEPT !.op = op, !.todo = todo]
BeginWith(op, todo, entity) == [Begin(op, todo) EXCEPT !.entity = entity]

\* An endpoint with AllowAny, or an admin endpoint (the administrator's own
\* row is not the account modelled): any free worker serves it.
Open(w, op) == op \in Ops /\ req[w].op = "idle"

\* An endpoint with IsAuthenticated: the worker has authenticated the caller.
Authed(w, op) == op \in Ops /\ req[w].op = "authenticated"

Serve(w, request) ==
    /\ req' = [req EXCEPT ![w] = request]
    /\ UNCHANGED faultVars

AtCall(w, call) == req[w].todo # <<>> /\ Head(req[w].todo) = call

\* The request moves on to its next call; after the last one it is answered.
After(r) == IF Tail(r.todo) = <<>> THEN Idle ELSE [r EXCEPT !.todo = Tail(@)]
ProceedWith(w, r) ==
    /\ req' = [req EXCEPT ![w] = After(r)]
    /\ cut' = cut \ {Head(r.todo)}
    /\ UNCHANGED interrupted
Proceed(w) == ProceedWith(w, req[w])

\* An exception is raised: the remaining calls are not made.
Fail(w) == Serve(w, Idle)

\* Requests that have yet to make this call (used by the bounds only).
Waiting(call) ==
    Cardinality({w \in Workers : \E i \in DOMAIN req[w].todo : req[w].todo[i] = call})
MayIssue == outstanding + Waiting("issue") < MaxTokens
MaySend == minted + Waiting("otp_set") < MaxCodes
MayGenerate == sets + Waiting("codes_create") < MaxSets
MayRecord == recorded + Waiting("history_insert") < MaxRecords

\* Mutated forms of Consume (verify is called for verify_and_consume) and of
\* Generate (the new set is inserted before the deletion).
Consume_VerifyOnly == <<"otp_get">>
Generate_DeletesLast == <<"codes_create", "codes_delete">>

\* Call sequences several handlers share.
Consume == <<"otp_get", "otp_delete">>
Issue == <<"issue", "session_check", "session_create">>
Sweep == <<"tokens_query", "blacklist_each", "sessions_off">>
Record == <<"history_insert", "history_list", "history_prune">>
Generate == <<"codes_delete", "codes_create">>

-----------------------------------------------------------------------------
(***************************************************************************)
(* The calls.                                                              *)
(***************************************************************************)
PasswordOps == {"change_password", "confirm_reset"}

\* DjangoUserRepository.update, as any use case calls it.
UpdateUser(w) ==
    /\ AtCall(w, "update")
    /\ row' = RepoUpdate(row, req[w].entity)
    /\ guesses' = IF req[w].op = "login" /\ req[w].entity.failed_login_attempts = 0
                  THEN 0 ELSE guesses
    /\ replaced' = IF req[w].op \in PasswordOps
                   THEN Replaced(row.password_hash) ELSE replaced
    /\ ProceedWith(w, [req[w] EXCEPT !.entity = NoRow])
    /\ UNCHANGED <<now, confirmed, history, recorded, otpVars, tokenVars, backupVars>>

\* verify_and_consume: the read of the key and the comparison.
OtpGet(w) ==
    /\ AtCall(w, "otp_get")
    /\ IF Matches(req[w].ns, req[w].code)
       THEN Accept(req[w].code) /\ Proceed(w)
       ELSE UNCHANGED otpVars /\ Fail(w)
    /\ UNCHANGED <<accountVars, tokenVars, historyVars, backupVars>>

\* verify_and_consume: the deletion of the key.
OtpDelete(w) ==
    /\ AtCall(w, "otp_delete")
    /\ Delete(req[w].ns, req[w].code)
    /\ Proceed(w)
    /\ UNCHANGED <<accountVars, tokenVars, historyVars, backupVars>>

\* generate_and_store.
OtpSet(w) ==
    /\ AtCall(w, "otp_set")
    /\ Setex(req[w].ns)
    /\ Proceed(w)
    /\ UNCHANGED <<accountVars, tokenVars, historyVars, backupVars>>

OtpExpire(ns) ==
    /\ Expire(ns)
    /\ UNCHANGED <<accountVars, req, faultVars, tokenVars, historyVars, backupVars>>

\* validate_password, then PasswordHistoryService.check.
HistoryCheck(w) ==
    /\ AtCall(w, "history_check")
    /\ IF req[w].new \in WeakPasswords \cup RecentHashes THEN Fail(w) ELSE Proceed(w)
    /\ UNCHANGED <<accountVars, otpVars, tokenVars, historyVars, backupVars>>

HistoryInsert(w) ==
    /\ AtCall(w, "history_insert")
    /\ InsertHash(req[w].old)
    /\ Proceed(w)
    /\ UNCHANGED <<accountVars, otpVars, tokenVars, backupVars>>

HistoryList(w) ==
    /\ AtCall(w, "history_list")
    /\ ProceedWith(w, [req[w] EXCEPT !.keep = IdsToKeep])
    /\ UNCHANGED <<accountVars, otpVars, tokenVars, historyVars, backupVars>>

HistoryPrune(w) ==
    /\ AtCall(w, "history_prune")
    /\ PruneExcept(req[w].keep)
    /\ ProceedWith(w, [req[w] EXCEPT !.keep = {}])
    /\ UNCHANGED <<accountVars, otpVars, tokenVars, backupVars>>

\* The refresh serializer's check that the user may still authenticate.
CheckUserActive(w) ==
    /\ AtCall(w, "user_active")
    /\ IF row.is_active THEN Proceed(w) ELSE Fail(w)
    /\ UNCHANGED <<accountVars, otpVars, tokenVars, historyVars, backupVars>>

\* generate_for_user: RefreshToken.for_user records the token as outstanding.
IssueToken(w) ==
    /\ AtCall(w, "issue")
    /\ RecordOutstanding
    /\ ProceedWith(w, [req[w] EXCEPT !.issued = outstanding + 1])
    /\ UNCHANGED <<accountVars, otpVars, historyVars, backupVars>>

\* _create_session: decoding the new token checks the blacklist, and any
\* error is swallowed.
SessionCheck(w) ==
    /\ AtCall(w, "session_check")
    /\ IF req[w].issued \in blacklisted THEN Fail(w) ELSE Proceed(w)
    /\ UNCHANGED <<accountVars, otpVars, tokenVars, historyVars, backupVars>>

SessionCreate(w) ==
    /\ AtCall(w, "session_create")
    /\ CreateSession(req[w].issued)
    /\ Proceed(w)
    /\ UNCHANGED <<accountVars, otpVars, historyVars, backupVars>>

\* token.blacklist() on the token the request names.
BlacklistToken(w) ==
    /\ AtCall(w, "blacklist")
    /\ Blacklist(req[w].jti)
    /\ Proceed(w)
    /\ UNCHANGED <<accountVars, otpVars, historyVars, backupVars>>

SessionOff(w) ==
    /\ AtCall(w, "session_off")
    /\ DeactivateSession(req[w].jti)
    /\ Proceed(w)
    /\ UNCHANGED <<accountVars, otpVars, historyVars, backupVars>>

\* The refresh view decodes the submitted token once more before it touches
\* the session; decoding raises on a blacklisted token, and is swallowed.
Touch(w) ==
    /\ AtCall(w, "touch")
    /\ IF req[w].jti \in blacklisted THEN UNCHANGED tokenVars ELSE TouchSession(req[w].jti)
    /\ Proceed(w)
    /\ UNCHANGED <<accountVars, otpVars, historyVars, backupVars>>

\* Mutated form of TokensQuery: only tokens with an active session are found.
TokensQuery_BySession(w) ==
    /\ AtCall(w, "tokens_query")
    /\ ProceedWith(w, [req[w] EXCEPT !.seen = outstanding, !.toks = sessions])
    /\ UNCHANGED <<accountVars, otpVars, tokenVars, historyVars, backupVars>>

\* blacklist_all_for_user: the query of the user's outstanding tokens,
TokensQuery(w) ==
    /\ AtCall(w, "tokens_query")
    /\ ProceedWith(w, [req[w] EXCEPT !.seen = outstanding, !.toks = Outstanding])
    /\ UNCHANGED <<accountVars, otpVars, tokenVars, historyVars, backupVars>>

\* Mutated form of BlacklistEach: the loop returns after its first token.
BlacklistEach_ReturnsEarly(w) ==
    /\ AtCall(w, "blacklist_each")
    /\ Proceed(w)
    /\ \/ req[w].toks = {} /\ UNCHANGED tokenVars
       \/ \E t \in req[w].toks : Blacklist(t)
    /\ UNCHANGED <<accountVars, otpVars, historyVars, backupVars>>

\* one get_or_create per token the query returned,
BlacklistEach(w) ==
    /\ AtCall(w, "blacklist_each")
    /\ \/ /\ req[w].toks = {}
          /\ Proceed(w)
          /\ UNCHANGED tokenVars
       \/ \E t \in req[w].toks :
             /\ Blacklist(t)
             /\ Serve(w, [req[w] EXCEPT !.toks = @ \ {t}])
    /\ UNCHANGED <<accountVars, otpVars, historyVars, backupVars>>

\* and the update of the session table.
SessionsOff(w) ==
    /\ AtCall(w, "sessions_off")
    /\ DeactivateAllSessions
    /\ Proceed(w)
    /\ UNCHANGED <<accountVars, otpVars, historyVars, backupVars>>

CodesDelete(w) ==
    /\ AtCall(w, "codes_delete")
    /\ DeleteCodes
    /\ Proceed(w)
    /\ UNCHANGED <<accountVars, otpVars, tokenVars, historyVars>>

CodesCreate(w) ==
    /\ AtCall(w, "codes_create")
    /\ CreateCodes
    /\ Proceed(w)
    /\ UNCHANGED <<accountVars, otpVars, tokenVars, historyVars>>

\* BackupCodeService.verify_and_consume: the code is sought among the unused.
CodesFind(w) ==
    /\ AtCall(w, "codes_find")
    /\ IF req[w].backup \in Unused THEN Proceed(w) ELSE Fail(w)
    /\ UNCHANGED <<accountVars, otpVars, tokenVars, historyVars, backupVars>>

\* entry.save(update_fields=["used_at"]) on the row found earlier.
CodeSave(w) ==
    /\ AtCall(w, "code_save")
    /\ IF Saveable(req[w].backup)
       THEN MarkUsed(req[w].backup) /\ Proceed(w)
       ELSE UNCHANGED backupVars /\ Fail(w)
    /\ UNCHANGED <<accountVars, otpVars, tokenVars, historyVars>>

\* The worker dies between two calls (a deployment, gunicorn's timeout), or a
\* call finds Redis or the database unreachable: what was written stays.
Interrupt(w) ==
    /\ req[w].todo # <<>> /\ interrupted < MaxInterrupts
    /\ interrupted' = interrupted + 1
    /\ cut' = cut \cup {c \in Completing : \E i \in DOMAIN req[w].todo : req[w].todo[i] = c}
    /\ req' = [req EXCEPT ![w] = Idle]
    /\ UNCHANGED <<accountVars, otpVars, tokenVars, historyVars, backupVars>>

-----------------------------------------------------------------------------
(***************************************************************************)
(* The handlers.  Each is the read of the row with what follows it in      *)
(* memory; a request whose checks fail changes nothing and is not a step.  *)
(***************************************************************************)
Local == UNCHANGED <<accountVars, otpVars, tokenVars, historyVars, backupVars>>

\* JWTAuthentication: a token has been issued at some time, and the row,
\* read in a query of its own, is active.
Authenticate(w) ==
    /\ req[w].op = "idle"
    /\ Outstanding # {} /\ row.is_active
    /\ Serve(w, Begin("authenticated", <<>>))
    /\ Local

\* A check of the handler fails, or the endpoint only reads.
EndUnchanged(w) ==
    /\ req[w].op = "authenticated"
    /\ Fail(w)
    /\ Local

\* Mutated form of MayLogIn: the lock is not looked at.
MayLogIn_IgnoresLock == row.is_active

MayLogIn == row.is_active /\ ~(row.locked_until > now)

\* Mutated form of LoginWrongPassword: the limit is compared with >.
LoginWrongPassword_OffByOne(w) ==
    /\ Open(w, "login") /\ MayLogIn
    /\ guesses < MaxGuesses
    /\ LET failed == row.failed_login_attempts + 1
           until  == IF failed > MaxFailedAttempts THEN now + LockoutTicks
                     ELSE row.locked_until
       IN  Serve(w, BeginWith("login", <<"update">>,
                              [row EXCEPT !.failed_login_attempts = failed,
                                          !.locked_until = until]))
    /\ guesses' = guesses + 1
    /\ UNCHANGED <<row, now, confirmed, otpVars, tokenVars, historyVars, backupVars>>

LoginWrongPassword(w) ==
    /\ Open(w, "login") /\ MayLogIn
    /\ guesses < MaxGuesses
    /\ LET failed == row.failed_login_attempts + 1
           until  == IF failed >= MaxFailedAttempts THEN now + LockoutTicks
                     ELSE row.locked_until
       IN  Serve(w, BeginWith("login", <<"update">>,
                              [row EXCEPT !.failed_login_attempts = failed,
                                          !.locked_until = until]))
    /\ guesses' = guesses + 1
    /\ UNCHANGED <<row, now, confirmed, otpVars, tokenVars, historyVars, backupVars>>

MfaType(entity) == IF entity.mfa_type = None THEN "totp" ELSE entity.mfa_type

\* What follows the write of a successful login: tokens, or a challenge that
\* sends a code when the second factor is a message.
AfterPassword(entity) ==
    CASE ~entity.mfa_enabled -> Issue
      [] entity.mfa_enabled /\ MfaType(entity) \in {"sms", "email"} -> <<"otp_set">>
      [] entity.mfa_enabled /\ MfaType(entity) = "totp" -> <<>>

LoginRightPassword(w) ==
    /\ Open(w, "login") /\ MayLogIn
    /\ row.password_hash \in Passwords
    /\ row.is_email_verified
    /\ AfterPassword(row) = Issue => MayIssue
    /\ AfterPassword(row) = <<"otp_set">> => MaySend
    /\ Serve(w, [BeginWith("login", <<"update">> \o AfterPassword(row),
                           [row EXCEPT !.failed_login_attempts = 0,
                                       !.locked_until = 0])
                 EXCEPT !.ns = "mfa_login"])
    /\ Local

MfaChallenge(w) ==
    /\ Open(w, "mfa_challenge") /\ row.mfa_enabled /\ MayIssue
    /\ \/ /\ MfaType(row) \in {"sms", "email"}
          /\ \E code \in 1..minted :
                Serve(w, [Begin("mfa_challenge", Consume \o Issue)
                          EXCEPT !.ns = "mfa_login", !.code = code])
       \/ /\ MfaType(row) = "totp" /\ row.mfa_secret # None
          /\ Serve(w, Begin("mfa_challenge", Issue))
       \/ /\ MfaType(row) = "totp" /\ row.mfa_secret # None
          /\ \E c \in (1..sets) \X (1..CodesPerUser) :
                Serve(w, [Begin("mfa_challenge", <<"codes_find", "code_save">> \o Issue)
                          EXCEPT !.backup = c])
    /\ Local

\* Google or GitHub sign-in on an existing account.
SocialAuth(w) ==
    /\ Open(w, "social_auth") /\ row.is_active /\ MayIssue
    /\ Serve(w, Begin("social_auth", Issue))
    /\ Local

VerifyEmail(w) ==
    /\ Open(w, "verify_email") /\ ~row.is_email_verified
    /\ \E code \in 1..minted :
          Serve(w, [BeginWith("verify_email", Consume \o <<"update">>,
                              [row EXCEPT !.is_email_verified = TRUE])
                    EXCEPT !.ns = "email_verify", !.code = code])
    /\ Local

\* Also what a second registration with the same address does.
ResendVerificationOTP(w) ==
    /\ Open(w, "resend_verification") /\ ~row.is_email_verified /\ MaySend
    /\ Serve(w, [Begin("resend_verification", <<"otp_set">>) EXCEPT !.ns = "email_verify"])
    /\ Local

RequestPasswordReset(w) ==
    /\ Open(w, "request_reset") /\ row.is_email_verified /\ MaySend
    /\ Serve(w, [Begin("request_reset", <<"otp_set">>) EXCEPT !.ns = "password_reset"])
    /\ Local

\* Mutated form of SetPassword: the tokens are not swept.
SetPassword_KeepsSessions == <<"history_check", "update">> \o Record

\* Both password use cases end alike once the caller has proved who he is.
SetPassword == <<"history_check", "update">> \o Record \o Sweep

ConfirmPasswordReset(w) ==
    /\ Open(w, "confirm_reset") /\ MayRecord
    /\ \E code \in 1..minted, new \in Passwords :
          Serve(w, [BeginWith("confirm_reset", Consume \o SetPassword,
                              [row EXCEPT !.password_hash = new])
                    EXCEPT !.ns = "password_reset", !.code = code,
                           !.old = row.password_hash, !.new = new])
    /\ Local

ChangePassword(w) ==
    /\ Authed(w, "change_password") /\ MayRecord
    /\ row.password_hash \in Passwords
    /\ \E new \in Passwords :
          Serve(w, [BeginWith("change_password", SetPassword,
                              [row EXCEPT !.password_hash = new])
                    EXCEPT !.old = row.password_hash, !.new = new])
    /\ Local

\* A generated secret is one nobody has seen before.
FreshSecrets == Secrets \ (confirmed \cup {row.mfa_secret}
                                    \cup {req[v].entity.mfa_secret : v \in Workers})

\* Mutated form of SetupMFA: no check that a second factor is on already.
SetupMFA_WhileEnabled(w) ==
    /\ Authed(w, "setup_mfa")
    /\ \E secret \in FreshSecrets :
          Serve(w, BeginWith("setup_mfa", <<"update">>, [row EXCEPT !.mfa_secret = secret]))
    /\ Local

SetupMFA(w) ==
    /\ Authed(w, "setup_mfa") /\ ~row.mfa_enabled
    /\ \E secret \in FreshSecrets :
          Serve(w, BeginWith("setup_mfa", <<"update">>, [row EXCEPT !.mfa_secret = secret]))
    /\ Local

\* Mutated form of Enabled: the type is stored in upper case.
Enabled_WrongType(entity, t) ==
    [entity EXCEPT !.mfa_enabled = TRUE, !.mfa_type = IF t = "totp" THEN "TOTP" ELSE t]

\* The row once a second factor of type t has been proved.
Enabled(entity, t) == [entity EXCEPT !.mfa_enabled = TRUE, !.mfa_type = t]

EnableMFA(w) ==
    /\ Authed(w, "enable_mfa") /\ ~row.mfa_enabled /\ MayGenerate
    /\ row.mfa_secret # None
    /\ Serve(w, BeginWith("enable_mfa", <<"update">> \o Generate, Enabled(row, "totp")))
    /\ confirmed' = confirmed \cup {row.mfa_secret}
    /\ UNCHANGED <<row, now, guesses, otpVars, tokenVars, historyVars, backupVars>>

\* Mutated form of DisableMFA: the secret is kept.
DisableMFA_KeepsSecret(w) ==
    /\ Authed(w, "disable_mfa") /\ row.mfa_enabled
    /\ MfaType(row) \in {"sms", "email"} => row.password_hash \in Passwords
    /\ Serve(w, BeginWith("disable_mfa", <<"update">>,
                          [row EXCEPT !.mfa_enabled = FALSE, !.mfa_type = None]))
    /\ Local

\* A one-time password confirms by message, the password for sms and email,
\* a TOTP code otherwise.
DisableMFA(w) ==
    /\ Authed(w, "disable_mfa") /\ row.mfa_enabled
    /\ MfaType(row) \in {"sms", "email"} => row.password_hash \in Passwords
    /\ Serve(w, BeginWith("disable_mfa", <<"update">>,
                          [row EXCEPT !.mfa_enabled = FALSE, !.mfa_secret = None,
                                      !.mfa_type = None]))
    /\ Local

\* Mutated form of SetupSMSMFA: no phone number is required.
SetupSMSMFA_NoPhone(w) ==
    /\ Authed(w, "setup_sms_mfa") /\ ~row.mfa_enabled /\ MaySend
    /\ Serve(w, [Begin("setup_sms_mfa", <<"otp_set">>) EXCEPT !.ns = "mfa_sms_setup"])
    /\ Local

SetupSMSMFA(w) ==
    /\ Authed(w, "setup_sms_mfa") /\ ~row.mfa_enabled /\ row.contact # None /\ MaySend
    /\ Serve(w, [Begin("setup_sms_mfa", <<"otp_set">>) EXCEPT !.ns = "mfa_sms_setup"])
    /\ Local

SetupEmailMFA(w) ==
    /\ Authed(w, "setup_email_mfa") /\ ~row.mfa_enabled /\ MaySend
    /\ Serve(w, [Begin("setup_email_mfa", <<"otp_set">>) EXCEPT !.ns = "mfa_email_setup"])
    /\ Local

EnableSMSMFA(w) ==
    /\ Authed(w, "enable_sms_mfa") /\ ~row.mfa_enabled /\ MayGenerate
    /\ \E code \in 1..minted :
          Serve(w, [BeginWith("enable_sms_mfa", Consume \o <<"update">> \o Generate,
                              Enabled(row, "sms"))
                    EXCEPT !.ns = "mfa_sms_setup", !.code = code])
    /\ Local

EnableEmailMFA(w) ==
    /\ Authed(w, "enable_email_mfa") /\ ~row.mfa_enabled /\ MayGenerate
    /\ \E code \in 1..minted :
          Serve(w, [BeginWith("enable_email_mfa", Consume \o <<"update">> \o Generate,
                              Enabled(row, "email"))
                    EXCEPT !.ns = "mfa_email_setup", !.code = code])
    /\ Local

RegenerateBackupCodes(w) ==
    /\ Authed(w, "regenerate_codes") /\ row.mfa_enabled /\ row.mfa_secret # None
    /\ MayGenerate
    /\ Serve(w, Begin("regenerate_codes", Generate))
    /\ Local

UpdateProfile(w) ==
    /\ Authed(w, "update_profile")
    /\ \E name \in Names \cup {row.name}, contact \in Contacts \cup {row.contact} :
          Serve(w, BeginWith("update_profile", <<"update">>,
                             [row EXCEPT !.name = name, !.contact = contact]))
    /\ Local

DeleteAccount(w) ==
    /\ Authed(w, "delete_account")
    /\ Serve(w, BeginWith("delete_account", <<"update">> \o Sweep,
                          [row EXCEPT !.is_active = FALSE,
                                      !.scheduled_deletion_at = TRUE]))
    /\ Local

\* The caller confirms with the password, when the account has one.
GDPRErasure(w) ==
    /\ Authed(w, "erase")
    /\ Serve(w, BeginWith("erase", <<"update">> \o Sweep,
                          [row EXCEPT !.email = "redacted", !.name = "Deleted User",
                                      !.mfa_secret = None, !.is_active = FALSE,
                                      !.deleted_at = TRUE]))
    /\ Local

SuspendUser(w) ==
    /\ Open(w, "suspend")
    /\ Serve(w, BeginWith("suspend", <<"update">>, [row EXCEPT !.is_active = FALSE]))
    /\ Local

ActivateUser(w) ==
    /\ Open(w, "activate")
    /\ Serve(w, BeginWith("activate", <<"update">>, [row EXCEPT !.is_active = TRUE]))
    /\ Local

\* POST token/refresh: the serializer verifies the token (blacklist included),
\* checks the user, blacklists the old token, records the rotated one; the
\* view then touches the session of the token submitted.
Refresh(w) ==
    /\ Open(w, "refresh") /\ MayIssue
    /\ \E t \in Live :
          Serve(w, [Begin("refresh", <<"user_active", "blacklist", "issue", "touch">>)
                    EXCEPT !.jti = t])
    /\ Local

Logout(w) ==
    /\ Authed(w, "logout")
    /\ \E t \in Live :
          Serve(w, [Begin("logout", <<"blacklist", "session_off">>) EXCEPT !.jti = t])
    /\ Local

\* The session row is deactivated first; a session that is not active is a 404.
RevokeSession(w) ==
    /\ Authed(w, "revoke_session")
    /\ \E t \in sessions :
          /\ DeactivateSession(t)
          /\ Serve(w, [Begin("revoke_session", <<"blacklist">>) EXCEPT !.jti = t])
    /\ UNCHANGED <<accountVars, otpVars, historyVars, backupVars>>

Tick ==
    /\ now < MaxTime
    /\ now' = now + 1
    /\ UNCHANGED <<row, guesses, confirmed, req, faultVars, otpVars, tokenVars,
                   historyVars, backupVars>>

-----------------------------------------------------------------------------
Handle(w) ==
    \/ Authenticate(w) \/ EndUnchanged(w)
    \/ LoginWrongPassword(w) \/ LoginRightPassword(w)
    \/ MfaChallenge(w) \/ SocialAuth(w)
    \/ VerifyEmail(w) \/ ResendVerificationOTP(w)
    \/ RequestPasswordReset(w) \/ ConfirmPasswordReset(w) \/ ChangePassword(w)
    \/ SetupMFA(w) \/ EnableMFA(w) \/ DisableMFA(w)
    \/ SetupSMSMFA(w) \/ EnableSMSMFA(w) \/ SetupEmailMFA(w) \/ EnableEmailMFA(w)
    \/ RegenerateBackupCodes(w) \/ UpdateProfile(w)
    \/ DeleteAccount(w) \/ GDPRErasure(w) \/ SuspendUser(w) \/ ActivateUser(w)
    \/ Refresh(w) \/ Logout(w) \/ RevokeSession(w)

Call(w) ==
    \/ UpdateUser(w)
    \/ OtpGet(w) \/ OtpDelete(w) \/ OtpSet(w)
    \/ HistoryCheck(w) \/ HistoryInsert(w) \/ HistoryList(w) \/ HistoryPrune(w)
    \/ CheckUserActive(w) \/ IssueToken(w) \/ SessionCheck(w) \/ SessionCreate(w)
    \/ BlacklistToken(w) \/ SessionOff(w) \/ Touch(w)
    \/ TokensQuery(w) \/ BlacklistEach(w) \/ SessionsOff(w)
    \/ CodesDelete(w) \/ CodesCreate(w) \/ CodesFind(w) \/ CodeSave(w)

Init ==
    /\ row \in InitialRows
    /\ now = 0
    /\ guesses = 0
    /\ confirmed = {}
    /\ req = [w \in Workers |-> Idle]
    /\ interrupted = 0 /\ cut = {}
    /\ OtpInit /\ TokenInit /\ HistoryInit /\ BackupInit

Next ==
    \/ \E w \in Workers : Handle(w) \/ Call(w) \/ Interrupt(w)
    \/ \E ns \in Namespaces : OtpExpire(ns)
    \/ Tick

Spec == Init /\ [][Next]_vars
=============================================================================
