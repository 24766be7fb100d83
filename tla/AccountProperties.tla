------------------------- MODULE AccountProperties --------------------------
(***************************************************************************)
(* What the account service keeps true.  The first group holds however     *)
(* many workers there are; the second is what a client is told to expect,  *)
(* and holds while requests on one account do not overlap.  A request that *)
(* is cut off is an excuse only where a property says so, and then either  *)
(* until another request makes the missing call (cut), or once for each    *)
(* request cut off (interrupted).                                          *)
(***************************************************************************)
EXTENDS AccountService

\* The rows of the password history, and the hashes replaced.
HistoryTypeOK ==
    /\ history \subseteq [id : 1..MaxRecords, hash : Passwords \cup {Unusable}]
    /\ recorded \in 0..MaxRecords
    /\ replaced \in Seq(Passwords \cup {Unusable})

\* The bookkeeping of requests that were cut off.
FaultTypeOK == interrupted \in Nat /\ cut \subseteq Completing

\* The columns hold values of their types, and every request names calls,
\* tokens, codes and rows that can exist: no stale copy writes a column with
\* a value of another (models.py:40, entities.py:10).
TypeOK ==
    /\ row \in Row
    /\ now \in Nat /\ guesses \in Nat
    /\ confirmed \subseteq Secrets
    /\ req \in [Workers -> Request]
    /\ FaultTypeOK /\ OtpTypeOK /\ TokenTypeOK /\ BackupTypeOK /\ HistoryTypeOK

\* The step is worker w making its next call; one that writes the row for op.
Calling(w) == req'[w] # req[w] /\ UNCHANGED interrupted
Writes(w, op) == AtCall(w, "update") /\ req[w].op = op /\ Calling(w)

\* No request is between two calls.
Quiet == \A w \in Workers : req[w].todo = <<>>

-----------------------------------------------------------------------------
(***************************************************************************)
(* Any number of workers.                                                  *)
(***************************************************************************)

\* A second factor is switched on exactly when its type is recorded.
TypeRecorded(r) == r.mfa_enabled <=> r.mfa_type # None

\* An account that signs in with TOTP has a secret to check codes against,
\* unless it has been erased: no order of setup, enable, disable and stale
\* writes locks its owner out.
TotpHasSecret(r) ==
    r.mfa_enabled /\ r.mfa_type = "totp" => r.mfa_secret # None \/ r.deleted_at

\* A failure count at the limit never stands without a lock date: the writes
\* of concurrent logins do not separate the two columns.
LimitHasLock(r) == r.failed_login_attempts >= MaxFailedAttempts => r.locked_until # 0

\* The columns of the row fit each other, whatever requests overlap: each
\* write replaces the row by one a single request made from a consistent read.
RowConsistent(r) == TypeRecorded(r) /\ TotpHasSecret(r) /\ LimitHasLock(r)
RowInv == RowConsistent(row)

\* TOTP is never on with a secret whose codes its owner has not shown, also
\* when a second setup overlaps the enabling of the first (enable_mfa.py:47).
Shown(r) ==
    r.mfa_enabled /\ r.mfa_type = "totp" /\ ~r.deleted_at => r.mfa_secret \in confirmed
SecretConfirmed == Shown(row)

\* Once a request has finished consuming a one-time password, no request that
\* looks the code up later is let through by it.
SpentCodeStaysSpent == [][\A c \in deleted : accepted'[c] = accepted[c]]_otpVars

\* The get and the delete of verify_and_consume are two commands, so requests
\* that overlap can share a code, and a request cut off between the two leaves
\* it usable: never more than one request per worker and per cut-off request.
\* With one worker that fails nowhere, a code satisfies one request.
CodeReuseBounded ==
    \A c \in 1..MaxCodes : accepted[c] <= Cardinality(Workers) + interrupted

\* Every token that was outstanding when blacklist_all_for_user made its query
\* is blacklisted by the time it turns to the sessions, whatever is issued,
\* rotated or revoked meanwhile.
SweepComplete ==
    \A w \in Workers :
        /\ AtCall(w, "blacklist_each") => 1..req[w].seen \subseteq blacklisted \cup req[w].toks
        /\ AtCall(w, "sessions_off") => 1..req[w].seen \subseteq blacklisted

\* The history table exceeds its limit by no more than the requests that are
\* recording a password, however their inserts and prunes interleave; a
\* recording that was cut off leaves its row only until another is completed.
Recording == {w \in Workers : AtCall(w, "history_list") \/ AtCall(w, "history_prune")}
HistoryPruned ==
    "history_prune" \notin cut
        => Cardinality(history) <= HistoryLimit + Cardinality(Recording)

\* An account with a second factor, or one that was ever given backup codes,
\* has rows of them: overlapping regenerations never delete the last set, and
\* one that was cut off is made good by the next.
CodesRemain ==
    Quiet /\ (row.mfa_enabled \/ sets > 0) => code_rows # {} \/ "codes_create" \in cut

\* A backup code whose row was deleted by a regeneration signs nobody in, not
\* even a request that had found it before the deletion.
ReplacedCodeIsDead ==
    [][\A c \in AllCodes \ code_rows : redeemed'[c] = redeemed[c]]_backupVars

\* verify_and_consume finds a backup code and marks it in two statements, so
\* requests that overlap can share one: never more of them than there are
\* workers, and a request cut off between the two has not been let through.
BackupReuseBounded == \A c \in AllCodes : redeemed[c] <= Cardinality(Workers)

\* A regeneration deletes and inserts in two statements, so regenerations that
\* overlap can leave more than one set of codes: never more than a set for
\* each worker, and those that come after clear what earlier ones have left.
SetsBounded == Cardinality({c[1] : c \in code_rows}) <= Cardinality(Workers)

-----------------------------------------------------------------------------
(***************************************************************************)
(* What clients are told; true of requests that do not overlap.            *)
(***************************************************************************)
\* A request whose row is written goes on to revoke the tokens, or to replace
\* the backup codes; seen from outside it has done so with the write.
Committed(call) ==
    \E w \in Workers : LET calls == {req[w].todo[i] : i \in DOMAIN req[w].todo}
                       IN  call \in calls /\ "update" \notin calls

Atomic == INSTANCE AtomicAccount WITH
    issued <- outstanding,
    live   <- IF Committed("blacklist_each") THEN {} ELSE Live,
    codes  <- IF Committed("codes_create") THEN {sets + 1} \X (1..CodesPerUser)
              ELSE Unused,
    faults <- interrupted

\* Each request acts on the row, the refresh tokens and the backup codes as if
\* it ran alone and at once, and changes only what the endpoint is about; one
\* that is cut off leaves tokens it meant to revoke, or takes the codes away.
AccountIsAtomic == Atomic!Spec

\* A profile update changes the profile and nothing else (views.py:958).
ProfileEditKeepsRest ==
    [][\A w \in Workers : Writes(w, "update_profile")
          => row' = [row EXCEPT !.name = row'.name, !.contact = row'.contact]]_vars

\* A lock is neither lifted nor replaced before it expires.
LockHeld == [][row.locked_until > now => row'.locked_until = row.locked_until]_row

\* After MaxFailedAttempts wrong passwords the account has been locked; a
\* request cut off before it counts its attempt gives one more.
LockoutAfterMax ==
    Quiet /\ guesses >= MaxFailedAttempts + interrupted => row.locked_until # 0

\* A backup code signs in once.
BackupSingleUse == \A c \in AllCodes : redeemed[c] <= 1

\* When a request that invalidates all sessions is done, no refresh token
\* issued by then is accepted and no session is listed.
AllRevokedWhenDone ==
    [][\A w \in Workers : AtCall(w, "sessions_off") /\ Calling(w) => Live' = {} /\ sessions' = {}]_vars

\* SMS as the second factor has a phone number to send to.
SmsHasContact == row.mfa_enabled /\ row.mfa_type = "sms" => row.contact # None

\* A password that replaced another is none of the last ones replaced, but for
\* one whose recording was cut off.
NoReplacedReuse ==
    [][row'.password_hash # row.password_hash
          => Cardinality({i \in DOMAIN replaced : replaced[i] = row'.password_hash})
                <= interrupted]_<<row, replaced>>

\* After regenerations the codes that work are those of one set.
OneSetOfCodes == Quiet => \A c, d \in Unused : c[1] = d[1]

-----------------------------------------------------------------------------
(***************************************************************************)
(* Sentences of the code's own documentation, each refuted by a run.       *)
(***************************************************************************)

\* "Persist a new session record when a refresh token is issued"
\* (session_service.py:41): every token still accepted has a session row.
IssuedTokenHasSession == Quiet => Live \subseteq sessions

\* "Sets is_active=False and scheduled_deletion_at=now+30d"
\* (delete_account.py:29).
DeletionIsScheduled ==
    [][\A w \in Workers : Writes(w, "delete_account") => row'.scheduled_deletion_at]_vars
=============================================================================
