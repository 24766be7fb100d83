--------------------------- MODULE AtomicAccount ----------------------------
(***************************************************************************)
(* What the endpoints promise of an account: each request takes effect at  *)
(* once on the user row, the refresh tokens and the backup codes, and      *)
(* changes only what it is about.  No calls or workers here; t is the      *)
(* moment the password was compared, which may lie before the moment the   *)
(* outcome is recorded.                                                    *)
(***************************************************************************)
EXTENDS UserEntity

CONSTANTS MaxFailedAttempts, LockoutTicks, OpenSessions

VARIABLES
    row, now,
    issued,     \* how many refresh tokens have been issued
    live,       \* those of them that are accepted
    codes,      \* the backup codes that are accepted
    faults      \* how many requests have been cut off

credentials == <<issued, live, codes>>
atomicVars == <<row, now, credentials, faults>>

Init ==
    /\ row \in InitialRows /\ now = 0
    /\ issued = OpenSessions /\ live = 1..OpenSessions
    /\ codes = {} /\ faults = 0

-----------------------------------------------------------------------------
\* Steps of the row alone, and of the row with the tokens or the codes.
Changes(r) == row' = r /\ UNCHANGED <<now, faults>>
Becomes(r) == Changes(r) /\ UNCHANGED credentials
EndsSessions(r) == Changes(r) /\ live' = {} /\ UNCHANGED <<issued, codes>>
GivesCodes(r) ==
    /\ Changes(r)
    /\ codes' # {} /\ \A c \in codes', d \in codes \cup codes' : d[1] <= c[1]
    /\ codes \cap codes' = {}
    /\ UNCHANGED <<issued, live>>

AllowedAt(t) == row.is_active /\ row.locked_until <= t

WrongPassword ==
    \E t \in 0..now :
        /\ AllowedAt(t)
        /\ LET failed == row.failed_login_attempts + 1
           IN  Becomes([row EXCEPT !.failed_login_attempts = failed,
                    !.locked_until = IF failed >= MaxFailedAttempts
                                     THEN t + LockoutTicks ELSE @])

RightPassword ==
    /\ \E t \in 0..now : AllowedAt(t)
    /\ row.is_email_verified /\ row.password_hash # Unusable
    /\ Becomes([row EXCEPT !.failed_login_attempts = 0, !.locked_until = 0])

Verify == ~row.is_email_verified /\ Becomes([row EXCEPT !.is_email_verified = TRUE])

SetPassword == \E p \in Passwords : EndsSessions([row EXCEPT !.password_hash = p])

OfferSecret ==
    ~row.mfa_enabled /\ \E s \in Secrets : Becomes([row EXCEPT !.mfa_secret = s])

Enable(type) ==
    /\ ~row.mfa_enabled
    /\ type = "totp" => row.mfa_secret # None
    /\ type = "sms" => row.contact # None
    /\ GivesCodes([row EXCEPT !.mfa_enabled = TRUE, !.mfa_type = type])

Regenerate == row.mfa_enabled /\ row.mfa_secret # None /\ GivesCodes(row)

Disable ==
    /\ row.mfa_enabled
    /\ Becomes([row EXCEPT !.mfa_enabled = FALSE, !.mfa_secret = None, !.mfa_type = None])

EditProfile ==
    \E n \in Names \cup {row.name}, c \in Contacts \cup {row.contact} :
        Becomes([row EXCEPT !.name = n, !.contact = c])

SetActive(active) == Becomes([row EXCEPT !.is_active = active])

DeleteAccount == EndsSessions([row EXCEPT !.is_active = FALSE])

Erase == EndsSessions([row EXCEPT !.name = "Deleted User", !.mfa_secret = None,
                                  !.is_active = FALSE, !.deleted_at = TRUE])

\* A token is issued to an active account, or to one that answers its second
\* factor's challenge.
Issue ==
    /\ row.is_active \/ row.mfa_enabled
    /\ issued' = issued + 1 /\ live' = live \cup {issued + 1}
    /\ UNCHANGED <<row, now, codes, faults>>

\* Logging out, revoking a session, giving a token in exchange for a new one.
Revoke ==
    /\ \E t \in live : live' = live \ {t}
    /\ UNCHANGED <<row, now, issued, codes, faults>>

Redeem ==
    /\ row.mfa_enabled /\ \E c \in codes : codes' = codes \ {c}
    /\ UNCHANGED <<row, now, issued, live, faults>>

\* What a request that was cut off may leave behind: tokens that were to be
\* revoked are accepted still, the codes it was to replace are there or gone.
CutOff ==
    /\ faults' = faults + 1
    /\ live \subseteq live' /\ live' \subseteq 1..issued
    /\ codes' = codes \/ codes \cap codes' = {}
    /\ UNCHANGED <<row, now, issued>>

Tick == now' = now + 1 /\ UNCHANGED <<row, credentials, faults>>

Next ==
    \/ WrongPassword \/ RightPassword \/ Verify \/ SetPassword
    \/ OfferSecret \/ (\E type \in MfaTypes : Enable(type)) \/ Regenerate \/ Disable
    \/ EditProfile \/ (\E active \in BOOLEAN : SetActive(active))
    \/ DeleteAccount \/ Erase
    \/ Issue \/ Revoke \/ Redeem
    \/ CutOff \/ Tick

Spec == Init /\ [][Next]_atomicVars
=============================================================================
