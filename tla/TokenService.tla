---------------------------- MODULE TokenService ----------------------------
(***************************************************************************)
(* Refresh tokens and sessions of one account: simplejwt's outstanding and *)
(* blacklisted token tables, and the service's own iam_user_session table. *)
(* Every operation below is one SQL statement.  Tokens are numbered in the *)
(* order they are issued; a token's number stands for its jti.             *)
(***************************************************************************)
EXTENDS Naturals

CONSTANTS
    MaxTokens,      \* bound: how many refresh tokens are issued
    OpenSessions    \* how many logins happened before the behaviour starts

ASSUME TokenAssumption == MaxTokens \in Nat /\ OpenSessions \in 0..MaxTokens

VARIABLES
    outstanding,    \* tokens 1..outstanding have been issued
    blacklisted,    \* tokens with a row in the blacklist
    sessions,       \* tokens with a session row whose is_active is true
    touched         \* tokens whose session had last_seen_at moved by a refresh

tokenVars == <<outstanding, blacklisted, sessions, touched>>

TokenTypeOK ==
    /\ outstanding \in 0..MaxTokens
    /\ blacklisted \subseteq 0..MaxTokens
    /\ sessions \subseteq 0..MaxTokens
    /\ touched \subseteq 0..MaxTokens

TokenInit ==
    /\ outstanding = OpenSessions
    /\ blacklisted = {}
    /\ sessions = 1..OpenSessions
    /\ touched = {}

Outstanding == 1..outstanding

\* Tokens a refresh request would still accept.
Live == Outstanding \ blacklisted

\* The write of JWTTokenService.generate_for_user, and of the rotation in a
\* refresh: the new token is recorded as outstanding.
RecordOutstanding ==
    /\ outstanding < MaxTokens
    /\ outstanding' = outstanding + 1
    /\ UNCHANGED <<blacklisted, sessions, touched>>

\* BlacklistedToken.objects.get_or_create.
Blacklist(jti) ==
    /\ blacklisted' = blacklisted \cup {jti}
    /\ UNCHANGED <<outstanding, sessions, touched>>

\* SessionService.create_session.
CreateSession(jti) ==
    /\ sessions' = sessions \cup {jti}
    /\ UNCHANGED <<outstanding, blacklisted, touched>>

\* UserSession ... filter(jti=jti).update(is_active=False).
DeactivateSession(jti) ==
    /\ sessions' = sessions \ {jti}
    /\ UNCHANGED <<outstanding, blacklisted, touched>>

\* UserSession ... filter(user_id=..., is_active=True).update(is_active=False).
DeactivateAllSessions ==
    /\ sessions' = {}
    /\ UNCHANGED <<outstanding, blacklisted, touched>>

\* SessionService.touch_session: only an active session row is updated.
TouchSession(jti) ==
    /\ touched' = touched \cup ({jti} \cap sessions)
    /\ UNCHANGED <<outstanding, blacklisted, sessions>>
=============================================================================
