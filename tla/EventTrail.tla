----------------------------- MODULE EventTrail ------------------------------
(***************************************************************************)
(* What requests leave behind for others: rows of the audit log and events *)
(* on the sansaar exchange, and the consumer that turns events into rows.  *)
(*                                                                         *)
(* A view runs its use case, then writes an audit row, then announces the  *)
(* change; codes are announced by the use case itself, once stored.  Each  *)
(* of these is a step of its own: auditing and publishing swallow their    *)
(* errors, an error in the use case skips the rest, and a worker can die   *)
(* anywhere.  Whether a request is granted is AccountService's subject:    *)
(* here it takes any of the ways through its view.                         *)
(***************************************************************************)
EXTENDS OtpService, Sequences, FiniteSets

CONSTANTS
    Workers,        \* gunicorn worker processes
    None,           \* no event_type in a payload
    ForeignTypes,   \* the event_type of events other services publish
    MaxRequests,    \* bound: requests served in a behaviour
    MaxForeign      \* bound: audit.log events other services publish

ASSUME TrailAssumption == MaxRequests \in Nat /\ MaxForeign \in Nat

VARIABLES
    req,        \* req[w]: the request worker w serves, with its steps to come
    served,     \* how many requests have been taken; they are numbered
    auditRows,  \* rows the views have inserted in iam_audit_log, in order
    bound,      \* the queue iam.events has been declared and bound
    queue,      \* the durable queue iam.events: the event_type of each event
    inbox,      \* events delivered to the consumer, acknowledged on delivery
    running,    \* whether the consumer process runs
    eventRows,  \* rows the consumer has inserted in iam_audit_log, in order
    foreign,    \* how many audit.log events other services have published
    done,       \* history: <<request, type>> for work a view is to record
    skipped,    \* history: requests whose record was lost or left out
    enqueued,   \* history: how many events the queue has taken
    dropped,    \* history: how many the consumer has lost
    told,       \* history: told[ns] = the code last announced for ns
    untold,     \* history: codes that were stored and never announced
    crossed     \* history: namespaces in which a code was stored while an
                \* earlier one waited to be announced

reqVars == <<req, served>>
tableVars == <<auditRows, done, skipped>>
brokerVars == <<bound, queue, inbox, running, eventRows, foreign, enqueued, dropped>>
codeVars == <<told, untold, crossed>>
trailVars == <<reqVars, tableVars, brokerVars, codeVars, otpVars>>

-----------------------------------------------------------------------------
(***************************************************************************)
(* The steps of a request, and the ways through each view that leave       *)
(* something behind.  Settle is the point from which the view has to       *)
(* record the request: its first write, or its refusal.  Rest stands for   *)
(* the writes that follow in the use case, Store and Publish for a code    *)
(* and an event, Skip for a view that does not find the user it is to      *)
(* record (it looks the address up as typed, the use case in lower case).  *)
(***************************************************************************)
Settle(type) == <<"settle", type>>
Rest == <<"rest", "">>
Store(ns) == <<"store", ns>>
Publish == <<"publish", "">>
Audit(type) == <<"audit", type>>
Skip == <<"skip", "">>

\* The types of the records about users.
AuditEventType == {
    "user.registered", "user.login_success", "user.login_failed", "user.login_mfa_challenged",
    "user.login_mfa_success", "user.logout", "user.social_auth_google",
    "user.social_auth_github", "user.password_changed", "user.password_reset_requested",
    "user.password_reset_completed", "user.mfa_enabled", "user.mfa_disabled",
    "user.account_locked", "user.email_verified", "user.session_revoked",
    "user.all_sessions_revoked", "user.profile_updated", "user.gdpr_export_requested",
    "user.gdpr_erasure_completed", "user.account_deleted", "user.suspended", "user.activated"}

\* Mutated form of Recorded: the view records the request first.
Recorded_TooEarly(type) == <<Audit(type), Settle(type)>>

Recorded(type) == <<Settle(type), Audit(type)>>

\* Mutated form of RecordedLater: the view returns without recording.
RecordedLater_Forgets(type) == <<Settle(type), Rest>>

RecordedLater(type) == <<Settle(type), Rest, Audit(type)>>

\* Mutated form of Coded: the event is published before the code is stored.
Coded_Swapped(ns) == <<Publish, Store(ns)>>

Coded(ns) == <<Store(ns), Publish>>

\* Also the registration of an address that exists unverified: it sends a
\* code, and is recorded as a registration again.
RegisterView == {<<Settle("user.registered")>> \o Coded("email_verify")
                    \o <<Audit("user.registered")>>}

\* A refusal because of the lock, a wrong password, a challenge (with a code
\* to announce or without), tokens.
LoginView == {Recorded("user.account_locked") \o <<Publish>>,
              Recorded("user.login_failed"),
              <<Settle("user.login_mfa_challenged")>> \o Coded("mfa_login")
                  \o <<Audit("user.login_mfa_challenged")>>,
              Recorded("user.login_mfa_challenged"),
              RecordedLater("user.login_success")}

MFAChallengeView == {RecordedLater("user.login_mfa_success")}

\* Two views that verify the identity once more to find the user they record.
GoogleSocialAuthView == {RecordedLater("user.social_auth_google"),
                         <<Settle("user.social_auth_google"), Rest, Skip>>}
GithubSocialAuthView == {RecordedLater("user.social_auth_github"),
                         <<Settle("user.social_auth_github"), Rest, Skip>>}

LogoutView == {RecordedLater("user.logout")}

\* Three views that look the address up as it was typed.
VerifyEmailView == {Recorded("user.email_verified"), <<Settle("user.email_verified"), Skip>>}
RequestPasswordResetView ==
    {<<Settle("user.password_reset_requested")>> \o Coded("password_reset") \o <<last>> :
         last \in {Audit("user.password_reset_requested"), Skip}}
ConfirmPasswordResetView ==
    {<<Settle("user.password_reset_completed"), Rest, last>> :
         last \in {Audit("user.password_reset_completed"), Skip}}

ResendVerificationOTPView == {Coded("email_verify")}
ChangePasswordView == {RecordedLater("user.password_changed") \o <<Publish>>}

MFAEnableView == {RecordedLater("user.mfa_enabled") \o <<Publish>>}
MFADisableView == {Recorded("user.mfa_disabled") \o <<Publish>>}
MFASMSSetupView == {Coded("mfa_sms_setup")}
MFASMSEnableView == MFAEnableView
MFAEmailSetupView == {Coded("mfa_email_setup")}
MFAEmailEnableView == MFAEnableView

\* New codes are recorded under the type of a second factor switched on.
RegenerateBackupCodesView == {RecordedLater("user.mfa_enabled")}

ProfilePatch == {Recorded("user.profile_updated")}
ProfileDelete == {RecordedLater("user.account_deleted")}
AdminUserSuspendView == {Recorded("user.suspended")}
AdminUserActivateView == {Recorded("user.activated")}

\* The view swallows a failure to blacklist the session's token.
RevokeSessionView == {Recorded("user.session_revoked")}
GDPRExportView == {Recorded("user.gdpr_export_requested")}
GDPRErasureView == {RecordedLater("user.gdpr_erasure_completed")}

Views == UNION {RegisterView, LoginView, MFAChallengeView, GoogleSocialAuthView,
    GithubSocialAuthView, LogoutView, VerifyEmailView, RequestPasswordResetView,
    ConfirmPasswordResetView, ResendVerificationOTPView, ChangePasswordView,
    MFAEnableView, MFADisableView, MFASMSSetupView, MFASMSEnableView,
    MFAEmailSetupView, MFAEmailEnableView, RegenerateBackupCodesView,
    ProfilePatch, ProfileDelete, AdminUserSuspendView, AdminUserActivateView,
    RevokeSessionView, GDPRExportView, GDPRErasureView}

StepKinds == {"settle", "rest", "store", "publish", "audit", "skip"}
Steps == StepKinds \X (AuditEventType \cup Namespaces \cup {""})
Request == [id : 0..MaxRequests, todo : Seq(Steps), ns : Namespaces, code : 0..MaxCodes]
Idle == [id |-> 0, todo |-> <<>>, ns |-> "email_verify", code |-> 0]

AtStep(w, kind) == req[w].todo # <<>> /\ Head(req[w].todo)[1] = kind
Operand(w) == Head(req[w].todo)[2]

\* The request moves on; after its last step it is answered.
Advance(w, r) ==
    req' = [req EXCEPT ![w] = IF Tail(r.todo) = <<>> THEN Idle ELSE [r EXCEPT !.todo = Tail(@)]]

\* Worker w has stored a code of ns and not announced it.
Announcing(w, ns) == req[w].code # 0 /\ req[w].ns = ns

TrailInit ==
    /\ req = [w \in Workers |-> Idle] /\ served = 0
    /\ auditRows = <<>> /\ done = {} /\ skipped = {}
    /\ bound = FALSE /\ running = FALSE
    /\ queue = <<>> /\ inbox = <<>> /\ eventRows = <<>>
    /\ foreign = 0 /\ enqueued = 0 /\ dropped = 0
    /\ told = [ns \in Namespaces |-> 0] /\ untold = {} /\ crossed = {}
    /\ OtpInit

\* A worker takes a request; MaxCodes bounds those that store a code.
Take(w) ==
    /\ req[w] = Idle /\ served < MaxRequests
    /\ \E view \in Views :
          req' = [req EXCEPT ![w] = [Idle EXCEPT !.id = served + 1, !.todo = view]]
    /\ served' = served + 1
    /\ UNCHANGED <<tableVars, brokerVars, codeVars, otpVars>>

SettleRequest(w) ==
    /\ AtStep(w, "settle")
    /\ done' = done \cup {<<req[w].id, Operand(w)>>}
    /\ Advance(w, req[w])
    /\ UNCHANGED <<served, auditRows, skipped, brokerVars, codeVars, otpVars>>

RestOfUseCase(w) ==
    /\ AtStep(w, "rest")
    /\ Advance(w, req[w])
    /\ UNCHANGED <<served, tableVars, brokerVars, codeVars, otpVars>>

\* generate_and_store.
StoreCode(w) ==
    /\ AtStep(w, "store")
    /\ LET ns == Operand(w) IN
          /\ Setex(ns)
          /\ crossed' = IF \E v \in Workers : Announcing(v, ns)
                        THEN crossed \cup {ns} ELSE crossed
          /\ Advance(w, [req[w] EXCEPT !.ns = ns, !.code = minted + 1])
    /\ UNCHANGED <<served, tableVars, brokerVars, told, untold>>

\* The event_type in the payload of an event.
Payloads == ForeignTypes \cup {None}

\* An event with this event_type reaches the exchange: it is kept for the
\* service only once the queue is bound.
ToExchange(type) ==
    /\ queue' = IF bound THEN Append(queue, type) ELSE queue
    /\ enqueued' = IF bound THEN enqueued + 1 ELSE enqueued
    /\ UNCHANGED <<bound, inbox, running, eventRows, dropped>>

\* RabbitMQEventPublisher.publish; none of the payloads has an event_type.
PublishEvent(w) ==
    /\ AtStep(w, "publish")
    /\ ToExchange(None)
    /\ told' = IF req[w].code # 0 THEN [told EXCEPT ![req[w].ns] = req[w].code] ELSE told
    /\ Advance(w, [req[w] EXCEPT !.code = 0])
    /\ UNCHANGED <<served, tableVars, foreign, untold, crossed, otpVars>>

\* A code not announced when the request leaves it behind.
LeaveCode(w) == untold' = untold \cup ({req[w].code} \ {0})

\* The broker cannot be reached: the error is logged and swallowed.
PublishFails(w) ==
    /\ AtStep(w, "publish")
    /\ LeaveCode(w)
    /\ Advance(w, [req[w] EXCEPT !.code = 0])
    /\ UNCHANGED <<served, tableVars, brokerVars, told, crossed, otpVars>>

\* AuditService.log and DjangoAuditLogRepository.create.
WriteAudit(w) ==
    /\ AtStep(w, "audit")
    /\ auditRows' = Append(auditRows, [by |-> req[w].id, type |-> Operand(w)])
    /\ Advance(w, req[w])
    /\ UNCHANGED <<served, done, skipped, brokerVars, codeVars, otpVars>>

\* The insert fails and the error is swallowed, or there is no user to record.
MissAudit(w) ==
    /\ AtStep(w, "audit") \/ AtStep(w, "skip")
    /\ skipped' = skipped \cup {req[w].id}
    /\ Advance(w, req[w])
    /\ UNCHANGED <<served, auditRows, done, brokerVars, codeVars, otpVars>>

\* A database or Redis error in the use case, or the worker dies: what the
\* request had left to do is not done.
Abandon(w) ==
    /\ req[w] # Idle
    /\ skipped' = skipped \cup {req[w].id}
    /\ LeaveCode(w)
    /\ req' = [req EXCEPT ![w] = Idle]
    /\ UNCHANGED <<served, auditRows, done, brokerVars, told, crossed, otpVars>>

\* The key goes after OTP_TTL_SECONDS, or when its code is consumed.
CodeGoes(ns) ==
    /\ Expire(ns)
    /\ UNCHANGED <<reqVars, tableVars, brokerVars, codeVars>>

-----------------------------------------------------------------------------
(***************************************************************************)
(* The consumer.  (What it does with org.member.* is in OrgRoles.)         *)
(***************************************************************************)
workerVars == <<reqVars, tableVars, codeVars, otpVars>>

\* Another service publishes an entry for the audit log, with its type or not.
ForeignAudit ==
    /\ foreign < MaxForeign
    /\ foreign' = foreign + 1
    /\ \E type \in Payloads : ToExchange(type)
    /\ UNCHANGED workerVars

ConsumerStarts ==
    /\ ~running
    /\ running' = TRUE /\ bound' = TRUE
    /\ UNCHANGED <<queue, inbox, eventRows, foreign, enqueued, dropped, workerVars>>

\* Mutated form of Deliver: the event stays in the queue as well.
Deliver_Twice ==
    /\ running /\ queue # <<>>
    /\ inbox' = Append(inbox, Head(queue))
    /\ \/ queue' = Tail(queue)
       \/ queue' = queue
    /\ UNCHANGED <<bound, running, eventRows, foreign, enqueued, dropped, workerVars>>

\* auto_ack: what the broker hands over is gone from the queue.
Deliver ==
    /\ running /\ queue # <<>>
    /\ inbox' = Append(inbox, Head(queue))
    /\ queue' = Tail(queue)
    /\ UNCHANGED <<bound, running, eventRows, foreign, enqueued, dropped, workerVars>>

\* What the consumer finds to insert.
RowTypes == ForeignTypes \cup {"unknown"}

\* Mutated form of EventType: no default for a payload without an event_type.
EventType_NoDefault(type) == type

EventType(type) == IF type = None THEN "unknown" ELSE type

\* _on_message with _handle_iam_event or _handle_audit_event.
HandleEvent ==
    /\ running /\ inbox # <<>>
    /\ eventRows' = Append(eventRows, EventType(Head(inbox)))
    /\ inbox' = Tail(inbox)
    /\ UNCHANGED <<bound, running, queue, foreign, enqueued, dropped, workerVars>>

\* The handler raises, or finds no user in the payload; _on_message goes on.
HandlerFails ==
    /\ running /\ inbox # <<>>
    /\ dropped' = dropped + 1
    /\ inbox' = Tail(inbox)
    /\ UNCHANGED <<bound, running, queue, eventRows, foreign, enqueued, workerVars>>

\* The connection fails or the process is stopped.
ConsumerStops ==
    /\ running
    /\ running' = FALSE
    /\ dropped' = dropped + Len(inbox)
    /\ inbox' = <<>>
    /\ UNCHANGED <<bound, queue, eventRows, foreign, enqueued, workerVars>>

TrailNext ==
    \/ \E w \in Workers :
          \/ Take(w) \/ SettleRequest(w) \/ RestOfUseCase(w) \/ StoreCode(w)
          \/ PublishEvent(w) \/ PublishFails(w) \/ WriteAudit(w) \/ MissAudit(w)
          \/ Abandon(w)
    \/ \E ns \in Namespaces : CodeGoes(ns)
    \/ ForeignAudit \/ ConsumerStarts \/ Deliver \/ HandleEvent
    \/ HandlerFails \/ ConsumerStops

TrailSpec == TrailInit /\ [][TrailNext]_trailVars

-----------------------------------------------------------------------------
\* Whatever is published, the event_type column (NOT NULL) gets a value; rows
\* of the views have a type of the registry (audit.py:35); requests, rows and
\* codes are numbered within their bounds.
TrailTypeOK ==
    /\ req \in [Workers -> Request]
    /\ served \in 0..MaxRequests
    /\ auditRows \in Seq([by : 1..MaxRequests, type : AuditEventType])
    /\ bound \in BOOLEAN /\ running \in BOOLEAN
    /\ queue \in Seq(Payloads) /\ inbox \in Seq(Payloads)
    /\ eventRows \in Seq(RowTypes)
    /\ foreign \in 0..MaxForeign
    /\ told \in [Namespaces -> 0..MaxCodes]
    /\ enqueued \in Nat /\ dropped \in Nat
    /\ OtpTypeOK

\* A row of the audit log tells of something that happened, and of each
\* request at most one row tells, whatever fails or dies (views.py:172).
RecordsAreTrue ==
    /\ \A i \in DOMAIN auditRows : <<auditRows[i].by, auditRows[i].type>> \in done
    /\ \A i, j \in DOMAIN auditRows : auditRows[i].by = auditRows[j].by => i = j

\* What has happened is in the audit log, or about to be written there, or its
\* record was lost to a failure or to an address typed in another case
\* (views.py:535): no way through a view forgets it.
NothingForgotten ==
    \A d \in done :
        \/ \E i \in DOMAIN auditRows : auditRows[i].by = d[1] /\ auditRows[i].type = d[2]
        \/ \E w \in Workers : req[w].id = d[1]
              /\ \E i \in DOMAIN req[w].todo : req[w].todo[i] \in {Audit(d[2]), Skip}
        \/ d[1] \in skipped

\* Every event the queue took is in the queue, with the consumer, in the audit
\* log or lost by the consumer: none becomes two rows (consume_events.py:139).
EventsAccountedFor ==
    enqueued = Len(queue) + Len(inbox) + Len(eventRows) + dropped

\* The code a user was told last is older than the one in Redis only if the
\* newer one was never announced, or two requests crossed: their codes were
\* stored in one order and announced in the other (otp_service.py:34).
LastToldIsCurrent ==
    \A ns \in Namespaces :
        told[ns] < otp[ns] =>
            \/ otp[ns] \in untold \/ ns \in crossed
            \/ \E w \in Workers : Announcing(w, ns)
=============================================================================
