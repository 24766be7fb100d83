-------------------------- MODULE AccountStoreProofs --------------------------
(***************************************************************************)
(* Proofs about the stores an account's requests share, for every number   *)
(* of workers, every set of endpoints and every limit: what overlapping    *)
(* and cut-off requests may do to one-time passwords, the sweep of refresh *)
(* tokens, the password history and the backup codes.                      *)
(*                                                                         *)
(* Each argument starts from the calls a request has yet to make: a        *)
(* request that is about to delete a code has just compared it, one that   *)
(* prunes has just listed, and so on (Linked).                             *)
(***************************************************************************)
EXTENDS AccountProofs, FiniteSetTheorems

-----------------------------------------------------------------------------
(***************************************************************************)
(* The sequences of calls.                                                 *)
(***************************************************************************)

\* The call a comes right before the call b, and only there.
Pair(a, b, t) ==
    \A i \in DOMAIN t :
        /\ t[i] = a => i + 1 \in DOMAIN t /\ t[i + 1] = b
        /\ t[i] = b /\ i # 1 => t[i - 1] = a

Linked(t) ==
    /\ Pair("otp_get", "otp_delete", t)
    /\ Pair("tokens_query", "blacklist_each", t)
    /\ Pair("blacklist_each", "sessions_off", t)
    /\ Pair("history_insert", "history_list", t)
    /\ Pair("history_list", "history_prune", t)
    /\ Pair("codes_delete", "codes_create", t)
    /\ Pair("codes_find", "code_save", t)

Seconds == {"otp_delete", "blacklist_each", "sessions_off", "history_list", "history_prune",
            "codes_create", "code_save"}

\* The calls at which a request may find that it has to end.
Checks == {"otp_get", "history_check", "user_active", "session_check", "codes_find", "code_save"}

\* The call is still to be made.
Ahead(call, t) == \E i \in DOMAIN t : t[i] = call

Whole(t) == Linked(t) /\ (t # <<>> => t[1] \notin Seconds)

\* A request that is to insert codes passes its checks before it writes the
\* row or deletes the codes.
CodesSafe(t) ==
    Ahead("codes_create", t) =>
        \A i, k \in DOMAIN t : t[i] \in Checks /\ t[k] \in {"update", "codes_delete"} => i < k

Ordered(t) == Linked(t) /\ CodesSafe(t)

\* What the handlers prescribe.
Plans == { <<>>, <<"update">>, <<"otp_set">>, <<"blacklist">>, <<"blacklist", "session_off">>,
    <<"update">> \o <<>>, <<"update">> \o <<"otp_set">>,
    <<"user_active", "blacklist", "issue", "touch">>,
    Issue, <<"update">> \o Issue, Consume \o Issue, <<"codes_find", "code_save">> \o Issue,
    Consume \o <<"update">>, SetPassword, Consume \o SetPassword, <<"update">> \o Sweep,
    Generate, <<"update">> \o Generate, Consume \o <<"update">> \o Generate }

\* Joining two sequences keeps pairs together.
LEMMA JoinedPair ==
    ASSUME NEW a, NEW b, NEW s \in Seq(Calls), NEW t \in Seq(Calls), Pair(a, b, s), Pair(a, b, t),
           t # <<>> => t[1] # b
    PROVE  Pair(a, b, s \o t)
<1> DEFINE u == s \o t
<1>1. u \in Seq(Calls) /\ Len(u) = Len(s) + Len(t) /\ DOMAIN u = 1..(Len(s) + Len(t))
  OBVIOUS
<1>2. \A i \in DOMAIN s : u[i] = s[i]
  OBVIOUS
<1>3. \A i \in DOMAIN t : u[i + Len(s)] = t[i]
  OBVIOUS
<1>4. DOMAIN s = 1..Len(s) /\ DOMAIN t = 1..Len(t) /\ Len(s) \in Nat /\ Len(t) \in Nat
  OBVIOUS
<1>5. \A i \in DOMAIN u : i \in DOMAIN s \/ \E j \in DOMAIN t : i = j + Len(s)
  <2> SUFFICES ASSUME NEW i \in DOMAIN u, ~(i <= Len(s)) PROVE \E j \in DOMAIN t : i = j + Len(s)
    BY <1>1, <1>4
  <2>1. i - Len(s) \in DOMAIN t
    BY <1>1, <1>4
  <2> QED BY <1>1, <1>4, <2>1
<1> HIDE DEF u
<1>6. ASSUME NEW i \in DOMAIN u, u[i] = a PROVE i + 1 \in DOMAIN u /\ u[i + 1] = b
  <2>1. CASE i \in DOMAIN s
    BY <1>1, <1>2, <1>4, <1>6, <2>1 DEF Pair
  <2>2. ASSUME NEW j \in DOMAIN t, i = j + Len(s) PROVE i + 1 \in DOMAIN u /\ u[i + 1] = b
    <3>1. t[j] = a
      BY <1>3, <1>6, <2>2
    <3>2. j + 1 \in DOMAIN t /\ t[j + 1] = b
      BY <3>1 DEF Pair
    <3>3. u[(j + 1) + Len(s)] = b /\ (j + 1) + Len(s) = i + 1
      BY <1>3, <1>4, <2>2, <3>2
    <3> QED BY <1>1, <1>4, <3>2, <3>3
  <2> QED BY <1>5, <2>1, <2>2
<1>7. ASSUME NEW i \in DOMAIN u, u[i] = b, i # 1 PROVE u[i - 1] = a
  <2>1. CASE i \in DOMAIN s
    <3>1. i - 1 \in DOMAIN s /\ s[i - 1] = a
      BY <1>2, <1>4, <1>7, <2>1 DEF Pair
    <3> QED BY <1>2, <3>1
  <2>2. ASSUME NEW j \in DOMAIN t, i = j + Len(s) PROVE u[i - 1] = a
    <3>1. t[j] = b
      BY <1>3, <1>7, <2>2
    <3>2. t # <<>> /\ j # 1
      BY <1>4, <3>1
    <3>3. j - 1 \in DOMAIN t /\ t[j - 1] = a
      BY <1>4, <3>1, <3>2 DEF Pair
    <3>4. u[(j - 1) + Len(s)] = a /\ (j - 1) + Len(s) = i - 1
      BY <1>3, <1>4, <2>2, <3>3
    <3> QED BY <3>4
  <2> QED BY <1>5, <2>1, <2>2
<1> QED BY <1>6, <1>7 DEF Pair, u

\* Joining two sequences that begin with no second call of a pair.
LEMMA JoinedWhole ==
    ASSUME NEW s \in Seq(Calls), NEW t \in Seq(Calls), Whole(s), Whole(t)
    PROVE  Whole(s \o t) /\ s \o t \in Seq(Calls)
<1>1. Linked(s \o t)
  BY JoinedPair DEF Whole, Linked, Seconds
<1>2. s \o t # <<>> => (s \o t)[1] \notin Seconds
  <2>1. CASE s = <<>>
    <3>1. s \o t = t
      BY <2>1
    <3> QED BY <3>1 DEF Whole
  <2>2. CASE s # <<>>
    <3>1. (s \o t)[1] = s[1]
      BY <2>2
    <3> QED BY <2>2, <3>1 DEF Whole
  <2> QED BY <2>1, <2>2
<1> QED BY <1>1, <1>2 DEF Whole

\* Joining two sequences without an insertion of codes.
LEMMA JoinedNoCodes ==
    ASSUME NEW s \in Seq(Calls), NEW t \in Seq(Calls),
           ~Ahead("codes_create", s), ~Ahead("codes_create", t)
    PROVE  ~Ahead("codes_create", s \o t)
<1> SUFFICES ASSUME NEW i \in DOMAIN (s \o t), (s \o t)[i] = "codes_create" PROVE FALSE
  BY DEF Ahead
<1>1. CASE i <= Len(s)
  <2>1. i \in DOMAIN s /\ s[i] = (s \o t)[i]
    BY <1>1
  <2> QED BY <2>1 DEF Ahead
<1>2. CASE ~(i <= Len(s))
  <2>1. i - Len(s) \in DOMAIN t /\ t[i - Len(s)] = (s \o t)[i]
    BY <1>2
  <2> QED BY <2>1 DEF Ahead
<1> QED BY <1>1, <1>2

\* A sequence of calls that inserts no codes and splits no pair.
Plain(t) == t \in Seq(Calls) /\ Whole(t) /\ ~Ahead("codes_create", t)

\* The parts the plans are made of.
LEMMA PlanParts ==
    /\ Plain(<<>>) /\ Plain(<<"update">>) /\ Plain(<<"otp_set">>) /\ Plain(<<"blacklist">>)
    /\ Plain(<<"blacklist", "session_off">>)
    /\ Plain(<<"codes_find", "code_save">>) /\ Plain(<<"history_check", "update">>)
    /\ Plain(<<"user_active", "blacklist", "issue", "touch">>)
    /\ Plain(Issue) /\ Plain(Consume) /\ Plain(Sweep) /\ Plain(Record)
    /\ Generate \in Seq(Calls) /\ Whole(Generate)
<1> USE DEF Plain, Calls, Whole, Linked, Pair, Seconds, Ahead
<1>1. Plain(<<>>) /\ Plain(<<"update">>) /\ Plain(<<"otp_set">>) /\ Plain(<<"blacklist">>)
  OBVIOUS
<1>2. Plain(<<"blacklist", "session_off">>)
      /\ Plain(<<"codes_find", "code_save">>) /\ Plain(<<"history_check", "update">>)
  OBVIOUS
<1>3. Plain(<<"user_active", "blacklist", "issue", "touch">>)
  OBVIOUS
<1>4. Plain(Issue)
  BY DEF Issue
<1>5. Plain(Consume)
  BY DEF Consume
<1>6. Plain(Sweep)
  BY DEF Sweep
<1>7. Plain(Record)
  BY DEF Record
<1>8. Generate \in Seq(Calls) /\ Whole(Generate)
  BY DEF Generate
<1> HIDE DEF Plain, Calls, Whole
<1> QED BY <1>1, <1>2, <1>3, <1>4, <1>5, <1>6, <1>7, <1>8

\* Joining two such sequences gives another.
LEMMA JoinedPlain == ASSUME NEW s, NEW t, Plain(s), Plain(t) PROVE Plain(s \o t)
  BY JoinedWhole, JoinedNoCodes DEF Plain

\* Where the calls of two sequences are when they are joined.
LEMMA JoinedAt ==
    ASSUME NEW s \in Seq(Calls), NEW t \in Seq(Calls)
    PROVE  /\ Len(s \o t) = Len(s) + Len(t)
           /\ \A i \in 1..Len(s) : (s \o t)[i] = s[i]
           /\ \A j \in 1..Len(t) : (s \o t)[Len(s) + j] = t[j]
  OBVIOUS

\* A row is written after the checks, and before codes are replaced.
LEMMA GeneratePlans ==
    \A t \in {Generate, <<"update">> \o Generate, Consume \o <<"update">> \o Generate} :
        t \in Seq(Calls) /\ Whole(t) /\ CodesSafe(t)
<1>1. Generate \in Seq(Calls) /\ Whole(Generate) /\ CodesSafe(Generate)
  BY PlanParts DEF Generate, CodesSafe, Checks
<1> DEFINE u == <<"update">> \o Generate
           v == Consume \o <<"update">> \o Generate
           c == Consume \o <<"update">>
<1>2. u \in Seq(Calls) /\ Whole(u)
  BY <1>1, PlanParts, JoinedWhole DEF Plain
<1>3. c \in Seq(Calls) /\ Whole(c)
  BY PlanParts, JoinedWhole DEF Plain
<1>4. v = c \o Generate
  OBVIOUS
<1>5. v \in Seq(Calls) /\ Whole(v)
  BY <1>1, <1>3, <1>4, JoinedWhole
<1>6. CodesSafe(u)
  <2>1. Len(u) = 3 /\ u[1] = "update" /\ u[2] = "codes_delete" /\ u[3] = "codes_create"
    <3> DEFINE b == <<"update">>
    <3>1. b \in Seq(Calls) /\ Len(b) = 1 /\ b[1] = "update" /\ Len(Generate) = 2
      BY PlanParts DEF Plain, Generate
    <3> HIDE DEF b
    <3>2. /\ Len(b \o Generate) = 1 + 2 /\ (b \o Generate)[1] = b[1]
          /\ (b \o Generate)[1 + 1] = Generate[1] /\ (b \o Generate)[1 + 2] = Generate[2]
      BY <1>1, <3>1, JoinedAt
    <3> QED BY <3>1, <3>2 DEF b, Generate
  <2> HIDE DEF u
  <2>2. DOMAIN u = 1..3
    BY <1>2, <2>1
  <2> QED BY <2>1, <2>2 DEF CodesSafe, Checks
<1>7. CodesSafe(v)
  <2>1. Len(c) = 3 /\ c[1] = "otp_get" /\ c[2] = "otp_delete" /\ c[3] = "update"
    BY PlanParts DEF Plain, Consume
  <2>2. Len(v) = 5 /\ v[1] = c[1] /\ v[2] = c[2] /\ v[3] = c[3]
        /\ v[4] = Generate[1] /\ v[5] = Generate[2]
    <3> HIDE DEF c
    <3>1. Len(Generate) = 2
      BY DEF Generate
    <3>2. /\ Len(v) = 3 + 2 /\ v[1] = c[1] /\ v[2] = c[2] /\ v[3] = c[3]
          /\ v[3 + 1] = Generate[1] /\ v[3 + 2] = Generate[2]
      <4>1. /\ Len(c \o Generate) = Len(c) + Len(Generate)
            /\ \A i \in 1..Len(c) : (c \o Generate)[i] = c[i]
            /\ \A j \in 1..Len(Generate) : (c \o Generate)[Len(c) + j] = Generate[j]
        BY <1>1, <1>3, JoinedAt
      <4>2. 1 \in 1..3 /\ 2 \in 1..3 /\ 3 \in 1..3 /\ 1 \in 1..2 /\ 2 \in 1..2
        OBVIOUS
      <4> HIDE DEF v
      <4> QED BY <1>4, <2>1, <3>1, <4>1, <4>2
    <3> HIDE DEF v
    <3> QED BY <3>2
  <2> HIDE DEF v
  <2>3. DOMAIN v = 1..5
    BY <1>5, <2>2
  <2> QED BY <2>1, <2>2, <2>3 DEF CodesSafe, Checks, Generate
<1> QED BY <1>1, <1>2, <1>5, <1>6, <1>7

\* Every plan is in order.
LEMMA PlansOrdered == \A t \in Plans : t \in Seq(Calls) /\ Whole(t) /\ CodesSafe(t)
<1>1. \A t : Plain(t) => t \in Seq(Calls) /\ Whole(t) /\ CodesSafe(t)
  BY DEF Plain, CodesSafe
<1>2. Plain(SetPassword)
  BY PlanParts, JoinedPlain DEF SetPassword
<1>3. /\ Plain(<<"update">> \o <<>>) /\ Plain(<<"update">> \o <<"otp_set">>)
      /\ Plain(<<"update">> \o Issue) /\ Plain(Consume \o Issue)
      /\ Plain(<<"codes_find", "code_save">> \o Issue) /\ Plain(Consume \o <<"update">>)
      /\ Plain(Consume \o SetPassword) /\ Plain(<<"update">> \o Sweep)
  BY <1>2, PlanParts, JoinedPlain
<1> QED BY <1>1, <1>2, <1>3, PlanParts, GeneratePlans DEF Plans

-----------------------------------------------------------------------------
(***************************************************************************)
(* What a handler starts.                                                  *)
(***************************************************************************)
AtRest == {"idle", "authenticated"}

\* A request that has been read: it follows a plan, and its copy of the row
\* has a second factor only if the row has, or if codes are to be inserted.
Starts(r) ==
    /\ r.todo \in Plans
    /\ r.op \in AtRest => r.todo = <<>>
    /\ r.entity.mfa_enabled => row.mfa_enabled \/ Ahead("codes_create", r.todo)

\* The placeholder copy has no second factor.
LEMMA NoRowPlain == NoRow.mfa_enabled = FALSE
  BY DEF NoRow, NewRow

\* A request without a copy of the row.
LEMMA BeginStarts ==
    ASSUME NEW op, op \notin AtRest, NEW todo \in Plans
    PROVE  /\ Starts(Begin(op, todo))
           /\ \A ns : Starts([Begin(op, todo) EXCEPT !.ns = ns])
           /\ \A ns, code : Starts([Begin(op, todo) EXCEPT !.ns = ns, !.code = code])
           /\ \A jti : Starts([Begin(op, todo) EXCEPT !.jti = jti])
           /\ \A backup : Starts([Begin(op, todo) EXCEPT !.backup = backup])
  BY NoRowPlain DEF Begin, Idle, Starts

\* A request with one.
LEMMA BeginWithStarts ==
    ASSUME NEW op, op \notin AtRest, NEW todo \in Plans, NEW entity,
           entity.mfa_enabled => row.mfa_enabled \/ Ahead("codes_create", todo)
    PROVE  /\ Starts(BeginWith(op, todo, entity))
           /\ \A ns : Starts([BeginWith(op, todo, entity) EXCEPT !.ns = ns])
           /\ \A ns, code : Starts([BeginWith(op, todo, entity) EXCEPT !.ns = ns, !.code = code])
           /\ \A old, new : Starts([BeginWith(op, todo, entity) EXCEPT !.old = old, !.new = new])
           /\ \A ns, code, old, new :
                 Starts([BeginWith(op, todo, entity) EXCEPT !.ns = ns, !.code = code,
                                                            !.old = old, !.new = new])
<1>1. Starts(BeginWith(op, todo, entity))
  BY DEF BeginWith, Begin, Idle, Starts
<1>2. ASSUME NEW ns PROVE Starts([BeginWith(op, todo, entity) EXCEPT !.ns = ns])
  BY DEF BeginWith, Begin, Idle, Starts
<1>3. ASSUME NEW ns, NEW code
      PROVE  Starts([BeginWith(op, todo, entity) EXCEPT !.ns = ns, !.code = code])
  BY DEF BeginWith, Begin, Idle, Starts
<1>4. ASSUME NEW old, NEW new
      PROVE  Starts([BeginWith(op, todo, entity) EXCEPT !.old = old, !.new = new])
  BY DEF BeginWith, Begin, Idle, Starts
<1>5. ASSUME NEW ns, NEW code, NEW old, NEW new
      PROVE  Starts([BeginWith(op, todo, entity) EXCEPT !.ns = ns, !.code = code,
                                                       !.old = old, !.new = new])
  BY DEF BeginWith, Begin, Idle, Starts
<1> QED BY <1>1, <1>2, <1>3, <1>4, <1>5, Zenon

\* The plans of the handlers that switch a second factor on insert codes.
LEMMA EnablePlans ==
    /\ Ahead("codes_create", <<"update">> \o Generate)
    /\ Ahead("codes_create", Consume \o <<"update">> \o Generate)
<1>1. Generate \in Seq(Calls) /\ Len(Generate) = 2 /\ Generate[2] = "codes_create"
  BY PlanParts DEF Generate
<1>2. ASSUME NEW s \in Seq(Calls) PROVE Ahead("codes_create", s \o Generate)
  <2>1. (s \o Generate)[Len(s) + 2] = "codes_create" /\ Len(s \o Generate) = Len(s) + 2
    <3>1. /\ Len(s \o Generate) = Len(s) + Len(Generate)
          /\ \A j \in 1..Len(Generate) : (s \o Generate)[Len(s) + j] = Generate[j]
      BY <1>1, JoinedAt, Zenon
    <3>2. 2 \in 1..2
      OBVIOUS
    <3>3. (s \o Generate)[Len(s) + 2] = Generate[2]
      BY <1>1, <3>1, <3>2, Zenon
    <3> QED BY <1>1, <3>1, <3>3, Zenon
  <2>2. Len(s) + 2 \in DOMAIN (s \o Generate)
    <3>1. s \o Generate \in Seq(Calls) /\ Len(s) \in Nat
      BY <1>1
    <3> QED BY <2>1, <3>1
  <2> QED BY <2>1, <2>2 DEF Ahead
<1>3. <<"update">> \in Seq(Calls) /\ Consume \o <<"update">> \in Seq(Calls)
  BY PlanParts, JoinedPlain DEF Plain
<1> QED BY <1>2, <1>3

\* The plans, one by one.
LEMMA PlanMembers ==
    /\ <<>> \in Plans /\ <<"update">> \in Plans /\ <<"otp_set">> \in Plans
    /\ <<"blacklist">> \in Plans /\ <<"blacklist", "session_off">> \in Plans
    /\ <<"user_active", "blacklist", "issue", "touch">> \in Plans
    /\ Issue \in Plans /\ Consume \o Issue \in Plans
    /\ <<"codes_find", "code_save">> \o Issue \in Plans
    /\ Consume \o <<"update">> \in Plans
    /\ SetPassword \in Plans /\ Consume \o SetPassword \in Plans
    /\ <<"update">> \o Sweep \in Plans
    /\ Generate \in Plans /\ <<"update">> \o Generate \in Plans
    /\ Consume \o <<"update">> \o Generate \in Plans
    /\ <<"update">> \o Issue \in Plans /\ <<"update">> \o <<>> \in Plans
    /\ <<"update">> \o <<"otp_set">> \in Plans
  BY DEF Plans

\* Every handler serves a worker that is at rest.
LEMMA HandlerStarts ==
    ASSUME row \in Row, NEW w \in Workers, Handle(w)
    PROVE  req[w].op \in AtRest /\ \E r : Serve(w, r) /\ Starts(r)
<1>1. req[w].op \in AtRest
  BY DEF AtRest, Open, Authed, Handle, Authenticate, EndUnchanged, LoginWrongPassword,
     LoginRightPassword, MfaChallenge, SocialAuth, VerifyEmail, ResendVerificationOTP,
     RequestPasswordReset, ConfirmPasswordReset, ChangePassword, SetupMFA, EnableMFA,
     DisableMFA, SetupSMSMFA, EnableSMSMFA, SetupEmailMFA, EnableEmailMFA,
     RegenerateBackupCodes, UpdateProfile, DeleteAccount, GDPRErasure, SuspendUser,
     ActivateUser, Refresh, Logout, RevokeSession
<1>2. CASE Authenticate(w) \/ EndUnchanged(w)
  <2>1. Starts(Idle) /\ Starts(Begin("authenticated", <<>>))
    BY PlanMembers, NoRowPlain DEF Idle, Begin, Starts
  <2> QED BY <1>1, <1>2, <2>1 DEF Authenticate, EndUnchanged, Fail
<1>3. CASE LoginWrongPassword(w)
  <2> DEFINE failed == row.failed_login_attempts + 1
             until == IF failed >= MaxFailedAttempts THEN now + LockoutTicks
                      ELSE row.locked_until
             e == [row EXCEPT !.failed_login_attempts = failed, !.locked_until = until]
  <2>1. Serve(w, BeginWith("login", <<"update">>, e))
    BY <1>3 DEF LoginWrongPassword
  <2>2. e.mfa_enabled = row.mfa_enabled
    BY DEF Row
  <2> HIDE DEF e
  <2>3. Starts(BeginWith("login", <<"update">>, e))
    BY PlanMembers, <2>2, BeginWithStarts DEF AtRest
  <2> QED BY <1>1, <2>1, <2>3
<1>4. CASE LoginRightPassword(w)
  <2> DEFINE e == [row EXCEPT !.failed_login_attempts = 0, !.locked_until = 0]
             todo == <<"update">> \o AfterPassword(row)
             r == [BeginWith("login", todo, e) EXCEPT !.ns = "mfa_login"]
  <2>1. Serve(w, r)
    BY <1>4 DEF LoginRightPassword
  <2>2. e.mfa_enabled = row.mfa_enabled
    BY DEF Row
  <2>3. todo \in Plans
    <3>1. AfterPassword(row) \in {Issue, <<"otp_set">>, <<>>}
      BY DEF AfterPassword, MfaType, Row, MfaTypes
    <3>2. CASE AfterPassword(row) = Issue
      BY <3>2, PlanMembers
    <3>3. CASE AfterPassword(row) = <<"otp_set">>
      BY <3>3, PlanMembers
    <3>4. CASE AfterPassword(row) = <<>>
      BY <3>4, PlanMembers
    <3> QED BY <3>1, <3>2, <3>3, <3>4
  <2> HIDE DEF e, todo
  <2>4. Starts(r)
    BY <2>2, <2>3, BeginWithStarts DEF AtRest
  <2> QED BY <1>1, <2>1, <2>4
<1>5. CASE MfaChallenge(w)
  <2>1. ASSUME NEW code, NEW r, Serve(w, r),
               r = [Begin("mfa_challenge", Consume \o Issue) EXCEPT !.ns = "mfa_login", !.code = code]
        PROVE  \E q : Serve(w, q) /\ Starts(q)
    BY <2>1, PlanMembers, BeginStarts DEF AtRest
  <2>2. ASSUME Serve(w, Begin("mfa_challenge", Issue))
        PROVE  \E q : Serve(w, q) /\ Starts(q)
    BY <2>2, PlanMembers, BeginStarts DEF AtRest
  <2>3. ASSUME NEW c, NEW r, Serve(w, r),
               r = [Begin("mfa_challenge", <<"codes_find", "code_save">> \o Issue) EXCEPT !.backup = c]
        PROVE  \E q : Serve(w, q) /\ Starts(q)
    BY <2>3, PlanMembers, BeginStarts DEF AtRest
  <2> QED BY <1>1, <1>5, <2>1, <2>2, <2>3 DEF MfaChallenge
<1>6. CASE ResendVerificationOTP(w)
  <2>1. Serve(w, [Begin("resend_verification", <<"otp_set">>) EXCEPT !.ns = "email_verify"])
    BY <1>6 DEF ResendVerificationOTP
  <2>2. Starts([Begin("resend_verification", <<"otp_set">>) EXCEPT !.ns = "email_verify"])
    BY PlanMembers, BeginStarts DEF AtRest
  <2> QED BY <1>1, <2>1, <2>2
<1>7. CASE RequestPasswordReset(w)
  <2>1. Serve(w, [Begin("request_reset", <<"otp_set">>) EXCEPT !.ns = "password_reset"])
    BY <1>7 DEF RequestPasswordReset
  <2>2. Starts([Begin("request_reset", <<"otp_set">>) EXCEPT !.ns = "password_reset"])
    BY PlanMembers, BeginStarts DEF AtRest
  <2> QED BY <1>1, <2>1, <2>2
<1>8. CASE SetupSMSMFA(w)
  <2>1. Serve(w, [Begin("setup_sms_mfa", <<"otp_set">>) EXCEPT !.ns = "mfa_sms_setup"])
    BY <1>8 DEF SetupSMSMFA
  <2>2. Starts([Begin("setup_sms_mfa", <<"otp_set">>) EXCEPT !.ns = "mfa_sms_setup"])
    BY PlanMembers, BeginStarts DEF AtRest
  <2> QED BY <1>1, <2>1, <2>2
<1>9. CASE SetupEmailMFA(w)
  <2>1. Serve(w, [Begin("setup_email_mfa", <<"otp_set">>) EXCEPT !.ns = "mfa_email_setup"])
    BY <1>9 DEF SetupEmailMFA
  <2>2. Starts([Begin("setup_email_mfa", <<"otp_set">>) EXCEPT !.ns = "mfa_email_setup"])
    BY PlanMembers, BeginStarts DEF AtRest
  <2> QED BY <1>1, <2>1, <2>2
<1>10. CASE Refresh(w)
  <2>1. PICK t \in Live : Serve(w, [Begin("refresh", <<"user_active", "blacklist", "issue", "touch">>) EXCEPT !.jti = t])
    BY <1>10 DEF Refresh
  <2>2. Starts([Begin("refresh", <<"user_active", "blacklist", "issue", "touch">>) EXCEPT !.jti = t])
    BY PlanMembers, BeginStarts DEF AtRest
  <2> QED BY <1>1, <2>1, <2>2
<1>11. CASE Logout(w)
  <2>1. PICK t \in Live : Serve(w, [Begin("logout", <<"blacklist", "session_off">>) EXCEPT !.jti = t])
    BY <1>11 DEF Logout
  <2>2. Starts([Begin("logout", <<"blacklist", "session_off">>) EXCEPT !.jti = t])
    BY PlanMembers, BeginStarts DEF AtRest
  <2> QED BY <1>1, <2>1, <2>2
<1>12. CASE RevokeSession(w)
  <2>1. PICK t \in sessions : Serve(w, [Begin("revoke_session", <<"blacklist">>) EXCEPT !.jti = t])
    BY <1>12 DEF RevokeSession
  <2>2. Starts([Begin("revoke_session", <<"blacklist">>) EXCEPT !.jti = t])
    BY PlanMembers, BeginStarts DEF AtRest
  <2> QED BY <1>1, <2>1, <2>2
<1>13. CASE SocialAuth(w)
  <2>1. Serve(w, Begin("social_auth", Issue))
    BY <1>13 DEF SocialAuth
  <2>2. Starts(Begin("social_auth", Issue))
    BY PlanMembers, BeginStarts DEF AtRest
  <2> QED BY <1>1, <2>1, <2>2
<1>14. CASE RegenerateBackupCodes(w)
  <2>1. Serve(w, Begin("regenerate_codes", Generate))
    BY <1>14 DEF RegenerateBackupCodes
  <2>2. Starts(Begin("regenerate_codes", Generate))
    BY PlanMembers, BeginStarts DEF AtRest
  <2> QED BY <1>1, <2>1, <2>2
<1>15. CASE VerifyEmail(w)
  <2>1. PICK code \in 1..minted :
           Serve(w, [BeginWith("verify_email", Consume \o <<"update">>, [row EXCEPT !.is_email_verified = TRUE]) EXCEPT !.ns = "email_verify", !.code = code])
    BY <1>15 DEF VerifyEmail
  <2> DEFINE e == [row EXCEPT !.is_email_verified = TRUE]
  <2>2. e.mfa_enabled = row.mfa_enabled
    BY DEF Row
  <2>3. Serve(w, [BeginWith("verify_email", Consume \o <<"update">>, e) EXCEPT !.ns = "email_verify", !.code = code])
    BY <2>1
  <2> HIDE DEF e
  <2>4. Starts([BeginWith("verify_email", Consume \o <<"update">>, e) EXCEPT !.ns = "email_verify", !.code = code])
    BY PlanMembers, <2>2, BeginWithStarts DEF AtRest
  <2> QED BY <1>1, <2>3, <2>4
<1>16. CASE ConfirmPasswordReset(w)
  <2>1. PICK code \in 1..minted, new \in Passwords :
           Serve(w, [BeginWith("confirm_reset", Consume \o SetPassword, [row EXCEPT !.password_hash = new]) EXCEPT !.ns = "password_reset", !.code = code,
        !.old = row.password_hash, !.new = new])
    BY <1>16 DEF ConfirmPasswordReset
  <2> DEFINE e == [row EXCEPT !.password_hash = new]
  <2>2. e.mfa_enabled = row.mfa_enabled
    BY DEF Row
  <2>3. Serve(w, [BeginWith("confirm_reset", Consume \o SetPassword, e) EXCEPT !.ns = "password_reset", !.code = code,
        !.old = row.password_hash, !.new = new])
    BY <2>1
  <2> HIDE DEF e
  <2>4. Starts([BeginWith("confirm_reset", Consume \o SetPassword, e) EXCEPT !.ns = "password_reset", !.code = code,
        !.old = row.password_hash, !.new = new])
    BY PlanMembers, <2>2, BeginWithStarts DEF AtRest
  <2> QED BY <1>1, <2>3, <2>4
<1>17. CASE ChangePassword(w)
  <2>1. PICK new \in Passwords :
           Serve(w, [BeginWith("change_password", SetPassword, [row EXCEPT !.password_hash = new]) EXCEPT !.old = row.password_hash, !.new = new])
    BY <1>17 DEF ChangePassword
  <2> DEFINE e == [row EXCEPT !.password_hash = new]
  <2>2. e.mfa_enabled = row.mfa_enabled
    BY DEF Row
  <2>3. Serve(w, [BeginWith("change_password", SetPassword, e) EXCEPT !.old = row.password_hash, !.new = new])
    BY <2>1
  <2> HIDE DEF e
  <2>4. Starts([BeginWith("change_password", SetPassword, e) EXCEPT !.old = row.password_hash, !.new = new])
    BY PlanMembers, <2>2, BeginWithStarts DEF AtRest
  <2> QED BY <1>1, <2>3, <2>4
<1>18. CASE SetupMFA(w)
  <2>1. PICK secret \in FreshSecrets :
           Serve(w, BeginWith("setup_mfa", <<"update">>, [row EXCEPT !.mfa_secret = secret]))
    BY <1>18 DEF SetupMFA
  <2> DEFINE e == [row EXCEPT !.mfa_secret = secret]
  <2>2. e.mfa_enabled = row.mfa_enabled
    BY DEF Row
  <2>3. Serve(w, BeginWith("setup_mfa", <<"update">>, e))
    BY <2>1
  <2> HIDE DEF e
  <2>4. Starts(BeginWith("setup_mfa", <<"update">>, e))
    BY PlanMembers, <2>2, BeginWithStarts DEF AtRest
  <2> QED BY <1>1, <2>3, <2>4
<1>19. CASE EnableMFA(w)
  <2> DEFINE e == Enabled(row, "totp")
  <2>1. Serve(w, BeginWith("enable_mfa", <<"update">> \o Generate, e))
    BY <1>19 DEF EnableMFA
  <2>2. Ahead("codes_create", <<"update">> \o Generate)
    BY EnablePlans
  <2> HIDE DEF e
  <2>4. Starts(BeginWith("enable_mfa", <<"update">> \o Generate, e))
    BY PlanMembers, <2>2, BeginWithStarts DEF AtRest
  <2> QED BY <1>1, <2>1, <2>4
<1>20. CASE EnableSMSMFA(w)
  <2>1. PICK code \in 1..minted :
           Serve(w, [BeginWith("enable_sms_mfa", Consume \o <<"update">> \o Generate, Enabled(row, "sms")) EXCEPT !.ns = "mfa_sms_setup", !.code = code])
    BY <1>20 DEF EnableSMSMFA
  <2> DEFINE e == Enabled(row, "sms")
  <2>2. Ahead("codes_create", Consume \o <<"update">> \o Generate)
    BY EnablePlans
  <2>3. Serve(w, [BeginWith("enable_sms_mfa", Consume \o <<"update">> \o Generate, e) EXCEPT !.ns = "mfa_sms_setup", !.code = code])
    BY <2>1
  <2> HIDE DEF e
  <2>4. Starts([BeginWith("enable_sms_mfa", Consume \o <<"update">> \o Generate, e) EXCEPT !.ns = "mfa_sms_setup", !.code = code])
    BY PlanMembers, <2>2, BeginWithStarts DEF AtRest
  <2> QED BY <1>1, <2>3, <2>4
<1>21. CASE EnableEmailMFA(w)
  <2>1. PICK code \in 1..minted :
           Serve(w, [BeginWith("enable_email_mfa", Consume \o <<"update">> \o Generate, Enabled(row, "email")) EXCEPT !.ns = "mfa_email_setup", !.code = code])
    BY <1>21 DEF EnableEmailMFA
  <2> DEFINE e == Enabled(row, "email")
  <2>2. Ahead("codes_create", Consume \o <<"update">> \o Generate)
    BY EnablePlans
  <2>3. Serve(w, [BeginWith("enable_email_mfa", Consume \o <<"update">> \o Generate, e) EXCEPT !.ns = "mfa_email_setup", !.code = code])
    BY <2>1
  <2> HIDE DEF e
  <2>4. Starts([BeginWith("enable_email_mfa", Consume \o <<"update">> \o Generate, e) EXCEPT !.ns = "mfa_email_setup", !.code = code])
    BY PlanMembers, <2>2, BeginWithStarts DEF AtRest
  <2> QED BY <1>1, <2>3, <2>4
<1>22. CASE DisableMFA(w)
  <2> DEFINE e == [row EXCEPT !.mfa_enabled = FALSE, !.mfa_secret = None, !.mfa_type = None]
  <2>1. Serve(w, BeginWith("disable_mfa", <<"update">>, e))
    BY <1>22 DEF DisableMFA
  <2>2. e.mfa_enabled = FALSE
    BY DEF Row
  <2> HIDE DEF e
  <2>4. Starts(BeginWith("disable_mfa", <<"update">>, e))
    BY PlanMembers, <2>2, BeginWithStarts DEF AtRest
  <2> QED BY <1>1, <2>1, <2>4
<1>23. CASE UpdateProfile(w)
  <2>1. PICK n \in Names \cup {row.name}, c \in Contacts \cup {row.contact} :
           Serve(w, BeginWith("update_profile", <<"update">>, [row EXCEPT !.name = n, !.contact = c]))
    BY <1>23 DEF UpdateProfile
  <2> DEFINE e == [row EXCEPT !.name = n, !.contact = c]
  <2>2. e.mfa_enabled = row.mfa_enabled
    BY DEF Row
  <2>3. Serve(w, BeginWith("update_profile", <<"update">>, e))
    BY <2>1
  <2> HIDE DEF e
  <2>4. Starts(BeginWith("update_profile", <<"update">>, e))
    BY PlanMembers, <2>2, BeginWithStarts DEF AtRest
  <2> QED BY <1>1, <2>3, <2>4
<1>24. CASE DeleteAccount(w)
  <2> DEFINE e == [row EXCEPT !.is_active = FALSE, !.scheduled_deletion_at = TRUE]
  <2>1. Serve(w, BeginWith("delete_account", <<"update">> \o Sweep, e))
    BY <1>24 DEF DeleteAccount
  <2>2. e.mfa_enabled = row.mfa_enabled
    BY DEF Row
  <2> HIDE DEF e
  <2>4. Starts(BeginWith("delete_account", <<"update">> \o Sweep, e))
    BY PlanMembers, <2>2, BeginWithStarts DEF AtRest
  <2> QED BY <1>1, <2>1, <2>4
<1>25. CASE GDPRErasure(w)
  <2> DEFINE e == [row EXCEPT !.email = "redacted", !.name = "Deleted User", !.mfa_secret = None,
                         !.is_active = FALSE, !.deleted_at = TRUE]
  <2>1. Serve(w, BeginWith("erase", <<"update">> \o Sweep, e))
    BY <1>25 DEF GDPRErasure
  <2>2. e.mfa_enabled = row.mfa_enabled
    BY DEF Row
  <2> HIDE DEF e
  <2>4. Starts(BeginWith("erase", <<"update">> \o Sweep, e))
    BY PlanMembers, <2>2, BeginWithStarts DEF AtRest
  <2> QED BY <1>1, <2>1, <2>4
<1>26. CASE SuspendUser(w)
  <2> DEFINE e == [row EXCEPT !.is_active = FALSE]
  <2>1. Serve(w, BeginWith("suspend", <<"update">>, e))
    BY <1>26 DEF SuspendUser
  <2>2. e.mfa_enabled = row.mfa_enabled
    BY DEF Row
  <2> HIDE DEF e
  <2>4. Starts(BeginWith("suspend", <<"update">>, e))
    BY PlanMembers, <2>2, BeginWithStarts DEF AtRest
  <2> QED BY <1>1, <2>1, <2>4
<1>27. CASE ActivateUser(w)
  <2> DEFINE e == [row EXCEPT !.is_active = TRUE]
  <2>1. Serve(w, BeginWith("activate", <<"update">>, e))
    BY <1>27 DEF ActivateUser
  <2>2. e.mfa_enabled = row.mfa_enabled
    BY DEF Row
  <2> HIDE DEF e
  <2>4. Starts(BeginWith("activate", <<"update">>, e))
    BY PlanMembers, <2>2, BeginWithStarts DEF AtRest
  <2> QED BY <1>1, <2>1, <2>4
<1> QED
  BY <1>1, <1>2, <1>3, <1>4, <1>5, <1>6, <1>7, <1>8, <1>9, <1>10, <1>11, <1>12, <1>13, <1>14, <1>15, <1>16, <1>17, <1>18, <1>19, <1>20, <1>21, <1>22, <1>23, <1>24, <1>25, <1>26, <1>27
     DEF Handle

\* What the handlers leave alone.
LEMMA HandlerLeaves ==
    ASSUME NEW w \in Workers, Handle(w)
    PROVE  /\ UNCHANGED <<row, otpVars, historyVars, backupVars, faultVars>>
           /\ UNCHANGED <<outstanding, blacklisted>>
<1> USE DEF Local, Serve, Fail, Handle, accountVars, tokenVars
<1>1. UNCHANGED <<row, otpVars, historyVars, backupVars, faultVars>>
  BY DEF Authenticate, EndUnchanged, LoginWrongPassword,
       LoginRightPassword, MfaChallenge, SocialAuth, VerifyEmail, ResendVerificationOTP,
       RequestPasswordReset, ConfirmPasswordReset, ChangePassword, SetupMFA, EnableMFA,
       DisableMFA, SetupSMSMFA, EnableSMSMFA, SetupEmailMFA, EnableEmailMFA,
       RegenerateBackupCodes, UpdateProfile, DeleteAccount, GDPRErasure, SuspendUser,
       ActivateUser, Refresh, Logout, RevokeSession
<1>2. UNCHANGED <<outstanding, blacklisted>>
  BY DEF Authenticate, EndUnchanged, LoginWrongPassword,
       LoginRightPassword, MfaChallenge, SocialAuth, VerifyEmail, ResendVerificationOTP,
       RequestPasswordReset, ConfirmPasswordReset, ChangePassword, SetupMFA, EnableMFA,
       DisableMFA, SetupSMSMFA, EnableSMSMFA, SetupEmailMFA, EnableEmailMFA,
       RegenerateBackupCodes, UpdateProfile, DeleteAccount, GDPRErasure, SuspendUser,
       ActivateUser, Refresh, Logout, RevokeSession, DeactivateSession
<1> QED BY <1>1, <1>2

-----------------------------------------------------------------------------
(***************************************************************************)
(* How a call moves its request on.                                        *)
(***************************************************************************)

\* The request ends at one of its checks.
Ends(w) == Head(req[w].todo) \in Checks /\ Fail(w)

\* The request goes on to its next call, perhaps with something it was told.
GoesOn(w, q) ==
    /\ ProceedWith(w, q)
    /\ q.op = req[w].op /\ q.todo = req[w].todo /\ q.ns = req[w].ns /\ q.code = req[w].code
    /\ q.backup = req[w].backup /\ q.entity \in {req[w].entity, NoRow}

\* The request stays in the loop over its tokens.
Loops(w) ==
    /\ AtCall(w, "blacklist_each")
    /\ \E t \in req[w].toks :
          /\ Blacklist(t)
          /\ Serve(w, [req[w] EXCEPT !.toks = @ \ {t}])

\* Every call has one of the three shapes.
LEMMA CallShape ==
    ASSUME IInv, NEW w \in Workers, Call(w)
    PROVE  /\ req[w].todo # <<>>
           /\ Ends(w) \/ (\E q \in Request : GoesOn(w, q)) \/ Loops(w)
<1>0. req[w] \in Request
  BY DEF IInv, TypeOK
<1>1. Proceed(w) => GoesOn(w, req[w])
  BY DEF Proceed, GoesOn
<1>2. CASE OtpDelete(w) \/ OtpSet(w) \/ HistoryInsert(w) \/ SessionCreate(w)
           \/ BlacklistToken(w) \/ SessionOff(w) \/ Touch(w) \/ SessionsOff(w)
           \/ CodesDelete(w) \/ CodesCreate(w)
  <2>1. req[w].todo # <<>> /\ Proceed(w)
    BY <1>2 DEF AtCall, OtpDelete, OtpSet, HistoryInsert, SessionCreate, BlacklistToken,
       SessionOff, Touch, SessionsOff, CodesDelete, CodesCreate
  <2> QED BY <1>0, <1>1, <2>1
<1>3. CASE OtpGet(w) \/ HistoryCheck(w) \/ CheckUserActive(w) \/ SessionCheck(w)
           \/ CodesFind(w) \/ CodeSave(w)
  <2>1. /\ req[w].todo # <<>> /\ Head(req[w].todo) \in Checks
        /\ Proceed(w) \/ Fail(w)
    BY <1>3 DEF AtCall, Checks, OtpGet, HistoryCheck, CheckUserActive, SessionCheck,
       CodesFind, CodeSave
  <2> QED BY <1>0, <1>1, <2>1 DEF Ends
<1>4. ASSUME NEW q \in Request, ProceedWith(w, q), req[w].todo # <<>>,
             q.op = req[w].op, q.todo = req[w].todo, q.ns = req[w].ns, q.code = req[w].code,
             q.backup = req[w].backup, q.entity \in {req[w].entity, NoRow}
      PROVE  /\ req[w].todo # <<>>
             /\ Ends(w) \/ (\E r \in Request : GoesOn(w, r)) \/ Loops(w)
  BY <1>4 DEF GoesOn
<1>5. CASE UpdateUser(w)
  <2> DEFINE q == [req[w] EXCEPT !.entity = NoRow]
  <2>1. q \in Request /\ q.op = req[w].op /\ q.todo = req[w].todo
        /\ q.ns = req[w].ns /\ q.code = req[w].code /\ q.backup = req[w].backup
        /\ q.entity \in {req[w].entity, NoRow}
    BY <1>0, NoRowSafe DEF Request
  <2>2. ProceedWith(w, q) /\ req[w].todo # <<>>
    BY <1>5 DEF UpdateUser, AtCall
  <2> HIDE DEF q
  <2> QED BY <1>4, <2>1, <2>2
<1>6. CASE HistoryList(w)
  <2> DEFINE q == [req[w] EXCEPT !.keep = IdsToKeep]
  <2>0. IdsToKeep \in SUBSET (1..MaxRecords)
    BY DEF IInv, TypeOK, HistoryTypeOK, IdsToKeep, MostRecent
  <2>1. q \in Request /\ q.op = req[w].op /\ q.todo = req[w].todo
        /\ q.ns = req[w].ns /\ q.code = req[w].code /\ q.backup = req[w].backup
        /\ q.entity \in {req[w].entity, NoRow}
    BY <1>0, <2>0 DEF Request
  <2>2. ProceedWith(w, q) /\ req[w].todo # <<>>
    BY <1>6 DEF HistoryList, AtCall
  <2> HIDE DEF q
  <2> QED BY <1>4, <2>1, <2>2
<1>7. CASE HistoryPrune(w)
  <2> DEFINE q == [req[w] EXCEPT !.keep = {}]
  <2>1. q \in Request /\ q.op = req[w].op /\ q.todo = req[w].todo
        /\ q.ns = req[w].ns /\ q.code = req[w].code /\ q.backup = req[w].backup
        /\ q.entity \in {req[w].entity, NoRow}
    BY <1>0 DEF Request
  <2>2. ProceedWith(w, q) /\ req[w].todo # <<>>
    BY <1>7 DEF HistoryPrune, AtCall
  <2> HIDE DEF q
  <2> QED BY <1>4, <2>1, <2>2
<1>8. CASE IssueToken(w)
  <2> DEFINE q == [req[w] EXCEPT !.issued = outstanding + 1]
  <2>0. outstanding + 1 \in 0..MaxTokens
    BY <1>8, TokenAssumption DEF IssueToken, RecordOutstanding, IInv, TypeOK, TokenTypeOK
  <2>1. q \in Request /\ q.op = req[w].op /\ q.todo = req[w].todo
        /\ q.ns = req[w].ns /\ q.code = req[w].code /\ q.backup = req[w].backup
        /\ q.entity \in {req[w].entity, NoRow}
    BY <1>0, <2>0 DEF Request
  <2>2. ProceedWith(w, q) /\ req[w].todo # <<>>
    BY <1>8 DEF IssueToken, AtCall
  <2> HIDE DEF q
  <2> QED BY <1>4, <2>1, <2>2
<1>9. CASE TokensQuery(w)
  <2> DEFINE q == [req[w] EXCEPT !.seen = outstanding, !.toks = Outstanding]
  <2>0. outstanding \in 0..MaxTokens /\ Outstanding \in SUBSET (1..MaxTokens)
    BY TokenAssumption DEF IInv, TypeOK, TokenTypeOK, Outstanding
  <2>1. q \in Request /\ q.op = req[w].op /\ q.todo = req[w].todo
        /\ q.ns = req[w].ns /\ q.code = req[w].code /\ q.backup = req[w].backup
        /\ q.entity \in {req[w].entity, NoRow}
    BY <1>0, <2>0 DEF Request
  <2>2. ProceedWith(w, q) /\ req[w].todo # <<>>
    BY <1>9 DEF TokensQuery, AtCall
  <2> HIDE DEF q
  <2> QED BY <1>4, <2>1, <2>2
<1>10. CASE BlacklistEach(w)
  <2>1. req[w].todo # <<>> /\ (Proceed(w) \/ Loops(w))
    BY <1>10 DEF BlacklistEach, Loops, AtCall
  <2> QED BY <1>0, <1>1, <2>1
<1> QED BY <1>2, <1>3, <1>5, <1>6, <1>7, <1>8, <1>9, <1>10 DEF Call

\* Dropping the first call keeps the others in order.
LEMMA TailOrdered ==
    ASSUME NEW s \in Seq(Calls), s # <<>>, Ordered(s)
    PROVE  Ordered(Tail(s))
<1> DEFINE t == Tail(s)
<1>1. /\ DOMAIN s = 1..Len(s) /\ Len(s) \in Nat /\ DOMAIN t = 1..(Len(s) - 1)
      /\ \A i \in DOMAIN t : t[i] = s[i + 1]
  OBVIOUS
<1> HIDE DEF t
<1>2. ASSUME NEW a, NEW b, Pair(a, b, s) PROVE Pair(a, b, t)
  <2>1. ASSUME NEW i \in DOMAIN t, t[i] = a PROVE i + 1 \in DOMAIN t /\ t[i + 1] = b
    <3>1. i \in Nat /\ i + 1 \in DOMAIN s /\ s[i + 1] = a
      BY <1>1, <2>1
    <3>2. (i + 1) + 1 \in DOMAIN s /\ s[(i + 1) + 1] = b
      BY <1>2, <3>1 DEF Pair
    <3>3. i + 1 \in DOMAIN t
      BY <1>1, <3>1, <3>2
    <3> QED BY <1>1, <3>2, <3>3
  <2>2. ASSUME NEW i \in DOMAIN t, t[i] = b, i # 1 PROVE t[i - 1] = a
    <3>1. i \in Nat /\ i + 1 \in DOMAIN s /\ s[i + 1] = b /\ i + 1 # 1 /\ (i + 1) - 1 = i
      BY <1>1, <2>2
    <3>2. s[i] = a
      BY <1>2, <3>1 DEF Pair
    <3>3. i - 1 \in DOMAIN t /\ (i - 1) + 1 = i
      BY <1>1, <2>2
    <3> QED BY <1>1, <3>2, <3>3
  <2> QED BY <2>1, <2>2 DEF Pair
<1>3. Linked(t)
  BY <1>2 DEF Ordered, Linked
<1>4. CodesSafe(t)
  <2> SUFFICES ASSUME Ahead("codes_create", t), NEW i \in DOMAIN t, NEW k \in DOMAIN t,
                      t[i] \in Checks, t[k] \in {"update", "codes_delete"}
               PROVE  i < k
    BY DEF CodesSafe
  <2>1. Ahead("codes_create", s)
    BY <1>1 DEF Ahead
  <2>2. /\ i \in Nat /\ i + 1 \in DOMAIN s /\ s[i + 1] \in Checks
        /\ k \in Nat /\ k + 1 \in DOMAIN s /\ s[k + 1] \in {"update", "codes_delete"}
    BY <1>1
  <2>3. i + 1 < k + 1
    BY <2>1, <2>2 DEF Ordered, CodesSafe
  <2> QED BY <2>2, <2>3
<1> QED BY <1>3, <1>4 DEF Ordered, t

\* The two calls of a pair follow each other.
LEMMA PairHeads ==
    ASSUME NEW a, NEW b, NEW s \in Seq(Calls), s # <<>>, Pair(a, b, s)
    PROVE  /\ Head(s) = a => Tail(s) # <<>> /\ Head(Tail(s)) = b
           /\ Tail(s) # <<>> /\ Head(Tail(s)) = b => Head(s) = a
<1>1. /\ DOMAIN s = 1..Len(s) /\ Len(s) \in Nat /\ Head(s) = s[1] /\ 1 \in DOMAIN s
      /\ Tail(s) # <<>> <=> Len(s) > 1
      /\ Len(s) > 1 => Head(Tail(s)) = s[2]
  <2>1. /\ Tail(s) \in Seq(Calls) /\ Len(Tail(s)) = Len(s) - 1
        /\ \A i \in 1..(Len(s) - 1) : Tail(s)[i] = s[i + 1]
    OBVIOUS
  <2>2. DOMAIN s = 1..Len(s) /\ Len(s) \in Nat /\ Head(s) = s[1] /\ Len(s) > 0
    OBVIOUS
  <2>3. Tail(s) # <<>> <=> Len(Tail(s)) > 0
    <3> DEFINE t == Tail(s)
    <3>1. t \in Seq(Calls)
      BY <2>1
    <3> HIDE DEF t
    <3>2. t # <<>> => Len(t) > 0
      BY <3>1
    <3>3. t = <<>> => Len(t) = 0
      OBVIOUS
    <3>4. t # <<>> <=> Len(t) > 0
      BY <3>2, <3>3
    <3> QED BY <3>4, Zenon DEF t
  <2>4. Tail(s) # <<>> => Head(Tail(s)) = Tail(s)[1]
    <3> DEFINE t == Tail(s)
    <3>1. t \in Seq(Calls)
      BY <2>1
    <3> HIDE DEF t
    <3>2. t # <<>> => Head(t) = t[1]
      BY <3>1
    <3> QED BY <3>2 DEF t
  <2>5. Len(s) > 1 => 1 \in 1..(Len(s) - 1) /\ 1 + 1 = 2
    BY <2>2
  <2> QED BY <2>1, <2>2, <2>3, <2>4, <2>5
<1>2. Head(s) = a => Len(s) > 1 /\ s[2] = b
  BY <1>1 DEF Pair
<1>3. Len(s) > 1 /\ s[2] = b => s[1] = a
  <2>1. Len(s) > 1 => 2 \in DOMAIN s /\ 2 # 1 /\ 2 - 1 = 1
    BY <1>1
  <2> QED BY <2>1 DEF Pair
<1> QED BY <1>1, <1>2, <1>3

\* Every request has calls in order before it, and a worker at rest has none.
Orderly(r) == Ordered(r.todo) /\ (r.op \in AtRest => r.todo = <<>>)
OrderlyInv == \A w \in Workers : Orderly(req[w])

\* What remains of a request that goes on.
LEMMA GoingOn ==
    ASSUME IInv, OrderlyInv, NEW w \in Workers, req[w].todo # <<>>,
           NEW q \in Request, GoesOn(w, q)
    PROVE  /\ req' = [req EXCEPT ![w] = After(q)] /\ req'[w] = After(q)
           /\ After(q).todo = Tail(req[w].todo)
           /\ Orderly(After(q))
           /\ After(q).todo # <<>> =>
                 After(q) = [q EXCEPT !.todo = Tail(q.todo)]
<1>1. req[w] \in Request /\ req[w].todo \in Seq(Calls) /\ q.todo = req[w].todo
  BY DEF IInv, TypeOK, Request, GoesOn
<1>2. req' = [req EXCEPT ![w] = After(q)] /\ req'[w] = After(q)
  BY DEF GoesOn, ProceedWith, IInv, TypeOK
<1>3. Ordered(Tail(q.todo))
  BY <1>1, TailOrdered DEF OrderlyInv, Orderly
<1>4. CASE Tail(q.todo) = <<>>
  <2>1. After(q) = Idle /\ Idle.todo = <<>>
    BY <1>4 DEF After, Idle
  <2> QED BY <1>1, <1>2, <1>3, <1>4, <2>1 DEF Orderly
<1>5. CASE Tail(q.todo) # <<>>
  <2>1. After(q) = [q EXCEPT !.todo = Tail(q.todo)]
    BY <1>5 DEF After
  <2>2. After(q).todo = Tail(q.todo) /\ After(q).op = req[w].op
    BY <2>1 DEF Request, GoesOn
  <2>3. req[w].op \notin AtRest
    BY DEF OrderlyInv, Orderly
  <2> QED BY <1>1, <1>2, <1>3, <2>1, <2>2, <2>3 DEF Orderly
<1> QED BY <1>4, <1>5

\* A worker that serves nothing, or has just read a request, is orderly.
LEMMA StartsOrderly ==
    /\ Orderly(Idle) /\ Idle.todo = <<>>
    /\ \A r : Starts(r) => r.todo \in Seq(Calls) /\ Whole(r.todo) /\ Orderly(r)
<1>1. Idle.todo = <<>> /\ <<>> \in Plans
  BY PlanMembers DEF Idle
<1> QED BY <1>1, PlansOrdered DEF Starts, Orderly, Ordered, Whole

\* What a step does to the requests: a worker at rest reads one, one makes a
\* call or is cut off, or all stay as they are.
LEMMA StepShape ==
    ASSUME IInv, [Next]_vars
    PROVE  \/ \E w \in Workers : \E r : /\ Handle(w) /\ req[w].op \in AtRest
                                        /\ Starts(r) /\ req' = [req EXCEPT ![w] = r]
           \/ \E w \in Workers : Call(w)
           \/ \E w \in Workers : Interrupt(w)
           \/ req' = req /\ UNCHANGED <<faultVars, tokenVars, historyVars, backupVars>>
              /\ ((\E ns \in Namespaces : Expire(ns)) \/ UNCHANGED otpVars)
<1>1. ASSUME NEW w \in Workers, Handle(w)
      PROVE  \E r : /\ Handle(w) /\ req[w].op \in AtRest
                    /\ Starts(r) /\ req' = [req EXCEPT ![w] = r]
  BY <1>1, HandlerStarts DEF IInv, TypeOK, Serve
<1>2. ASSUME NEW ns \in Namespaces, OtpExpire(ns)
      PROVE  req' = req /\ UNCHANGED <<faultVars, tokenVars, historyVars, backupVars>> /\ Expire(ns)
  BY <1>2 DEF OtpExpire
<1>3. CASE Tick
  BY <1>3 DEF Tick
<1>4. CASE UNCHANGED vars
  BY <1>4 DEF vars
<1> QED BY <1>1, <1>2, <1>3, <1>4 DEF Next

\* No step breaks the order.
LEMMA StepOrderly == ASSUME IInv, OrderlyInv, [Next]_vars PROVE OrderlyInv'
<1>0. req \in [Workers -> Request]
  BY DEF IInv, TypeOK
<1>1. ASSUME NEW w \in Workers, NEW r, Orderly(r), req' = [req EXCEPT ![w] = r]
      PROVE  OrderlyInv'
  BY <1>0, <1>1 DEF OrderlyInv, Orderly
<1>2. ASSUME NEW w \in Workers, Call(w) PROVE OrderlyInv'
  <2>1. req[w].todo # <<>> /\ req[w] \in Request
    BY <1>0, <1>2, CallShape
  <2>2. CASE Ends(w)
    BY <1>1, <2>2, StartsOrderly DEF Ends, Fail, Serve
  <2>3. ASSUME NEW q \in Request, GoesOn(w, q) PROVE OrderlyInv'
    BY <1>1, <2>1, <2>3, GoingOn
  <2>4. ASSUME NEW t \in req[w].toks, Serve(w, [req[w] EXCEPT !.toks = @ \ {t}])
        PROVE  OrderlyInv'
    <3> DEFINE r == [req[w] EXCEPT !.toks = @ \ {t}]
    <3>1. r.todo = req[w].todo /\ r.op = req[w].op
      BY <2>1 DEF Request
    <3>2. Orderly(r)
      BY <3>1 DEF OrderlyInv, Orderly
    <3>3. req' = [req EXCEPT ![w] = r]
      BY <2>4 DEF Serve
    <3> HIDE DEF r
    <3> QED BY <1>1, <3>2, <3>3
  <2> QED BY <1>2, <2>2, <2>3, <2>4, CallShape DEF Loops
<1>3. ASSUME NEW w \in Workers, Interrupt(w) PROVE OrderlyInv'
  BY <1>1, <1>3, StartsOrderly DEF Interrupt
<1>4. CASE req' = req
  BY <1>4 DEF OrderlyInv, Orderly
<1> QED BY <1>1, <1>2, <1>3, <1>4, StepShape, StartsOrderly

\* How a request comes to the second call of a pair: it was there, or it has
\* just made the first.
LEMMA Arrives ==
    ASSUME IInv, OrderlyInv, [Next]_vars, NEW a, NEW b \in Seconds,
           NEW w \in Workers, Pair(a, b, req[w].todo), AtCall(w, b)'
    PROVE  \/ AtCall(w, b) /\ req'[w] = req[w]
           \/ /\ AtCall(w, a) /\ Call(w)
              /\ \E q \in Request : GoesOn(w, q) /\ req'[w] = [q EXCEPT !.todo = Tail(q.todo)]
           \/ b = "blacklist_each" /\ Loops(w)
<1>0. req[w] \in Request /\ req \in [Workers -> Request] /\ req[w].todo \in Seq(Calls)
  BY DEF IInv, TypeOK, Request
<1>1. req'[w].todo # <<>> /\ Head(req'[w].todo) = b
  BY DEF AtCall
<1>2. CASE req'[w] = req[w]
  BY <1>1, <1>2 DEF AtCall
<1>3. ASSUME NEW v \in Workers, NEW r, req' = [req EXCEPT ![v] = r], v # w
      PROVE  req'[w] = req[w]
  BY <1>0, <1>3
<1>4. ASSUME NEW v \in Workers, NEW r, Starts(r), req' = [req EXCEPT ![v] = r]
      PROVE  req'[w] = req[w]
  <2>1. CASE v = w
    <3>1. req'[w] = r /\ r.todo \in Seq(Calls) /\ Whole(r.todo)
      BY <1>0, <1>4, <2>1, StartsOrderly
    <3>2. r.todo # <<>> => Head(r.todo) = r.todo[1]
      BY <3>1
    <3> QED BY <1>1, <3>1, <3>2 DEF Whole
  <2> QED BY <1>3, <1>4, <2>1
<1>5. ASSUME NEW v \in Workers, Call(v), v # w PROVE req'[w] = req[w]
  <2>1. \E r : req' = [req EXCEPT ![v] = r]
    BY <1>5, CallShape DEF Ends, Fail, GoesOn, ProceedWith, Loops, Serve
  <2> QED BY <1>3, <1>5, <2>1
<1>6. CASE Call(w)
  <2>1. req[w].todo # <<>>
    BY <1>6, CallShape
  <2>2. ~Ends(w)
    BY <1>0, <1>1, StartsOrderly DEF Ends, Fail, Serve
  <2>3. ASSUME NEW q \in Request, GoesOn(w, q)
        PROVE  /\ AtCall(w, a) /\ GoesOn(w, q)
               /\ req'[w] = [q EXCEPT !.todo = Tail(q.todo)]
    <3>1. req'[w] = After(q) /\ After(q).todo = Tail(req[w].todo)
      BY <2>1, <2>3, GoingOn
    <3>2. Head(req[w].todo) = a
      BY <1>0, <1>1, <2>1, <3>1, PairHeads
    <3>3. After(q) = [q EXCEPT !.todo = Tail(q.todo)]
      BY <1>1, <2>1, <2>3, <3>1, GoingOn
    <3> QED BY <2>1, <2>3, <3>1, <3>2, <3>3 DEF AtCall
  <2>4. CASE Loops(w)
    <3>1. PICK t \in req[w].toks : Serve(w, [req[w] EXCEPT !.toks = @ \ {t}])
      BY <2>4 DEF Loops
    <3>2. req'[w].todo = req[w].todo
      BY <1>0, <3>1 DEF Serve, Request
    <3>3. Head(req[w].todo) = "blacklist_each"
      BY <2>4 DEF Loops, AtCall
    <3> QED BY <1>1, <2>4, <3>2, <3>3
  <2> QED BY <1>6, <2>2, <2>3, <2>4, CallShape
<1>7. ASSUME NEW v \in Workers, Interrupt(v) PROVE req'[w] = req[w]
  <2>1. req' = [req EXCEPT ![v] = Idle]
    BY <1>7 DEF Interrupt
  <2>2. v # w
    BY <1>0, <1>1, <2>1, StartsOrderly
  <2> QED BY <1>3, <2>1, <2>2
<1> QED BY <1>2, <1>4, <1>5, <1>6, <1>7, StepShape

\* Which action a call is.
LEMMA CallIs ==
    ASSUME NEW w \in Workers, Call(w)
    PROVE  /\ AtCall(w, "tokens_query") => TokensQuery(w)
           /\ AtCall(w, "blacklist_each") => BlacklistEach(w)
           /\ AtCall(w, "otp_get") => OtpGet(w)
           /\ AtCall(w, "otp_delete") => OtpDelete(w)
           /\ AtCall(w, "history_insert") => HistoryInsert(w)
           /\ AtCall(w, "history_list") => HistoryList(w)
           /\ AtCall(w, "history_prune") => HistoryPrune(w)
           /\ AtCall(w, "codes_delete") => CodesDelete(w)
           /\ AtCall(w, "codes_create") => CodesCreate(w)
           /\ AtCall(w, "codes_find") => CodesFind(w)
           /\ AtCall(w, "code_save") => CodeSave(w)
  BY DEF Call, AtCall, UpdateUser, OtpGet, OtpDelete, OtpSet, HistoryCheck, HistoryInsert,
     HistoryList, HistoryPrune, CheckUserActive, IssueToken, SessionCheck, SessionCreate,
     BlacklistToken, SessionOff, Touch, TokensQuery, BlacklistEach, SessionsOff,
     CodesDelete, CodesCreate, CodesFind, CodeSave

\* The calls a request has yet to make are in order in every state.
LEMMA RequestsOrderly == Spec => [](IInv /\ OrderlyInv)
<1>1. Init => OrderlyInv
  BY StartsOrderly DEF Init, OrderlyInv
<1>2. (IInv /\ OrderlyInv) /\ [Next]_vars => (IInv /\ OrderlyInv)'
  BY StepIInv, StepOrderly
<1> QED BY <1>1, <1>2, InitIInv, PTL DEF Spec

-----------------------------------------------------------------------------
(***************************************************************************)
(* Sweeps.                                                                 *)
(***************************************************************************)

\* No step takes a token off the blacklist.
LEMMA BlacklistGrows == ASSUME [Next]_vars PROVE blacklisted \subseteq blacklisted'
<1>1. ASSUME NEW w \in Workers, Handle(w) PROVE blacklisted' = blacklisted
  BY <1>1, HandlerLeaves
<1>2. ASSUME NEW w \in Workers, Call(w) PROVE blacklisted \subseteq blacklisted'
  <2>1. UNCHANGED tokenVars => blacklisted' = blacklisted
    BY DEF tokenVars
  <2> QED
    BY <1>2, <2>1
    DEF Call, UpdateUser, OtpGet, OtpDelete, OtpSet, HistoryCheck, HistoryInsert,
        HistoryList, HistoryPrune, CheckUserActive, IssueToken, RecordOutstanding,
        SessionCheck, SessionCreate, CreateSession, BlacklistToken, Blacklist, SessionOff,
        DeactivateSession, Touch, TouchSession, TokensQuery, BlacklistEach, SessionsOff,
        DeactivateAllSessions, CodesDelete, CodesCreate, CodesFind, CodeSave
<1> QED BY <1>1, <1>2 DEF Next, Interrupt, OtpExpire, Tick, vars, tokenVars

\* What a query of the outstanding tokens leaves in its request.
LEMMA QueryTells ==
    ASSUME IInv, OrderlyInv, NEW w \in Workers, TokensQuery(w), req'[w].todo # <<>>
    PROVE  req'[w].seen = outstanding /\ req'[w].toks = Outstanding
<1> DEFINE q == [req[w] EXCEPT !.seen = outstanding, !.toks = Outstanding]
<1>0. req[w] \in Request
  BY DEF IInv, TypeOK
<1>1. outstanding \in 0..MaxTokens /\ Outstanding \in SUBSET (1..MaxTokens)
  BY TokenAssumption DEF IInv, TypeOK, TokenTypeOK, Outstanding
<1>2. /\ q \in Request /\ q.op = req[w].op /\ q.todo = req[w].todo
      /\ q.ns = req[w].ns /\ q.code = req[w].code
      /\ q.backup = req[w].backup /\ q.entity = req[w].entity
      /\ q.seen = outstanding /\ q.toks = Outstanding
  BY <1>0, <1>1 DEF Request
<1>3. ProceedWith(w, q) /\ req[w].todo # <<>>
  BY DEF TokensQuery, AtCall
<1> HIDE DEF q
<1>4. GoesOn(w, q)
  BY <1>2, <1>3 DEF GoesOn
<1>5. req'[w] = [q EXCEPT !.todo = Tail(q.todo)]
  BY <1>2, <1>3, <1>4, GoingOn
<1> QED BY <1>2, <1>5 DEF Request

\* A query sees every token; the loop takes one off its list by blacklisting it,
\* and is left when the list is empty.
LEMMA StepSweeps ==
    ASSUME IInv, OrderlyInv, SweepComplete, [Next]_vars
    PROVE  SweepComplete'
<1> SUFFICES ASSUME NEW w \in Workers
             PROVE  /\ AtCall(w, "blacklist_each")' =>
                          1..req'[w].seen \subseteq blacklisted' \cup req'[w].toks
                    /\ AtCall(w, "sessions_off")' => 1..req'[w].seen \subseteq blacklisted'
  BY DEF SweepComplete
<1>0. req[w] \in Request /\ req \in [Workers -> Request]
  BY DEF IInv, TypeOK
<1>1. blacklisted \subseteq blacklisted'
  BY BlacklistGrows
<1>2. /\ Pair("tokens_query", "blacklist_each", req[w].todo)
      /\ Pair("blacklist_each", "sessions_off", req[w].todo)
      /\ "blacklist_each" \in Seconds /\ "sessions_off" \in Seconds
  BY DEF OrderlyInv, Orderly, Ordered, Linked, Seconds
<1>3. ASSUME AtCall(w, "blacklist_each")'
      PROVE  1..req'[w].seen \subseteq blacklisted' \cup req'[w].toks
  <2>1. CASE AtCall(w, "blacklist_each") /\ req'[w] = req[w]
    BY <1>1, <2>1 DEF SweepComplete
  <2>2. CASE AtCall(w, "tokens_query") /\ Call(w)
    <3>1. TokensQuery(w) /\ req'[w].todo # <<>>
      BY <1>3, <2>2, CallIs DEF AtCall
    <3> QED BY <3>1, QueryTells DEF Outstanding
  <2>3. CASE Loops(w)
    <3>1. PICK t \in req[w].toks : /\ Blacklist(t)
                                   /\ Serve(w, [req[w] EXCEPT !.toks = @ \ {t}])
      BY <2>3 DEF Loops
    <3>2. req'[w].seen = req[w].seen /\ req'[w].toks = req[w].toks \ {t}
      BY <1>0, <3>1 DEF Serve, Request
    <3>3. blacklisted' = blacklisted \cup {t}
      BY <3>1 DEF Blacklist
    <3>4. 1..req[w].seen \subseteq blacklisted \cup req[w].toks
      BY <2>3 DEF Loops, SweepComplete
    <3> QED BY <3>2, <3>3, <3>4
  <2> QED BY <1>2, <1>3, <2>1, <2>2, <2>3, Arrives
<1>4. ASSUME AtCall(w, "sessions_off")' PROVE 1..req'[w].seen \subseteq blacklisted'
  <2>1. CASE AtCall(w, "sessions_off") /\ req'[w] = req[w]
    BY <1>1, <2>1 DEF SweepComplete
  <2>2. CASE AtCall(w, "blacklist_each") /\ Call(w)
    <3>1. BlacklistEach(w) /\ req'[w].todo # <<>>
      BY <1>4, <2>2, CallIs DEF AtCall
    <3>2. ASSUME NEW t \in req[w].toks, Serve(w, [req[w] EXCEPT !.toks = @ \ {t}])
          PROVE  FALSE
      <4>1. req'[w].todo = req[w].todo
        BY <1>0, <3>2 DEF Serve, Request
      <4> QED BY <1>4, <2>2, <4>1 DEF AtCall
    <3>3. req[w].toks = {} /\ Proceed(w) /\ UNCHANGED tokenVars
      BY <3>1, <3>2 DEF BlacklistEach
    <3>4. GoesOn(w, req[w]) /\ req[w].todo # <<>>
      BY <2>2, <3>3 DEF Proceed, GoesOn, AtCall
    <3>5. req'[w] = [req[w] EXCEPT !.todo = Tail(req[w].todo)]
      BY <1>0, <3>1, <3>4, GoingOn
    <3>6. req'[w].seen = req[w].seen
      BY <1>0, <3>5 DEF Request
    <3>7. 1..req[w].seen \subseteq blacklisted \cup {}
      BY <2>2, <3>3 DEF SweepComplete
    <3> QED BY <1>1, <3>6, <3>7
  <2> QED BY <1>2, <1>4, <2>1, <2>2, Arrives
<1> QED BY <1>3, <1>4

\* However many requests issue, rotate and revoke tokens while a sweep goes
\* through those its query returned, none of them is left out.
THEOREM SweepsAlwaysComplete == Spec => []SweepComplete
<1>1. Init => SweepComplete
  BY StartsOrderly DEF Init, SweepComplete, AtCall
<1> QED BY <1>1, StepSweeps, RequestsOrderly, PTL DEF Spec

-----------------------------------------------------------------------------
(***************************************************************************)
(* One-time passwords.                                                     *)
(***************************************************************************)

\* A key holds a code that has been generated and not used up, and no two keys
\* hold the same; a request about to delete has compared a code that, if a key
\* still holds it, is under the key it will delete.
OtpInv ==
    /\ \A ns \in Namespaces : otp[ns] <= minted
    /\ \A ns \in Namespaces : otp[ns] # 0 =>
          otp[ns] \notin deleted /\ \A m \in Namespaces \ {ns} : otp[m] # otp[ns]
    /\ deleted \subseteq 1..minted
    /\ \A w \in Workers : AtCall(w, "otp_delete") =>
          /\ req[w].code \in 1..minted
          /\ \A ns \in Namespaces \ {req[w].ns} : otp[ns] # req[w].code

\* The steps that touch the codes.
LEMMA OtpSteps ==
    ASSUME [Next]_vars
    PROVE  \/ UNCHANGED otpVars
           \/ \E w \in Workers : OtpGet(w) \/ OtpDelete(w) \/ OtpSet(w)
           \/ \E ns \in Namespaces : Expire(ns)
<1>1. ASSUME NEW w \in Workers, Handle(w) PROVE UNCHANGED otpVars
  BY <1>1, HandlerLeaves
<1>2. ASSUME NEW w \in Workers, Call(w), ~OtpGet(w), ~OtpDelete(w), ~OtpSet(w)
      PROVE  UNCHANGED otpVars
  BY <1>2
  DEF Call, UpdateUser, HistoryCheck, HistoryInsert, HistoryList, HistoryPrune,
      CheckUserActive, IssueToken, SessionCheck, SessionCreate, BlacklistToken, SessionOff,
      Touch, TokensQuery, BlacklistEach, SessionsOff, CodesDelete, CodesCreate, CodesFind,
      CodeSave
<1> QED BY <1>1, <1>2 DEF Next, Interrupt, OtpExpire, Tick, vars

\* A request that goes on after the comparison has a code that matched.
LEMMA GetMatched ==
    ASSUME IInv, NEW w \in Workers, OtpGet(w), req'[w].todo # <<>>
    PROVE  Matches(req[w].ns, req[w].code) /\ Accept(req[w].code) /\ Proceed(w)
<1>1. ~Fail(w)
  BY StartsOrderly DEF Fail, Serve, IInv, TypeOK
<1> QED BY <1>1 DEF OtpGet

\* Codes are numbered as they are stored, and one that was deleted never returns.
LEMMA StepOtp == ASSUME IInv, OrderlyInv, OtpInv, [Next]_vars PROVE OtpInv'
<1>0. /\ otp \in [Namespaces -> 0..MaxCodes] /\ minted \in 0..MaxCodes
      /\ \A w \in Workers : req[w].ns \in Namespaces /\ req[w].code \in 0..MaxCodes
      /\ MaxCodes \in Nat
  BY OtpAssumption DEF IInv, TypeOK, OtpTypeOK, Request
<1> DEFINE Sound(w) == /\ req[w].code \in 1..minted
                       /\ \A ns \in Namespaces \ {req[w].ns} : otp[ns] # req[w].code
<1>1. ASSUME NEW w \in Workers, AtCall(w, "otp_delete")'
      PROVE  req'[w].code = req[w].code /\ req'[w].ns = req[w].ns /\ Sound(w)
  <2>1. CASE AtCall(w, "otp_delete") /\ req'[w] = req[w]
    BY <2>1 DEF OtpInv
  <2>2. ASSUME AtCall(w, "otp_get"), Call(w), NEW q \in Request, GoesOn(w, q),
               req'[w] = [q EXCEPT !.todo = Tail(q.todo)]
        PROVE  req'[w].code = req[w].code /\ req'[w].ns = req[w].ns /\ Sound(w)
    <3>1. OtpGet(w) /\ req'[w].todo # <<>>
      BY <1>1, <2>2, CallIs DEF AtCall
    <3>2. Matches(req[w].ns, req[w].code)
      BY <3>1, GetMatched
    <3>3. Sound(w)
      BY <1>0, <3>2 DEF OtpInv, Matches
    <3> QED BY <2>2, <3>3 DEF GoesOn, Request
  <2>3. Pair("otp_get", "otp_delete", req[w].todo) /\ "otp_delete" \in Seconds
    BY DEF OrderlyInv, Orderly, Ordered, Linked, Seconds
  <2> QED BY <1>1, <2>1, <2>2, <2>3, Arrives
<1>2. ASSUME minted' \in Nat, minted <= minted',
             \A ns \in Namespaces : otp'[ns] = otp[ns] \/ otp'[ns] = 0 \/ otp'[ns] > minted
      PROVE  \A w \in Workers : AtCall(w, "otp_delete")' =>
                /\ req'[w].code \in 1..minted'
                /\ \A ns \in Namespaces \ {req'[w].ns} : otp'[ns] # req'[w].code
  BY <1>0, <1>1, <1>2
<1>3. CASE UNCHANGED <<otp, minted, deleted>>
  BY <1>0, <1>2, <1>3 DEF OtpInv
<1>4. ASSUME NEW w \in Workers, OtpGet(w) PROVE OtpInv'
  BY <1>3, <1>4 DEF OtpGet, Accept, otpVars
<1>5. ASSUME NEW w \in Workers, OtpDelete(w) PROVE OtpInv'
  <2>1. /\ otp' = [otp EXCEPT ![req[w].ns] = 0] /\ minted' = minted
        /\ deleted' = deleted \cup {req[w].code} /\ Sound(w)
    BY <1>5 DEF OtpDelete, Delete, OtpInv
  <2>2. \A ns \in Namespaces : otp'[ns] = IF ns = req[w].ns THEN 0 ELSE otp[ns]
    BY <1>0, <2>1
  <2>3. \A ns \in Namespaces : otp'[ns] <= minted'
    BY <1>0, <2>1, <2>2 DEF OtpInv
  <2>4. \A ns \in Namespaces : otp'[ns] # 0 =>
           otp'[ns] \notin deleted' /\ \A m \in Namespaces \ {ns} : otp'[m] # otp'[ns]
    <3> SUFFICES ASSUME NEW ns \in Namespaces, otp'[ns] # 0
                 PROVE  /\ otp'[ns] \notin deleted'
                        /\ \A m \in Namespaces \ {ns} : otp'[m] # otp'[ns]
      OBVIOUS
    <3>1. ns # req[w].ns /\ otp'[ns] = otp[ns] /\ otp[ns] # req[w].code
      BY <1>0, <2>1, <2>2
    <3>2. otp[ns] \notin deleted /\ \A m \in Namespaces \ {ns} : otp[m] # otp[ns]
      BY <3>1 DEF OtpInv
    <3> QED BY <2>1, <2>2, <3>1, <3>2
  <2>5. deleted' \subseteq 1..minted'
    BY <2>1 DEF OtpInv
  <2>6. \A v \in Workers : AtCall(v, "otp_delete")' =>
           /\ req'[v].code \in 1..minted'
           /\ \A ns \in Namespaces \ {req'[v].ns} : otp'[ns] # req'[v].code
    BY <1>0, <1>2, <2>1, <2>2
  <2> QED BY <2>3, <2>4, <2>5, <2>6 DEF OtpInv
<1>6. ASSUME NEW w \in Workers, OtpSet(w) PROVE OtpInv'
  <2>1. /\ otp' = [otp EXCEPT ![req[w].ns] = minted + 1] /\ minted' = minted + 1
        /\ deleted' = deleted
    BY <1>6 DEF OtpSet, Setex
  <2>2. \A ns \in Namespaces : otp'[ns] = IF ns = req[w].ns THEN minted + 1 ELSE otp[ns]
    BY <1>0, <2>1
  <2> QED BY <1>0, <1>2, <2>1, <2>2 DEF OtpInv
<1>7. ASSUME NEW ns \in Namespaces, Expire(ns) PROVE OtpInv'
  <2>1. otp' = [otp EXCEPT ![ns] = 0] /\ minted' = minted /\ deleted' = deleted
    BY <1>7 DEF Expire
  <2>2. \A m \in Namespaces : otp'[m] = IF m = ns THEN 0 ELSE otp[m]
    BY <1>0, <2>1
  <2> QED BY <1>0, <1>2, <2>1, <2>2 DEF OtpInv
<1> QED BY <1>3, <1>4, <1>5, <1>6, <1>7, OtpSteps DEF otpVars

\* The three invariants together.
LEMMA CodesSound == Spec => [](IInv /\ OrderlyInv /\ OtpInv)
<1>1. Init => OtpInv
  BY StartsOrderly, OtpAssumption DEF Init, OtpInit, OtpInv, AtCall
<1> QED BY <1>1, StepOtp, RequestsOrderly, PTL DEF Spec

\* A code is accepted only while a key holds it.
LEMMA AcceptedStep ==
    ASSUME IInv, OtpInv, [Next]_vars, NEW c \in 1..MaxCodes
    PROVE  \/ accepted'[c] = accepted[c]
           \/ /\ accepted'[c] = accepted[c] + 1 /\ c \notin deleted
              /\ deleted' = deleted
              /\ \E w \in Workers : OtpGet(w) /\ Proceed(w) /\ req[w].code = c
<1>0. accepted \in [1..MaxCodes -> Nat] /\ otp \in [Namespaces -> 0..MaxCodes]
  BY DEF IInv, TypeOK, OtpTypeOK
<1>1. ASSUME NEW w \in Workers, OtpGet(w)
      PROVE  \/ accepted' = accepted
             \/ /\ Matches(req[w].ns, req[w].code) /\ Proceed(w)
                /\ accepted' = [accepted EXCEPT ![req[w].code] = @ + 1] /\ deleted' = deleted
  BY <1>1 DEF OtpGet, Accept, otpVars
<1>2. ASSUME NEW w \in Workers, Matches(req[w].ns, req[w].code)
      PROVE  req[w].code \notin deleted /\ req[w].code \in 1..MaxCodes
  <2>1. req[w].ns \in Namespaces
    BY DEF IInv, TypeOK, Request
  <2>2. otp[req[w].ns] \in 1..MaxCodes
    BY <1>0, <1>2, <2>1, OtpAssumption DEF Matches
  <2> QED BY <1>2, <2>1, <2>2 DEF OtpInv, Matches
<1>3. ASSUME NEW w \in Workers, OtpDelete(w) \/ OtpSet(w) PROVE accepted' = accepted
  BY <1>3 DEF OtpDelete, Delete, OtpSet, Setex
<1>4. ASSUME NEW ns \in Namespaces, Expire(ns) PROVE accepted' = accepted
  BY <1>4 DEF Expire
<1>5. ASSUME NEW w \in Workers, OtpGet(w)
      PROVE  \/ accepted'[c] = accepted[c]
             \/ /\ accepted'[c] = accepted[c] + 1 /\ c \notin deleted
                /\ deleted' = deleted /\ Proceed(w) /\ req[w].code = c
  BY <1>0, <1>1, <1>2, <1>5
<1> QED BY <1>3, <1>4, <1>5, OtpSteps DEF otpVars

\* Once a request has finished consuming a code, the code lets nobody through,
\* whatever codes are stored, expire and are deleted under the same keys.
THEOREM SpentCodesStaySpent == Spec => SpentCodeStaysSpent
<1> DEFINE Spent == \A c \in deleted : accepted'[c] = accepted[c]
<1>1. IInv /\ OrderlyInv /\ OtpInv /\ [Next]_vars => [Spent]_otpVars
  <2> SUFFICES ASSUME IInv, OtpInv, [Next]_vars, NEW c \in deleted
               PROVE  accepted'[c] = accepted[c]
    OBVIOUS
  <2>1. c \in 1..MaxCodes
    BY OtpAssumption DEF IInv, TypeOK, OtpTypeOK, OtpInv
  <2> QED BY <2>1, AcceptedStep
<1> QED BY <1>1, CodesSound, PTL DEF Spec, SpentCodeStaysSpent

\* The requests that have compared this code and not deleted its key.
Holders(c) == {w \in Workers : AtCall(w, "otp_delete") /\ req[w].code = c}

\* A code that has not been used up has let through the requests that hold it
\* and some that were cut off.
ReuseInv ==
    \A c \in 1..MaxCodes : \/ /\ c \notin deleted
                              /\ accepted[c] <= Cardinality(Holders(c)) + interrupted
                           \/ /\ c \in deleted
                              /\ accepted[c] <= Cardinality(Workers) + interrupted

\* Requests that hold a code hold it until they delete its key or are cut off.
LEMMA HoldersStay ==
    ASSUME IInv, OrderlyInv, [Next]_vars, NEW c \in 1..MaxCodes, c \notin deleted'
    PROVE  \/ interrupted' = interrupted /\ Holders(c) \subseteq Holders(c)'
           \/ /\ interrupted' = interrupted + 1
              /\ \E w : Holders(c) \ {w} \subseteq Holders(c)'
<1>0. req \in [Workers -> Request]
  BY DEF IInv, TypeOK
<1>1. ASSUME NEW v \in Workers, NEW r, req' = [req EXCEPT ![v] = r]
      PROVE  Holders(c) \ {v} \subseteq Holders(c)'
  BY <1>0, <1>1 DEF Holders, AtCall
<1>2. ASSUME NEW v \in Workers, v \notin Holders(c), interrupted' = interrupted,
             NEW r, req' = [req EXCEPT ![v] = r]
      PROVE  interrupted' = interrupted /\ Holders(c) \subseteq Holders(c)'
  BY <1>1, <1>2
<1>3. ASSUME NEW v \in Workers, NEW r, Handle(v), req[v].op \in AtRest,
             req' = [req EXCEPT ![v] = r]
      PROVE  interrupted' = interrupted /\ Holders(c) \subseteq Holders(c)'
  <2>1. v \notin Holders(c)
    BY <1>3 DEF Holders, AtCall, OrderlyInv, Orderly
  <2>2. interrupted' = interrupted
    BY <1>3, HandlerLeaves DEF faultVars
  <2> QED BY <1>2, <1>3, <2>1, <2>2
<1>4. ASSUME NEW v \in Workers, Call(v)
      PROVE  interrupted' = interrupted /\ Holders(c) \subseteq Holders(c)'
  <2>1. v \notin Holders(c)
    <3>1. OtpDelete(v) => req[v].code # c
      BY DEF OtpDelete, Delete
    <3> QED BY <1>4, <3>1, CallIs DEF Holders
  <2>2. \E r : req' = [req EXCEPT ![v] = r] /\ interrupted' = interrupted
    BY <1>4, CallShape DEF Ends, Fail, GoesOn, ProceedWith, Loops, Serve, faultVars
  <2> QED BY <1>2, <2>1, <2>2
<1>5. ASSUME NEW v \in Workers, Interrupt(v)
      PROVE  interrupted' = interrupted + 1 /\ Holders(c) \ {v} \subseteq Holders(c)'
  BY <1>1, <1>5 DEF Interrupt
<1>6. CASE req' = req /\ UNCHANGED faultVars
  BY <1>6 DEF Holders, AtCall, faultVars
<1> QED BY <1>3, <1>4, <1>5, <1>6, StepShape

\* A request that the comparison lets through becomes a holder of its code.
LEMMA GetHolds ==
    ASSUME IInv, OrderlyInv, NEW w \in Workers, OtpGet(w), Proceed(w),
           NEW c \in 1..MaxCodes, req[w].code = c
    PROVE  w \notin Holders(c) /\ Holders(c) \cup {w} \subseteq Holders(c)'
<1>0. req \in [Workers -> Request] /\ req[w].todo \in Seq(Calls)
  BY DEF IInv, TypeOK, Request
<1>1. req[w].todo # <<>> /\ Head(req[w].todo) = "otp_get"
  BY DEF OtpGet, AtCall
<1>2. GoesOn(w, req[w])
  BY DEF Proceed, GoesOn
<1>3. Tail(req[w].todo) # <<>> /\ Head(Tail(req[w].todo)) = "otp_delete"
  BY <1>0, <1>1, PairHeads DEF OrderlyInv, Orderly, Ordered, Linked
<1>4. /\ req' = [req EXCEPT ![w] = After(req[w])] /\ req'[w] = After(req[w])
      /\ After(req[w]) = [req[w] EXCEPT !.todo = Tail(req[w].todo)]
  BY <1>0, <1>1, <1>2, <1>3, GoingOn
<1>5. req'[w].todo = Tail(req[w].todo) /\ req'[w].code = req[w].code
  BY <1>0, <1>4 DEF Request
<1>6. \A v \in Workers \ {w} : req'[v] = req[v]
  BY <1>0, <1>4
<1> QED BY <1>1, <1>3, <1>5, <1>6 DEF Holders, AtCall

\* Who is let through holds the code; whoever gives it up deletes it or is cut off.
LEMMA StepReuse ==
    ASSUME IInv, OrderlyInv, OtpInv, ReuseInv, [Next]_vars
    PROVE  ReuseInv'
<1> SUFFICES ASSUME NEW c \in 1..MaxCodes
             PROVE  \/ /\ c \notin deleted'
                       /\ accepted'[c] <= Cardinality(Holders(c)') + interrupted'
                    \/ /\ c \in deleted'
                       /\ accepted'[c] <= Cardinality(Workers) + interrupted'
  BY DEF ReuseInv
<1>0. /\ accepted[c] \in Nat /\ interrupted \in Nat /\ interrupted' \in Nat
  BY StepIInv DEF IInv, TypeOK, OtpTypeOK, FaultTypeOK
<1>1. \A S : S \subseteq Workers =>
         IsFiniteSet(S) /\ Cardinality(S) \in Nat /\ Cardinality(S) <= Cardinality(Workers)
  BY WorkersAssumption, FS_Subset, FS_CardinalityType
<1>2. Holders(c) \subseteq Workers /\ Holders(c)' \subseteq Workers
  BY DEF Holders
<1>3. interrupted' >= interrupted
  <2>1. ASSUME NEW w \in Workers, Handle(w) PROVE interrupted' = interrupted
    BY <2>1, HandlerLeaves DEF faultVars
  <2>2. ASSUME NEW w \in Workers, Call(w) PROVE interrupted' = interrupted
    BY <2>2, CallShape DEF Ends, Fail, GoesOn, ProceedWith, Loops, Serve, faultVars
  <2>3. ASSUME NEW w \in Workers, Interrupt(w) PROVE interrupted' = interrupted + 1
    BY <2>3 DEF Interrupt
  <2> QED BY <1>0, <2>1, <2>2, <2>3, StepShape DEF faultVars
<1>4. accepted[c] <= Cardinality(Workers) + interrupted
  BY <1>0, <1>1, <1>2 DEF ReuseInv
<1>5. CASE accepted'[c] = accepted[c] /\ c \in deleted'
  BY <1>0, <1>1, <1>3, <1>4, <1>5
<1>6. CASE accepted'[c] = accepted[c] /\ c \notin deleted'
  <2>1. c \notin deleted /\ accepted[c] <= Cardinality(Holders(c)) + interrupted
    <3>1. deleted \subseteq deleted'
      BY OtpSteps DEF OtpGet, OtpDelete, OtpSet, Accept, Delete, Setex, Expire, otpVars
    <3> QED BY <1>6, <3>1 DEF ReuseInv
  <2>2. CASE interrupted' = interrupted /\ Holders(c) \subseteq Holders(c)'
    <3>1. Cardinality(Holders(c)) <= Cardinality(Holders(c)')
      BY <1>1, <1>2, <2>2, FS_Subset
    <3> QED BY <1>0, <1>1, <1>2, <1>6, <2>1, <2>2, <3>1
  <2>3. ASSUME interrupted' = interrupted + 1, NEW w, Holders(c) \ {w} \subseteq Holders(c)'
        PROVE  accepted'[c] <= Cardinality(Holders(c)') + interrupted'
    <3>1. Cardinality(Holders(c) \ {w}) <= Cardinality(Holders(c)')
      BY <1>1, <1>2, <2>3, FS_Subset
    <3>2. Cardinality(Holders(c)) <= Cardinality(Holders(c) \ {w}) + 1
      BY <1>1, <1>2, FS_RemoveElement
    <3>3. Cardinality(Holders(c) \ {w}) \in Nat
      BY <1>1, <1>2
    <3> QED BY <1>0, <1>1, <1>2, <1>6, <2>1, <2>3, <3>1, <3>2, <3>3
  <2> QED BY <1>6, <2>2, <2>3, HoldersStay
<1>7. ASSUME accepted'[c] = accepted[c] + 1, c \notin deleted, deleted' = deleted,
             NEW w \in Workers, OtpGet(w), Proceed(w), req[w].code = c
      PROVE  c \notin deleted' /\ accepted'[c] <= Cardinality(Holders(c)') + interrupted'
  <2>1. accepted[c] <= Cardinality(Holders(c)) + interrupted
    BY <1>7 DEF ReuseInv
  <2>2. w \notin Holders(c) /\ Holders(c) \cup {w} \subseteq Holders(c)'
    BY <1>7, GetHolds
  <2>3. Cardinality(Holders(c) \cup {w}) = Cardinality(Holders(c)) + 1
    BY <1>1, <1>2, <2>2, FS_AddElement
  <2>4. Cardinality(Holders(c) \cup {w}) <= Cardinality(Holders(c)')
    BY <1>1, <1>2, <2>2, FS_Subset
  <2> QED BY <1>0, <1>1, <1>2, <1>3, <1>7, <2>1, <2>3, <2>4
<1> QED BY <1>5, <1>6, <1>7, AcceptedStep

\* A code lets through no more requests than there are workers and requests
\* that were cut off, for any number of either.
THEOREM CodeReuseAlwaysBounded == Spec => []CodeReuseBounded
<1>1. Init => ReuseInv
  <2> SUFFICES ASSUME Init, NEW c \in 1..MaxCodes
               PROVE  c \notin deleted /\ accepted[c] <= Cardinality(Holders(c)) + interrupted
    BY DEF ReuseInv
  <2>1. accepted[c] = 0 /\ deleted = {} /\ interrupted = 0
    BY DEF Init, OtpInit
  <2>2. Cardinality(Holders(c)) \in Nat
    BY WorkersAssumption, FS_Subset, FS_CardinalityType DEF Holders
  <2> QED BY <2>1, <2>2
<1>2. IInv /\ ReuseInv => CodeReuseBounded
  <2> SUFFICES ASSUME IInv, ReuseInv, NEW c \in 1..MaxCodes
               PROVE  accepted[c] <= Cardinality(Workers) + interrupted
    BY DEF CodeReuseBounded
  <2>1. /\ Holders(c) \subseteq Workers /\ IsFiniteSet(Workers)
        /\ accepted[c] \in Nat /\ interrupted \in Nat
    BY WorkersAssumption DEF Holders, IInv, TypeOK, OtpTypeOK, FaultTypeOK
  <2>2. /\ Cardinality(Holders(c)) \in Nat /\ Cardinality(Workers) \in Nat
        /\ Cardinality(Holders(c)) <= Cardinality(Workers)
    BY <2>1, FS_Subset, FS_CardinalityType
  <2> QED BY <2>1, <2>2 DEF ReuseInv
<1> QED BY <1>1, <1>2, StepReuse, CodesSound, PTL DEF Spec

-----------------------------------------------------------------------------
(***************************************************************************)
(* The password history.                                                   *)
(***************************************************************************)

\* Rows are numbered in the order of their insertion.
IdsInv ==
    /\ \A r \in history : r.id <= recorded
    /\ \A r, s \in history : r.id = s.id => r = s

\* The rows of a set are no more than their numbers.
LEMMA RowsByIds ==
    ASSUME NEW rows, NEW ids, IsFiniteSet(ids), \A r \in rows : r.id \in ids,
           \A r, s \in rows : r.id = s.id => r = s
    PROVE  /\ IsFiniteSet(rows) /\ Cardinality(rows) <= Cardinality(ids)
           /\ Cardinality(rows) \in Nat /\ Cardinality(ids) \in Nat
<1> DEFINE f == [r \in rows |-> r.id]
<1>1. f \in Injection(rows, ids)
  BY DEF Injection, IsInjective
<1> QED BY <1>1, FS_Injection, FS_CardinalityType

\* Rows with numbers of their own are finitely many.
LEMMA RowsFinite ==
    ASSUME NEW rows, \A r \in rows : r.id \in 1..MaxRecords,
           \A r, s \in rows : r.id = s.id => r = s
    PROVE  IsFiniteSet(rows) /\ Cardinality(rows) \in Nat
<1>1. IsFiniteSet(1..MaxRecords)
  BY HistoryAssumption, FS_Interval
<1> QED BY <1>1, RowsByIds

\* The rows inserted after a given one.
LaterThan(k) == {s \in history : s.id > k}

\* They are finitely many.
LEMMA LaterFinite ==
    ASSUME IInv, IdsInv, NEW k
    PROVE  IsFiniteSet(LaterThan(k)) /\ Cardinality(LaterThan(k)) \in Nat
<1>1. LaterThan(k) \subseteq history
  BY DEF LaterThan
<1>2. /\ \A r \in LaterThan(k) : r.id \in 1..MaxRecords
      /\ \A r, s \in LaterThan(k) : r.id = s.id => r = s
  BY <1>1 DEF IInv, TypeOK, HistoryTypeOK, IdsInv
<1> QED BY <1>2, RowsFinite

\* The list of rows to keep has at most HistoryLimit of them: there are fewer
\* rows after each than the limit, and their numbers differ.
LEMMA KeepBounded ==
    ASSUME IInv, IdsInv
    PROVE  IsFiniteSet(IdsToKeep) /\ Cardinality(IdsToKeep) <= HistoryLimit
<1> DEFINE f == [k \in IdsToKeep |-> Cardinality(LaterThan(k))]
<1>0. HistoryLimit \in Nat /\ HistoryLimit > 0
  BY HistoryAssumption
<1>1. \A s \in history : s.id \in Nat
  BY DEF IInv, TypeOK, HistoryTypeOK
<1>2. ASSUME NEW k \in IdsToKeep
      PROVE  /\ k \in Nat /\ \E r \in history : r.id = k
             /\ Cardinality(LaterThan(k)) < HistoryLimit
  <2>1. PICK r \in history : /\ r.id = k
                             /\ Cardinality({s \in history : s.id > r.id}) < HistoryLimit
    BY <1>2 DEF IdsToKeep, MostRecent
  <2> QED BY <1>1, <2>1 DEF LaterThan
<1>3. ASSUME NEW j \in IdsToKeep, NEW k \in IdsToKeep, k < j
      PROVE  Cardinality(LaterThan(j)) # Cardinality(LaterThan(k))
  <2>1. j \in Nat /\ k \in Nat
    BY <1>2
  <2>2. LaterThan(j) \subseteq LaterThan(k)
    BY <1>1, <1>3, <2>1 DEF LaterThan
  <2>3. PICK r \in history : r.id = j
    BY <1>2
  <2>4. r \in LaterThan(k) /\ r \notin LaterThan(j)
    BY <1>3, <2>1, <2>3 DEF LaterThan
  <2> QED BY <2>2, <2>4, LaterFinite, FS_Subset
<1>4. f \in Injection(IdsToKeep, 0..(HistoryLimit - 1))
  <2>1. \A k \in IdsToKeep : Cardinality(LaterThan(k)) \in 0..(HistoryLimit - 1)
    BY <1>0, <1>2, LaterFinite
  <2>2. ASSUME NEW j \in IdsToKeep, NEW k \in IdsToKeep,
               Cardinality(LaterThan(j)) = Cardinality(LaterThan(k))
        PROVE  j = k
    <3>1. j \in Nat /\ k \in Nat
      BY <1>2
    <3>2. ~(j < k) /\ ~(k < j)
      BY <1>3, <2>2
    <3> QED BY <3>1, <3>2
  <2> QED BY <2>1, <2>2 DEF Injection, IsInjective
<1>5. IsFiniteSet(0..(HistoryLimit - 1)) /\ Cardinality(0..(HistoryLimit - 1)) = HistoryLimit
  BY <1>0, FS_Interval
<1> HIDE DEF f
<1> QED BY <1>4, <1>5, FS_Injection

\* Rows keep their numbers, and the list of a request about to prune is short.
HistoryInv ==
    /\ IdsInv
    /\ \A w \in Workers : AtCall(w, "history_prune") => Cardinality(req[w].keep) <= HistoryLimit

\* A new row gets a new number, and no step changes a number.
LEMMA IdsStay == ASSUME IInv, IdsInv, [Next]_vars PROVE IdsInv'
<1>1. UNCHANGED historyVars => IdsInv'
  BY DEF historyVars, IdsInv
<1>2. ASSUME NEW w \in Workers, HistoryInsert(w) PROVE IdsInv'
  <2>1. /\ recorded \in Nat /\ \A r \in history : r.id \in Nat /\ r.id <= recorded
        /\ \A r, s \in history : r.id = s.id => r = s
    BY DEF IInv, TypeOK, HistoryTypeOK, IdsInv
  <2>2. /\ recorded' = recorded + 1
        /\ history' = history \cup {[id |-> recorded + 1, hash |-> req[w].old]}
    BY <1>2 DEF HistoryInsert, InsertHash
  <2> QED BY <2>1, <2>2 DEF IdsInv
<1>3. ASSUME NEW w \in Workers, Call(w), ~HistoryInsert(w) PROVE IdsInv'
  <2>1. history' \subseteq history /\ recorded' = recorded
    BY <1>3 DEF Call, UpdateUser, OtpGet, OtpDelete, OtpSet, HistoryCheck,
        HistoryList, HistoryPrune, PruneExcept, CheckUserActive, IssueToken, SessionCheck,
        SessionCreate, BlacklistToken, SessionOff, Touch, TokensQuery, BlacklistEach,
        SessionsOff, CodesDelete, CodesCreate, CodesFind, CodeSave, historyVars
  <2> QED BY <2>1 DEF IdsInv
<1>4. ASSUME NEW w \in Workers, Handle(w) PROVE IdsInv'
  BY <1>1, <1>4, HandlerLeaves
<1> QED BY <1>1, <1>2, <1>3, <1>4 DEF Next, Interrupt, OtpExpire, Tick, vars

\* What a list of the rows leaves in its request.
LEMMA ListTells ==
    ASSUME IInv, OrderlyInv, NEW w \in Workers, HistoryList(w), req'[w].todo # <<>>
    PROVE  req'[w].keep = IdsToKeep
<1> DEFINE q == [req[w] EXCEPT !.keep = IdsToKeep]
<1>0. req[w] \in Request
  BY DEF IInv, TypeOK
<1>1. IdsToKeep \in SUBSET (1..MaxRecords)
  BY DEF IInv, TypeOK, HistoryTypeOK, IdsToKeep, MostRecent
<1>2. /\ q \in Request /\ q.op = req[w].op /\ q.todo = req[w].todo
      /\ q.ns = req[w].ns /\ q.code = req[w].code
      /\ q.backup = req[w].backup /\ q.entity = req[w].entity
      /\ q.keep = IdsToKeep
  BY <1>0, <1>1 DEF Request
<1>3. ProceedWith(w, q) /\ req[w].todo # <<>>
  BY DEF HistoryList, AtCall
<1> HIDE DEF q
<1>4. GoesOn(w, q)
  BY <1>2, <1>3 DEF GoesOn
<1>5. req'[w] = [q EXCEPT !.todo = Tail(q.todo)]
  BY <1>2, <1>3, <1>4, GoingOn
<1> QED BY <1>2, <1>5 DEF Request

\* The list is short when it is made, and stays as it is until the deletion.
LEMMA StepHistory == ASSUME IInv, OrderlyInv, HistoryInv, [Next]_vars PROVE HistoryInv'
<1>1. IdsInv /\ IdsInv'
  BY IdsStay DEF HistoryInv
<1>2. ASSUME NEW w \in Workers, AtCall(w, "history_prune")'
      PROVE  Cardinality(req'[w].keep) <= HistoryLimit
  <2>1. CASE AtCall(w, "history_prune") /\ req'[w] = req[w]
    BY <2>1 DEF HistoryInv
  <2>2. CASE AtCall(w, "history_list") /\ Call(w)
    <3>1. HistoryList(w) /\ req'[w].todo # <<>>
      BY <1>2, <2>2, CallIs DEF AtCall
    <3> QED BY <1>1, <3>1, ListTells, KeepBounded
  <2>3. Pair("history_list", "history_prune", req[w].todo) /\ "history_prune" \in Seconds
    BY DEF OrderlyInv, Orderly, Ordered, Linked, Seconds
  <2> QED BY <1>2, <2>1, <2>2, <2>3, Arrives
<1> QED BY <1>1, <1>2 DEF HistoryInv

\* A request goes from its insert to the list and on to the deletion.
LEMMA RecordsOn ==
    ASSUME IInv, OrderlyInv, NEW w \in Workers, Call(w),
           AtCall(w, "history_insert") \/ AtCall(w, "history_list")
    PROVE  w \in Recording'
<1>0. req[w] \in Request /\ req[w].todo \in Seq(Calls) /\ req[w].todo # <<>>
  BY DEF IInv, TypeOK, Request, AtCall
<1>1. \E q \in Request : GoesOn(w, q)
  BY CallShape DEF Ends, Checks, Loops, AtCall
<1>2. req'[w].todo = Tail(req[w].todo)
  BY <1>0, <1>1, GoingOn
<1>3. Tail(req[w].todo) # <<>> /\ Head(Tail(req[w].todo)) \in {"history_list", "history_prune"}
  BY <1>0, PairHeads DEF AtCall, OrderlyInv, Orderly, Ordered, Linked
<1> QED BY <1>2, <1>3 DEF Recording, AtCall

\* But for a deletion, a request that is recording goes on to, unless it is cut
\* off before it.
LEMMA RecordingStays ==
    ASSUME IInv, OrderlyInv, [Next]_vars, "history_prune" \notin cut',
           \A w \in Workers : ~HistoryPrune(w)
    PROVE  "history_prune" \notin cut /\ Recording \subseteq Recording'
<1>0. req \in [Workers -> Request]
  BY DEF IInv, TypeOK
<1>1. ASSUME NEW v \in Workers, NEW r, req' = [req EXCEPT ![v] = r],
             v \notin Recording \/ v \in Recording'
      PROVE  Recording \subseteq Recording'
  BY <1>0, <1>1 DEF Recording, AtCall
<1>2. ASSUME NEW v \in Workers, NEW r, Handle(v), req[v].op \in AtRest,
             req' = [req EXCEPT ![v] = r]
      PROVE  "history_prune" \notin cut /\ Recording \subseteq Recording'
  <2>1. v \notin Recording
    BY <1>2 DEF Recording, AtCall, OrderlyInv, Orderly
  <2> QED BY <1>1, <1>2, <2>1, HandlerLeaves DEF faultVars
<1>3. ASSUME NEW v \in Workers, Call(v)
      PROVE  "history_prune" \notin cut /\ Recording \subseteq Recording'
  <2>1. ~AtCall(v, "history_prune")
    BY <1>3, CallIs
  <2>2. v \notin Recording \/ v \in Recording'
    BY <1>3, <2>1, RecordsOn DEF Recording
  <2>3. /\ \E r : req' = [req EXCEPT ![v] = r]
        /\ cut' = cut \/ cut' = cut \ {Head(req[v].todo)}
    BY <1>3, CallShape DEF Ends, Fail, GoesOn, ProceedWith, Loops, Serve, faultVars
  <2>4. Head(req[v].todo) # "history_prune"
    BY <1>3, <2>1, CallShape DEF AtCall
  <2> QED BY <1>1, <2>2, <2>3, <2>4
<1>4. ASSUME NEW v \in Workers, Interrupt(v)
      PROVE  "history_prune" \notin cut /\ Recording \subseteq Recording'
  <2>0. req[v].todo \in Seq(Calls)
    BY <1>0 DEF Request
  <2>1. \A i \in DOMAIN req[v].todo : req[v].todo[i] # "history_prune"
    BY <1>4 DEF Interrupt, Completing
  <2>2. v \notin Recording
    <3> SUFFICES ASSUME v \in Recording PROVE FALSE
      OBVIOUS
    <3>1. req[v].todo # <<>> /\ Head(req[v].todo) = req[v].todo[1] /\ 1 \in DOMAIN req[v].todo
      BY <1>4, <2>0 DEF Interrupt
    <3>2. req[v].todo[1] = "history_list"
      BY <2>1, <3>1 DEF Recording, AtCall
    <3> QED BY <2>1, <3>1, <3>2 DEF OrderlyInv, Orderly, Ordered, Linked, Pair
  <2> QED BY <1>1, <1>4, <2>2 DEF Interrupt
<1>5. CASE req' = req /\ UNCHANGED faultVars
  BY <1>5 DEF Recording, AtCall, faultVars
<1> QED BY <1>2, <1>3, <1>4, <1>5, StepShape

\* Only the two statements that write the table change it.
LEMMA HistorySame ==
    ASSUME [Next]_vars, \A w \in Workers : ~HistoryInsert(w) /\ ~HistoryPrune(w)
    PROVE  history' = history
<1>1. UNCHANGED historyVars => history' = history
  BY DEF historyVars
<1>2. ASSUME NEW w \in Workers, Handle(w) PROVE history' = history
  BY <1>1, <1>2, HandlerLeaves
<1>3. ASSUME NEW w \in Workers, Call(w) PROVE history' = history
  BY <1>3 DEF Call, UpdateUser, OtpGet, OtpDelete, OtpSet, HistoryCheck,
     HistoryList, CheckUserActive, IssueToken, SessionCheck,
     SessionCreate, BlacklistToken, SessionOff, Touch, TokensQuery, BlacklistEach,
     SessionsOff, CodesDelete, CodesCreate, CodesFind, CodeSave, historyVars
<1> QED BY <1>1, <1>2, <1>3 DEF Next, Interrupt, OtpExpire, Tick, vars

\* An insert adds one row and one request that is recording; a deletion leaves
\* the rows of a short list.
LEMMA StepPruned ==
    ASSUME IInv, OrderlyInv, HistoryInv, HistoryPruned, [Next]_vars
    PROVE  HistoryPruned'
<1> SUFFICES ASSUME "history_prune" \notin cut'
             PROVE  Cardinality(history') <= HistoryLimit + Cardinality(Recording')
  BY DEF HistoryPruned
<1>0. HistoryLimit \in Nat
  BY HistoryAssumption
<1>1. IInv' /\ HistoryInv'
  BY StepIInv, StepHistory
<1>2. /\ IsFiniteSet(history) /\ IsFiniteSet(history')
      /\ Cardinality(history) \in Nat /\ Cardinality(history') \in Nat
  <2>1. /\ \A r \in history : r.id \in 1..MaxRecords
        /\ \A r \in history' : r.id \in 1..MaxRecords
    BY <1>1 DEF IInv, TypeOK, HistoryTypeOK
  <2> QED BY <1>1, <2>1, RowsFinite DEF HistoryInv, IdsInv
<1>3. /\ IsFiniteSet(Recording) /\ IsFiniteSet(Recording')
      /\ Cardinality(Recording) \in Nat /\ Cardinality(Recording') \in Nat
  <2>1. Recording \in SUBSET Workers /\ Recording' \in SUBSET Workers
    BY DEF Recording
  <2> QED BY <2>1, WorkersAssumption, FS_Subset, FS_CardinalityType
<1>4. ASSUME NEW w \in Workers, HistoryPrune(w)
      PROVE  Cardinality(history') <= HistoryLimit + Cardinality(Recording')
  <2> DEFINE keep == req[w].keep
  <2>1. keep \in SUBSET (1..MaxRecords) /\ IsFiniteSet(1..MaxRecords)
    <3>1. req[w] \in Request
      BY DEF IInv, TypeOK
    <3>2. keep \in SUBSET (1..MaxRecords)
      BY <3>1 DEF Request
    <3>3. IsFiniteSet(1..MaxRecords)
      <4>1. 1 \in Int /\ MaxRecords \in Int
        BY HistoryAssumption
      <4> QED BY <4>1, FS_Interval
    <3> HIDE DEF keep
    <3> QED BY <3>2, <3>3
  <2>2. IsFiniteSet(keep) /\ Cardinality(keep) <= HistoryLimit
    BY <1>4, <2>1, FS_Subset DEF HistoryInv, HistoryPrune
  <2>3. \A r \in history' : r.id \in keep
    BY <1>4 DEF HistoryPrune, PruneExcept
  <2>4. \A r, s \in history' : r.id = s.id => r = s
    BY <1>1 DEF HistoryInv, IdsInv
  <2> HIDE DEF keep
  <2>5. Cardinality(history') <= Cardinality(keep) /\ Cardinality(keep) \in Nat
    BY <2>2, <2>3, <2>4, RowsByIds
  <2> QED BY <1>0, <1>2, <1>3, <2>2, <2>5
<1>5. ASSUME \A w \in Workers : ~HistoryPrune(w)
      PROVE  Cardinality(history') <= HistoryLimit + Cardinality(Recording')
  <2>1. /\ Recording \subseteq Recording'
        /\ Cardinality(history) <= HistoryLimit + Cardinality(Recording)
    BY <1>5, RecordingStays DEF HistoryPruned
  <2>2. ASSUME NEW w \in Workers, HistoryInsert(w)
        PROVE  Cardinality(history') <= HistoryLimit + Cardinality(Recording')
    <3>1. AtCall(w, "history_insert") /\ Call(w)
      BY <2>2 DEF HistoryInsert, Call
    <3>2. w \notin Recording /\ Recording \cup {w} \subseteq Recording'
      BY <2>1, <3>1, RecordsOn DEF Recording, AtCall
    <3>3. Cardinality(Recording \cup {w}) = Cardinality(Recording) + 1
      BY <1>3, <3>2, FS_AddElement
    <3>4. Cardinality(Recording \cup {w}) <= Cardinality(Recording')
      BY <1>3, <3>2, FS_Subset
    <3>5. PICK r : history' = history \cup {r}
      BY <2>2 DEF HistoryInsert, InsertHash
    <3>6. Cardinality(history') <= Cardinality(history) + 1
      BY <1>2, <3>5, FS_AddElement
    <3> QED BY <1>0, <1>2, <1>3, <2>1, <3>3, <3>4, <3>6
  <2>3. ASSUME \A w \in Workers : ~HistoryInsert(w)
        PROVE  Cardinality(history') <= HistoryLimit + Cardinality(Recording')
    <3>1. history' = history
      BY <1>5, <2>3, HistorySame
    <3>2. Cardinality(Recording) <= Cardinality(Recording')
      BY <1>3, <2>1, FS_Subset
    <3> QED BY <1>0, <1>2, <1>3, <2>1, <3>1, <3>2
  <2> QED BY <2>2, <2>3
<1> QED BY <1>4, <1>5

\* The history table exceeds its limit by no more than the requests that are
\* recording a password, for any number of requests and any limit.
THEOREM HistoryAlwaysPruned == Spec => []HistoryPruned
<1>1. Init => HistoryInv /\ HistoryPruned
  <2> SUFFICES ASSUME Init PROVE HistoryInv /\ HistoryPruned
    OBVIOUS
  <2>1. history = {} /\ \A w \in Workers : req[w].todo = <<>>
    BY StartsOrderly DEF Init, HistoryInit
  <2>2. Recording = {} /\ Cardinality({}) = 0
    BY <2>1, FS_EmptySet DEF Recording, AtCall
  <2> QED BY <2>1, <2>2, HistoryAssumption DEF HistoryInv, IdsInv, HistoryPruned, AtCall
<1> QED BY <1>1, StepHistory, StepPruned, RequestsOrderly, PTL DEF Spec

-----------------------------------------------------------------------------
(***************************************************************************)
(* The backup codes.                                                       *)
(***************************************************************************)

\* Nothing but a fault keeps these calls from inserting codes.
Sure(t) == Ahead("codes_create", t) /\ \A i \in DOMAIN t : t[i] \notin Checks
Making == {w \in Workers : Sure(req[w].todo)}

\* A set of codes was inserted, or is going to be, or was cut off.
Provided == sets > 0 \/ Making # {} \/ "codes_create" \in cut

CodesInv ==
    /\ sets > 0 /\ code_rows = {} => Making # {} \/ "codes_create" \in cut
    /\ row.mfa_enabled => Provided
    /\ \A w \in Workers :
          req[w].entity.mfa_enabled => Provided \/ Ahead("codes_create", req[w].todo)

\* The first call of a request that is to insert codes.
LEMMA TailSure ==
    ASSUME NEW s \in Seq(Calls), s # <<>>, Ordered(s), Ahead("codes_create", s)
    PROVE  /\ Head(s) # "codes_create" => Ahead("codes_create", Tail(s))
           /\ Head(s) # "codes_create" /\ Sure(s) => Sure(Tail(s))
           /\ Head(s) \in {"update", "codes_delete"} => Sure(Tail(s))
           /\ Head(s) \in Checks => ~Sure(s)
<1> DEFINE t == Tail(s)
<1>1. /\ DOMAIN s = 1..Len(s) /\ Len(s) \in Nat /\ DOMAIN t = 1..(Len(s) - 1)
      /\ \A i \in DOMAIN t : t[i] = s[i + 1]
      /\ Head(s) = s[1] /\ 1 \in DOMAIN s
  OBVIOUS
<1> HIDE DEF t
<1>2. ASSUME Head(s) # "codes_create" PROVE Ahead("codes_create", t)
  <2>1. PICK i \in DOMAIN s : s[i] = "codes_create"
    BY DEF Ahead
  <2>2. i - 1 \in DOMAIN t /\ t[i - 1] = s[i]
    BY <1>1, <1>2, <2>1
  <2> QED BY <2>1, <2>2 DEF Ahead
<1>3. ASSUME \A i \in DOMAIN s \ {1} : s[i] \notin Checks
      PROVE  \A i \in DOMAIN t : t[i] \notin Checks
  BY <1>1, <1>3
<1>4. ASSUME Head(s) \in {"update", "codes_delete"}
      PROVE  \A i \in DOMAIN s \ {1} : s[i] \notin Checks
  <2> SUFFICES ASSUME NEW i \in DOMAIN s, i # 1, s[i] \in Checks PROVE FALSE
    OBVIOUS
  <2>1. i < 1
    BY <1>1, <1>4 DEF Ordered, CodesSafe
  <2> QED BY <1>1, <2>1
<1>5. Head(s) \in {"update", "codes_delete"} => Head(s) # "codes_create"
  OBVIOUS
<1>6. Head(s) \in Checks => ~Sure(s)
  BY <1>1 DEF Sure
<1> QED BY <1>2, <1>3, <1>4, <1>5, <1>6 DEF Sure, t

\* A request that is sure to insert codes stays so until it does, and leaves a
\* mark when it is cut off.
LEMMA MakingStays ==
    ASSUME IInv, OrderlyInv, [Next]_vars, Making # {} \/ "codes_create" \in cut,
           \A w \in Workers : ~CodesCreate(w)
    PROVE  Making' # {} \/ "codes_create" \in cut'
<1>0. req \in [Workers -> Request] /\ \A w \in Workers : req[w].todo \in Seq(Calls)
  BY DEF IInv, TypeOK, Request
<1>1. ASSUME NEW v \in Workers, NEW r, req' = [req EXCEPT ![v] = r],
             v \in Making => Sure(r.todo), "codes_create" \in cut => "codes_create" \in cut'
      PROVE  Making' # {} \/ "codes_create" \in cut'
  BY <1>0, <1>1 DEF Making
<1>2. ASSUME NEW v \in Workers, NEW r, Handle(v), req[v].op \in AtRest,
             req' = [req EXCEPT ![v] = r]
      PROVE  Making' # {} \/ "codes_create" \in cut'
  <2>1. v \notin Making
    BY <1>2 DEF Making, Sure, Ahead, OrderlyInv, Orderly
  <2> QED BY <1>1, <1>2, <2>1, HandlerLeaves DEF faultVars
<1>3. ASSUME NEW v \in Workers, Call(v)
      PROVE  Making' # {} \/ "codes_create" \in cut'
  <2>1. req[v].todo # <<>> /\ Head(req[v].todo) # "codes_create" /\ Ordered(req[v].todo)
    BY <1>3, CallIs, CallShape DEF AtCall, OrderlyInv, Orderly
  <2>2. "codes_create" \in cut => "codes_create" \in cut'
    BY <1>3, <2>1, CallShape DEF Ends, Fail, GoesOn, ProceedWith, Loops, Serve, faultVars
  <2>3. CASE Ends(v)
    <3>1. v \notin Making
      BY <1>0, <2>1, <2>3, TailSure DEF Ends, Making, Sure
    <3> QED BY <1>1, <2>2, <2>3, <3>1 DEF Ends, Fail, Serve
  <2>4. ASSUME NEW q \in Request, GoesOn(v, q) PROVE Making' # {} \/ "codes_create" \in cut'
    <3>1. req' = [req EXCEPT ![v] = After(q)] /\ After(q).todo = Tail(req[v].todo)
      BY <2>1, <2>4, GoingOn
    <3>2. v \in Making => Sure(After(q).todo)
      BY <1>0, <2>1, <3>1, TailSure DEF Making, Sure
    <3> QED BY <1>1, <2>2, <3>1, <3>2
  <2>5. CASE Loops(v)
    <3>1. PICK t \in req[v].toks : Serve(v, [req[v] EXCEPT !.toks = @ \ {t}])
      BY <2>5 DEF Loops
    <3>2. [req[v] EXCEPT !.toks = @ \ {t}].todo = req[v].todo
      BY <1>0 DEF Request
    <3>3. v \in Making => Sure([req[v] EXCEPT !.toks = @ \ {t}].todo)
      BY <3>2 DEF Making
    <3> QED BY <1>1, <2>2, <3>1, <3>3 DEF Serve
  <2> QED BY <1>3, <2>3, <2>4, <2>5, CallShape
<1>4. ASSUME NEW v \in Workers, Interrupt(v)
      PROVE  Making' # {} \/ "codes_create" \in cut'
  <2>1. CASE v \in Making
    BY <1>4, <2>1 DEF Making, Sure, Ahead, Interrupt, Completing
  <2>2. CASE v \notin Making
    BY <1>1, <1>4, <2>2 DEF Interrupt
  <2> QED BY <2>1, <2>2
<1>5. CASE req' = req /\ UNCHANGED faultVars
  BY <1>5 DEF Making, faultVars
<1> QED BY <1>2, <1>3, <1>4, <1>5, StepShape

\* What the two statements do to the table; the others leave its rows alone.
LEMMA CodesKept ==
    ASSUME IInv, [Next]_vars
    PROVE  /\ \A w \in Workers : CodesCreate(w) => sets' > 0 /\ code_rows' # {}
           /\ (\A w \in Workers : ~CodesCreate(w)) => sets' = sets
           /\ (\A w \in Workers : ~CodesCreate(w) /\ ~CodesDelete(w)) => code_rows' = code_rows
<1>1. ASSUME NEW w \in Workers, CodesCreate(w) PROVE sets' > 0 /\ code_rows' # {}
  <2>1. sets \in Nat /\ sets' = sets + 1 /\ {sets + 1} \X (1..CodesPerUser) \subseteq code_rows'
    BY <1>1 DEF CodesCreate, CreateCodes, IInv, TypeOK, BackupTypeOK
  <2>2. <<sets + 1, 1>> \in {sets + 1} \X (1..CodesPerUser)
    BY BackupAssumption
  <2> QED BY <2>1, <2>2
<1>2. UNCHANGED backupVars => sets' = sets /\ code_rows' = code_rows
  BY DEF backupVars
<1>3. ASSUME NEW w \in Workers, Handle(w) PROVE sets' = sets /\ code_rows' = code_rows
  BY <1>2, <1>3, HandlerLeaves
<1>4. ASSUME NEW w \in Workers, Call(w), ~CodesCreate(w)
      PROVE  sets' = sets /\ (~CodesDelete(w) => code_rows' = code_rows)
  BY <1>2, <1>4 DEF Call, UpdateUser, OtpGet, OtpDelete, OtpSet, HistoryCheck, HistoryInsert,
     HistoryList, HistoryPrune, CheckUserActive, IssueToken, SessionCheck,
     SessionCreate, BlacklistToken, SessionOff, Touch, TokensQuery, BlacklistEach,
     SessionsOff, CodesDelete, DeleteCodes, CodesFind, CodeSave, MarkUsed
<1> QED BY <1>1, <1>2, <1>3, <1>4 DEF Next, Interrupt, OtpExpire, Tick, vars

\* Once provided for, an account stays so.
LEMMA ProvidedStays == ASSUME IInv, OrderlyInv, [Next]_vars, Provided PROVE Provided'
<1>1. CASE \E w \in Workers : CodesCreate(w)
  BY <1>1, CodesKept DEF Provided
<1>2. CASE \A w \in Workers : ~CodesCreate(w)
  BY <1>2, CodesKept, MakingStays DEF Provided
<1> QED BY <1>1, <1>2

\* After the row is written, and after the codes are deleted, a request that
\* is to insert codes is sure to.
LEMMA BecomesSure ==
    ASSUME IInv, OrderlyInv, NEW w \in Workers, Call(w), Ahead("codes_create", req[w].todo),
           AtCall(w, "update") \/ AtCall(w, "codes_delete")
    PROVE  w \in Making'
<1>0. req[w].todo \in Seq(Calls) /\ req[w].todo # <<>> /\ Ordered(req[w].todo)
  BY DEF IInv, TypeOK, Request, AtCall, OrderlyInv, Orderly
<1>1. \E q \in Request : GoesOn(w, q)
  BY CallShape DEF Ends, Checks, Loops, AtCall
<1>2. req'[w].todo = Tail(req[w].todo)
  BY <1>0, <1>1, GoingOn
<1>3. Sure(Tail(req[w].todo))
  BY <1>0, TailSure DEF AtCall
<1> QED BY <1>2, <1>3 DEF Making

\* The row gets a second factor from a request that inserts codes, or holds a
\* copy of a row that had one.
LEMMA RowProvided ==
    ASSUME IInv, OrderlyInv, CodesInv, [Next]_vars, row'.mfa_enabled
    PROVE  Provided'
<1>1. ASSUME NEW w \in Workers, UpdateUser(w) PROVE Provided'
  <2>1. AtCall(w, "update") /\ Call(w) /\ row' = RepoUpdate(row, req[w].entity)
    BY <1>1 DEF UpdateUser, Call
  <2>2. req[w].entity \in Row
    BY DEF IInv, TypeOK, Request
  <2>3. req[w].entity.mfa_enabled
    BY <2>1, <2>2 DEF RepoUpdate, Row
  <2>4. CASE Provided
    BY <2>4, ProvidedStays
  <2>5. CASE Ahead("codes_create", req[w].todo)
    BY <2>1, <2>5, BecomesSure DEF Provided
  <2> QED BY <2>3, <2>4, <2>5 DEF CodesInv
<1>2. ASSUME row' = row PROVE Provided'
  BY <1>2, ProvidedStays DEF CodesInv
<1>3. ASSUME NEW w \in Workers, Call(w), ~UpdateUser(w) PROVE row' = row
  BY <1>3 DEF Call, OtpGet, OtpDelete, OtpSet, HistoryCheck, HistoryInsert,
     HistoryList, HistoryPrune, CheckUserActive, IssueToken, SessionCheck,
     SessionCreate, BlacklistToken, SessionOff, Touch, TokensQuery, BlacklistEach,
     SessionsOff, CodesDelete, CodesCreate, CodesFind, CodeSave, accountVars
<1>4. ASSUME NEW w \in Workers, Handle(w) PROVE row' = row
  BY <1>4, HandlerLeaves
<1> QED BY <1>1, <1>2, <1>3, <1>4 DEF Next, Interrupt, OtpExpire, Tick, vars, accountVars

\* So does a copy of the row that a request is to write.
LEMMA CopyProvided ==
    ASSUME IInv, OrderlyInv, CodesInv, [Next]_vars, NEW w \in Workers,
           req'[w].entity.mfa_enabled
    PROVE  Provided' \/ Ahead("codes_create", req'[w].todo)
<1>0. req \in [Workers -> Request]
  BY DEF IInv, TypeOK
<1>1. Provided => Provided'
  BY ProvidedStays
<1>2. CASE req'[w] = req[w]
  BY <1>1, <1>2 DEF CodesInv
<1>3. ASSUME NEW v \in Workers, NEW r, req' = [req EXCEPT ![v] = r], v # w
      PROVE  req'[w] = req[w]
  BY <1>0, <1>3
<1>4. ~Idle.entity.mfa_enabled
  BY NoRowPlain DEF Idle
<1>5. ASSUME NEW v \in Workers, NEW r, Starts(r), req' = [req EXCEPT ![v] = r], v = w
      PROVE  Provided' \/ Ahead("codes_create", req'[w].todo)
  <2>1. req'[w] = r
    BY <1>0, <1>5
  <2> QED BY <1>1, <1>5, <2>1 DEF Starts, CodesInv
<1>6. CASE Call(w)
  <2>1. req[w] \in Request /\ req[w].todo \in Seq(Calls) /\ req[w].todo # <<>>
        /\ Ordered(req[w].todo)
    BY <1>0, <1>6, CallShape DEF Request, OrderlyInv, Orderly
  <2>2. ~Ends(w)
    BY <1>0, <1>4 DEF Ends, Fail, Serve
  <2>3. ASSUME NEW q \in Request, GoesOn(w, q)
        PROVE  Provided' \/ Ahead("codes_create", req'[w].todo)
    <3>1. req'[w] = After(q) /\ After(q).todo = Tail(req[w].todo)
      BY <2>1, <2>3, GoingOn
    <3>2. After(q).entity = q.entity
      <4>1. After(q) # Idle
        BY <1>4, <3>1
      <4>2. After(q) = [q EXCEPT !.todo = Tail(@)]
        BY <4>1 DEF After
      <4> QED BY <4>2 DEF Request
    <3>3. q.entity = req[w].entity
      BY <2>3, <3>1, <3>2, NoRowPlain DEF GoesOn
    <3>4. Provided \/ Ahead("codes_create", req[w].todo)
      BY <3>1, <3>2, <3>3 DEF CodesInv
    <3>5. CASE AtCall(w, "codes_create")
      BY <1>6, <3>5, CallIs, CodesKept DEF Provided
    <3>6. CASE ~AtCall(w, "codes_create")
      BY <1>1, <2>1, <3>1, <3>4, <3>6, TailSure DEF AtCall
    <3> QED BY <3>5, <3>6
  <2>4. CASE Loops(w)
    <3>1. PICK t \in req[w].toks : Serve(w, [req[w] EXCEPT !.toks = @ \ {t}])
      BY <2>4 DEF Loops
    <3>2. req'[w].todo = req[w].todo /\ req'[w].entity = req[w].entity
      BY <1>0, <3>1 DEF Serve, Request
    <3> QED BY <1>1, <3>2 DEF CodesInv
  <2> QED BY <1>6, <2>2, <2>3, <2>4, CallShape
<1>7. ASSUME NEW v \in Workers, Call(v), v # w PROVE req'[w] = req[w]
  <2>1. \E r : req' = [req EXCEPT ![v] = r]
    BY <1>7, CallShape DEF Ends, Fail, GoesOn, ProceedWith, Loops, Serve
  <2> QED BY <1>3, <1>7, <2>1
<1>8. ASSUME NEW v \in Workers, Interrupt(v) PROVE req'[w] = req[w]
  <2>1. req' = [req EXCEPT ![v] = Idle]
    BY <1>8 DEF Interrupt
  <2>2. v # w
    BY <1>0, <1>4, <2>1
  <2> QED BY <1>3, <2>1, <2>2
<1> QED BY <1>2, <1>3, <1>5, <1>6, <1>7, <1>8, StepShape

\* Deletions are made by requests that are sure to insert.
LEMMA StepCodes == ASSUME IInv, OrderlyInv, CodesInv, [Next]_vars PROVE CodesInv'
<1>1. ASSUME sets' > 0, code_rows' = {} PROVE Making' # {} \/ "codes_create" \in cut'
  <2>1. \A w \in Workers : ~CodesCreate(w)
    BY <1>1, CodesKept
  <2>2. ASSUME NEW w \in Workers, CodesDelete(w) PROVE w \in Making'
    <3>1. AtCall(w, "codes_delete") /\ Call(w)
      BY <2>2 DEF CodesDelete, Call
    <3>2. Ahead("codes_create", req[w].todo)
      <4>1. req[w].todo \in Seq(Calls) /\ req[w].todo # <<>>
        BY <3>1 DEF IInv, TypeOK, Request, AtCall
      <4>2. 1 \in DOMAIN req[w].todo /\ req[w].todo[1] = "codes_delete"
        BY <3>1, <4>1 DEF AtCall
      <4> QED BY <4>2 DEF OrderlyInv, Orderly, Ordered, Linked, Pair, Ahead
    <3> QED BY <3>1, <3>2, BecomesSure
  <2>3. CASE \A w \in Workers : ~CodesDelete(w)
    <3>1. sets > 0 /\ code_rows = {}
      BY <1>1, <2>1, <2>3, CodesKept
    <3> QED BY <2>1, <3>1, MakingStays DEF CodesInv
  <2> QED BY <2>2, <2>3
<1>2. row'.mfa_enabled => Provided'
  BY RowProvided
<1>3. ASSUME NEW w \in Workers, req'[w].entity.mfa_enabled
      PROVE  Provided' \/ Ahead("codes_create", req'[w].todo)
  BY <1>3, CopyProvided
<1> QED BY <1>1, <1>2, <1>3 DEF CodesInv

\* An account with a second factor, or one that was ever given backup codes,
\* has rows of them when no request is under way, however regenerations and
\* changes of the factor overlap, but for one that was cut off.
THEOREM CodesAlwaysRemain == Spec => []CodesRemain
<1>1. Init => CodesInv
  <2> SUFFICES ASSUME Init PROVE CodesInv
    OBVIOUS
  <2>1. ~row.mfa_enabled /\ sets = 0 /\ \A w \in Workers : ~req[w].entity.mfa_enabled
    BY NoRowPlain DEF Init, InitialRows, NewRows, NewRow, BackupInit, Idle
  <2> QED BY <2>1 DEF CodesInv
<1>2. IInv /\ OrderlyInv /\ CodesInv => CodesRemain
  <2> SUFFICES ASSUME CodesInv, Quiet, row.mfa_enabled \/ sets > 0
               PROVE  code_rows # {} \/ "codes_create" \in cut
    BY DEF CodesRemain
  <2>1. Making = {}
    BY DEF Making, Sure, Ahead, Quiet
  <2> QED BY <2>1 DEF CodesInv, Provided
<1> QED BY <1>1, <1>2, StepCodes, RequestsOrderly, PTL DEF Spec

\* The requests that have found this backup code and not marked it.
Finders(c) == {w \in Workers : AtCall(w, "code_save") /\ req[w].backup = c}

\* A code that was redeemed is not found again, and will not be made again; so
\* all who redeem it are among those that had found it when it first was.
RedeemInv ==
    /\ \A c \in code_rows : c[1] <= sets
    /\ \A c \in AllCodes :
        /\ redeemed[c] + Cardinality(Finders(c)) <= Cardinality(Workers)
        /\ redeemed[c] > 0 => c \notin Unused /\ c[1] <= sets

\* Whoever is about to mark a code was so before, or has just found it.
LEMMA FindersArrive ==
    ASSUME IInv, OrderlyInv, [Next]_vars, NEW c \in AllCodes, NEW w \in Finders(c)'
    PROVE  \/ w \in Finders(c) /\ req'[w] = req[w]
           \/ CodesFind(w) /\ c \in Unused
<1>1. /\ w \in Workers /\ AtCall(w, "code_save")' /\ req'[w].backup = c
      /\ Pair("codes_find", "code_save", req[w].todo) /\ "code_save" \in Seconds
  BY DEF Finders, OrderlyInv, Orderly, Ordered, Linked, Seconds
<1>2. CASE AtCall(w, "code_save") /\ req'[w] = req[w]
  BY <1>1, <1>2 DEF Finders
<1>3. ASSUME AtCall(w, "codes_find"), Call(w), NEW q \in Request, GoesOn(w, q),
             req'[w] = [q EXCEPT !.todo = Tail(q.todo)]
      PROVE  CodesFind(w) /\ c \in Unused
  <2>1. CodesFind(w)
    BY <1>1, <1>3, CallIs
  <2>2. req'[w].backup = q.backup /\ q.backup = req[w].backup
    BY <1>3 DEF GoesOn, Request
  <2>3. ~Fail(w)
    <3>1. req'[w].todo # <<>> /\ req \in [Workers -> Request]
      BY <1>1 DEF AtCall, IInv, TypeOK
    <3> QED BY <1>1, <3>1, StartsOrderly DEF Fail, Serve
  <2> QED BY <1>1, <2>1, <2>2, <2>3 DEF CodesFind
<1> QED BY <1>1, <1>2, <1>3, Arrives

\* What the statements do to the codes that are redeemed and those that can be.
LEMMA RedeemedStep ==
    ASSUME IInv, [Next]_vars
    PROVE  \/ \E w \in Workers : CodeSave(w) /\ MarkUsed(req[w].backup)
           \/ /\ redeemed' = redeemed /\ sets' = sets
              /\ Unused' \subseteq Unused /\ code_rows' \subseteq code_rows
           \/ /\ redeemed' = redeemed /\ sets' = sets + 1
              /\ Unused' \subseteq Unused \cup ({sets + 1} \X (1..CodesPerUser))
              /\ code_rows' = code_rows \cup ({sets + 1} \X (1..CodesPerUser))
<1> DEFINE Quietly == /\ redeemed' = redeemed /\ sets' = sets
                      /\ Unused' \subseteq Unused /\ code_rows' \subseteq code_rows
<1>1. UNCHANGED backupVars => Quietly
  BY DEF backupVars, Unused
<1>2. ASSUME NEW w \in Workers, Handle(w) PROVE Quietly
  BY <1>1, <1>2, HandlerLeaves
<1>3. ASSUME NEW w \in Workers, CodesDelete(w) PROVE Quietly
  BY <1>3 DEF CodesDelete, DeleteCodes, Unused
<1>4. ASSUME NEW w \in Workers, CodesCreate(w)
      PROVE  /\ redeemed' = redeemed /\ sets' = sets + 1
             /\ Unused' \subseteq Unused \cup ({sets + 1} \X (1..CodesPerUser))
             /\ code_rows' = code_rows \cup ({sets + 1} \X (1..CodesPerUser))
  BY <1>4 DEF CodesCreate, CreateCodes, Unused
<1>5. ASSUME NEW w \in Workers, CodeSave(w), ~MarkUsed(req[w].backup) PROVE Quietly
  BY <1>1, <1>5 DEF CodeSave
<1>6. ASSUME NEW w \in Workers, Call(w), ~CodesDelete(w), ~CodesCreate(w), ~CodeSave(w)
      PROVE  Quietly
  BY <1>1, <1>6 DEF Call, UpdateUser, OtpGet, OtpDelete, OtpSet, HistoryCheck, HistoryInsert,
     HistoryList, HistoryPrune, CheckUserActive, IssueToken, SessionCheck, SessionCreate,
     BlacklistToken, SessionOff, Touch, TokensQuery, BlacklistEach, SessionsOff, CodesFind
<1> HIDE DEF Quietly
<1>7. [Next]_vars => Quietly \/ (\E w \in Workers : Call(w))
  BY <1>1, <1>2 DEF Next, Interrupt, OtpExpire, Tick, vars
<1>8. Quietly \/ \E w \in Workers : CodesCreate(w) \/ (CodeSave(w) /\ MarkUsed(req[w].backup))
  BY <1>3, <1>5, <1>6, <1>7
<1> QED BY <1>4, <1>8 DEF Quietly

\* A request that goes on is not where it was.
LEMMA ProceedMoves ==
    ASSUME IInv, OrderlyInv, NEW w \in Workers, req[w].todo # <<>>, Proceed(w)
    PROVE  req'[w] # req[w]
<1>1. req[w] \in Request /\ req[w].todo \in Seq(Calls) /\ GoesOn(w, req[w])
  BY DEF IInv, TypeOK, Request, Proceed, GoesOn
<1>2. req'[w].todo = Tail(req[w].todo)
  BY <1>1, GoingOn
<1>3. ASSUME NEW s \in Seq(Calls), s # <<>> PROVE Tail(s) # s
  <2>1. Len(Tail(s)) = Len(s) - 1 /\ Len(s) \in Nat
    BY <1>3
  <2>2. Len(Tail(s)) # Len(s)
    BY <2>1
  <2> QED BY <2>2
<1> QED BY <1>1, <1>2, <1>3

\* Marking a code takes its request from the finders to the redeemed.
LEMMA StepRedeem ==
    ASSUME IInv, OrderlyInv, RedeemInv, [Next]_vars
    PROVE  RedeemInv'
<1>9. \A c \in code_rows' : c[1] <= sets'
  <2>1. sets \in Nat /\ (\A c \in code_rows : c \in AllCodes /\ c[1] <= sets)
        /\ \A c \in AllCodes : c[1] \in Nat
    BY DEF IInv, TypeOK, BackupTypeOK, RedeemInv, AllCodes
  <2>2. CASE sets' = sets /\ code_rows' \subseteq code_rows
    BY <2>1, <2>2
  <2>3. CASE sets' = sets + 1 /\ code_rows' = code_rows \cup ({sets + 1} \X (1..CodesPerUser))
    <3> SUFFICES ASSUME NEW c \in code_rows' PROVE c[1] <= sets + 1
      BY <2>3
    <3>1. CASE c \in code_rows
      BY <2>1, <3>1
    <3>2. CASE c \in {sets + 1} \X (1..CodesPerUser)
      BY <2>1, <3>2
    <3> QED BY <2>3, <3>1, <3>2
  <2>4. ASSUME NEW w \in Workers, MarkUsed(req[w].backup) PROVE \A c \in code_rows' : c[1] <= sets'
    BY <2>1, <2>4 DEF MarkUsed
  <2> QED BY <2>2, <2>3, <2>4, RedeemedStep
<1> SUFFICES ASSUME NEW c \in AllCodes
             PROVE  /\ redeemed'[c] + Cardinality(Finders(c)') <= Cardinality(Workers)
                    /\ redeemed'[c] > 0 => c \notin Unused' /\ c[1] <= sets'
  BY <1>9 DEF RedeemInv
<1>0. /\ redeemed \in [AllCodes -> Nat] /\ sets \in Nat
      /\ c[1] \in Nat /\ code_rows \subseteq AllCodes
      /\ redeemed[c] + Cardinality(Finders(c)) <= Cardinality(Workers)
      /\ redeemed[c] > 0 => c \notin Unused /\ c[1] <= sets
  BY DEF IInv, TypeOK, BackupTypeOK, RedeemInv, AllCodes
<1>1. \A S : S \subseteq Workers =>
         IsFiniteSet(S) /\ Cardinality(S) \in Nat /\ Cardinality(S) <= Cardinality(Workers)
  BY WorkersAssumption, FS_Subset, FS_CardinalityType
<1>2. Finders(c) \subseteq Workers /\ Finders(c)' \subseteq Workers
  BY DEF Finders
<1>3. redeemed[c] > 0 => Finders(c)' \subseteq Finders(c)
  BY <1>0, FindersArrive
<1>4. ASSUME redeemed'[c] = redeemed[c]
      PROVE  redeemed'[c] + Cardinality(Finders(c)') <= Cardinality(Workers)
  <2>1. redeemed[c] \in Nat /\ Cardinality(Finders(c)') <= Cardinality(Workers)
        /\ Cardinality(Finders(c)) \in Nat /\ Cardinality(Finders(c)') \in Nat
        /\ Cardinality(Workers) \in Nat
    BY <1>0, <1>1, <1>2
  <2>2. redeemed[c] > 0 => Cardinality(Finders(c)') <= Cardinality(Finders(c))
    BY <1>1, <1>2, <1>3, FS_Subset
  <2> QED BY <1>0, <1>4, <2>1, <2>2
<1>5. ASSUME redeemed' = redeemed, sets' = sets, Unused' \subseteq Unused
      PROVE  redeemed'[c] > 0 => c \notin Unused' /\ c[1] <= sets'
  BY <1>0, <1>5
<1>6. ASSUME redeemed' = redeemed, sets' = sets + 1,
             Unused' \subseteq Unused \cup ({sets + 1} \X (1..CodesPerUser))
      PROVE  redeemed'[c] > 0 => c \notin Unused' /\ c[1] <= sets'
  <2> SUFFICES ASSUME redeemed'[c] > 0 PROVE c \notin Unused' /\ c[1] <= sets'
    OBVIOUS
  <2>1. c \notin Unused /\ c[1] <= sets /\ c[1] # sets + 1
    BY <1>0, <1>6
  <2>2. c \notin {sets + 1} \X (1..CodesPerUser)
    BY <2>1
  <2> QED BY <1>0, <1>6, <2>1, <2>2
<1>7. ASSUME NEW w \in Workers, CodeSave(w), MarkUsed(req[w].backup), req[w].backup # c
      PROVE  /\ redeemed'[c] = redeemed[c]
             /\ redeemed'[c] > 0 => c \notin Unused' /\ c[1] <= sets'
  BY <1>0, <1>7 DEF MarkUsed, Unused
<1>8. ASSUME NEW w \in Workers, CodeSave(w), MarkUsed(req[w].backup), req[w].backup = c
      PROVE  /\ redeemed'[c] + Cardinality(Finders(c)') <= Cardinality(Workers)
             /\ c \notin Unused' /\ c[1] <= sets'
  <2>1. redeemed'[c] = redeemed[c] + 1 /\ c \notin Unused' /\ sets' = sets
    BY <1>0, <1>8 DEF MarkUsed, Unused
  <2>2. c \in code_rows
    BY <1>0, <1>8, <2>1 DEF CodeSave, Saveable, backupVars
  <2>3. w \in Finders(c) /\ Call(w) /\ req[w].todo # <<>>
    BY <1>8 DEF Finders, CodeSave, Call, AtCall
  <2>4. Finders(c)' \subseteq Finders(c) \ {w}
    <3> SUFFICES ASSUME NEW v \in Finders(c)' PROVE v \in Finders(c) \ {w}
      OBVIOUS
    <3>1. ~CodesFind(v)
      <4>1. CodesFind(v) => redeemed' = redeemed
        BY DEF CodesFind, backupVars
      <4> QED BY <1>0, <2>1, <4>1
    <3>2. v \in Finders(c) /\ req'[v] = req[v]
      BY <3>1, FindersArrive
    <3>3. v # w
      <4>1. req'[w] # req[w]
        <5>1. Proceed(w) /\ req[w].todo # <<>>
          BY <1>0, <1>8, <2>1, <2>3 DEF CodeSave, backupVars
        <5> QED BY <5>1, ProceedMoves
      <4> QED BY <3>2, <4>1
    <3> QED BY <3>2, <3>3
  <2>5. Cardinality(Finders(c) \ {w}) = Cardinality(Finders(c)) - 1
    BY <1>1, <1>2, <2>3, FS_RemoveElement
  <2>6. Cardinality(Finders(c)') <= Cardinality(Finders(c) \ {w})
    BY <1>1, <1>2, <2>4, FS_Subset
  <2>7. /\ redeemed[c] \in Nat /\ Cardinality(Finders(c)) \in Nat
        /\ Cardinality(Finders(c)') \in Nat /\ Cardinality(Workers) \in Nat
    BY <1>0, <1>1, <1>2
  <2>8. c[1] <= sets
    BY <2>2 DEF RedeemInv
  <2> QED BY <1>0, <2>1, <2>5, <2>6, <2>7, <2>8
<1> QED BY <1>4, <1>5, <1>6, <1>7, <1>8, RedeemedStep

\* A backup code signs in no more requests than there are workers, for any
\* number of codes, regenerations and cut-off requests.
THEOREM BackupReuseAlwaysBounded == Spec => []BackupReuseBounded
<1>1. ASSUME NEW c PROVE /\ IsFiniteSet(Finders(c)) /\ Cardinality(Finders(c)) \in Nat
                         /\ Cardinality(Finders(c)) <= Cardinality(Workers)
                         /\ Cardinality(Workers) \in Nat
  BY WorkersAssumption, FS_Subset, FS_CardinalityType DEF Finders
<1>2. Init => RedeemInv
  <2> SUFFICES ASSUME Init PROVE RedeemInv
    OBVIOUS
  <2>1. code_rows = {} /\ \A c \in AllCodes : redeemed[c] = 0
    BY DEF Init, BackupInit
  <2> QED BY <1>1, <2>1 DEF RedeemInv
<1>3. IInv /\ RedeemInv => BackupReuseBounded
  <2> SUFFICES ASSUME IInv, RedeemInv, NEW c \in AllCodes
               PROVE  redeemed[c] <= Cardinality(Workers)
    BY DEF BackupReuseBounded
  <2>1. redeemed[c] \in Nat
    BY DEF IInv, TypeOK, BackupTypeOK
  <2> QED BY <1>1, <2>1 DEF RedeemInv
<1> QED BY <1>2, <1>3, StepRedeem, RequestsOrderly, PTL DEF Spec

\* The requests between the two statements of a regeneration, and the sets
\* that have rows.
Regenerating == {w \in Workers : AtCall(w, "codes_create")}
SetsHeld == {c[1] : c \in code_rows}

\* Both together are no more than the workers: a deletion empties the table,
\* and a worker that has made one can add a single set.
RegenInv == Cardinality(SetsHeld) + Cardinality(Regenerating) <= Cardinality(Workers)

\* Sets are finitely many.
LEMMA SetNumbersFinite == IsFiniteSet(1..MaxSets)
<1>1. 1 \in Int /\ MaxSets \in Int
  BY BackupAssumption
<1> QED BY <1>1, FS_Interval

\* Only a deletion brings a request between the two.
LEMMA RegeneratingArrive ==
    ASSUME IInv, OrderlyInv, [Next]_vars, NEW w \in Regenerating'
    PROVE  (w \in Regenerating /\ req'[w] = req[w]) \/ CodesDelete(w)
<1>1. /\ w \in Workers /\ AtCall(w, "codes_create")' /\ "codes_create" \in Seconds
      /\ Pair("codes_delete", "codes_create", req[w].todo)
  BY DEF Regenerating, OrderlyInv, Orderly, Ordered, Linked, Seconds
<1> QED BY <1>1, Arrives, CallIs DEF Regenerating

\* A deletion empties the table; an insertion adds a set and ends a request's
\* stay between the two.
LEMMA StepRegen == ASSUME IInv, OrderlyInv, RegenInv, [Next]_vars PROVE RegenInv'
<1>0. \A S : S \subseteq Workers =>
         IsFiniteSet(S) /\ Cardinality(S) \in Nat /\ Cardinality(S) <= Cardinality(Workers)
  BY WorkersAssumption, FS_Subset, FS_CardinalityType
<1>1. Regenerating \subseteq Workers /\ Regenerating' \subseteq Workers
  BY DEF Regenerating
<1>2. IsFiniteSet(SetsHeld) /\ Cardinality(SetsHeld) \in Nat
  <2>1. SetsHeld \subseteq 1..MaxSets
    BY DEF SetsHeld, IInv, TypeOK, BackupTypeOK, AllCodes
  <2> QED BY <2>1, SetNumbersFinite, FS_Subset, FS_CardinalityType
<1>3. CASE \E w \in Workers : CodesDelete(w)
  <2>1. SetsHeld' = {}
    BY <1>3 DEF CodesDelete, DeleteCodes, SetsHeld
  <2> QED BY <1>0, <1>1, <2>1, FS_EmptySet DEF RegenInv
<1>4. ASSUME \A w \in Workers : ~CodesDelete(w), NEW w \in Workers, CodesCreate(w)
      PROVE  RegenInv'
  <2>1. w \in Regenerating /\ Proceed(w) /\ req[w].todo # <<>>
    BY <1>4 DEF CodesCreate, Regenerating, AtCall
  <2>2. Regenerating' \subseteq Regenerating \ {w}
    BY <1>1, <1>4, <2>1, RegeneratingArrive, ProceedMoves
  <2>3. SetsHeld' \subseteq SetsHeld \cup {sets + 1}
    BY <1>4 DEF CodesCreate, CreateCodes, SetsHeld
  <2>4. /\ Cardinality(Regenerating') <= Cardinality(Regenerating \ {w})
        /\ Cardinality(Regenerating \ {w}) = Cardinality(Regenerating) - 1
    BY <1>0, <1>1, <2>1, <2>2, FS_Subset, FS_RemoveElement
  <2>5. /\ IsFiniteSet(SetsHeld \cup {sets + 1})
        /\ Cardinality(SetsHeld \cup {sets + 1}) \in Nat
        /\ Cardinality(SetsHeld \cup {sets + 1}) <= Cardinality(SetsHeld) + 1
    <3>1. /\ IsFiniteSet(SetsHeld \cup {sets + 1})
          /\ Cardinality(SetsHeld \cup {sets + 1})
                = IF sets + 1 \in SetsHeld THEN Cardinality(SetsHeld) ELSE Cardinality(SetsHeld) + 1
      BY <1>2, FS_AddElement
    <3> QED BY <1>2, <3>1
  <2>6. /\ Cardinality(SetsHeld') <= Cardinality(SetsHeld \cup {sets + 1})
        /\ Cardinality(SetsHeld') \in Nat
    BY <2>3, <2>5, FS_Subset, FS_CardinalityType
  <2>7. /\ Cardinality(Regenerating) \in Nat /\ Cardinality(Regenerating') \in Nat
        /\ Cardinality(Workers) \in Nat
    BY <1>0, <1>1
  <2> QED BY <1>2, <2>4, <2>5, <2>6, <2>7 DEF RegenInv
<1>5. CASE \A w \in Workers : ~CodesDelete(w) /\ ~CodesCreate(w)
  <2>1. SetsHeld' = SetsHeld
    BY <1>5, CodesKept DEF SetsHeld
  <2>2. Regenerating' \subseteq Regenerating
    BY <1>1, <1>5, RegeneratingArrive
  <2>3. Cardinality(Regenerating') <= Cardinality(Regenerating)
    BY <1>0, <1>1, <2>2, FS_Subset
  <2> QED BY <1>0, <1>1, <1>2, <2>1, <2>3 DEF RegenInv
<1> QED BY <1>3, <1>4, <1>5

\* Regenerations that overlap leave no more sets of codes than there are
\* workers, however many there were before.
THEOREM SetsAlwaysBounded == Spec => []SetsBounded
<1>1. Cardinality(Regenerating) \in Nat /\ Cardinality(Regenerating) <= Cardinality(Workers)
      /\ Cardinality(Workers) \in Nat
  BY WorkersAssumption, FS_Subset, FS_CardinalityType DEF Regenerating
<1>2. Init => RegenInv
  <2> SUFFICES ASSUME Init PROVE RegenInv
    OBVIOUS
  <2>1. SetsHeld = {}
    BY DEF Init, BackupInit, SetsHeld
  <2> QED BY <1>1, <2>1, FS_EmptySet DEF RegenInv
<1>3. IInv /\ RegenInv => SetsBounded
  <2> SUFFICES ASSUME IInv, RegenInv PROVE SetsBounded
    OBVIOUS
  <2>1. SetsHeld \subseteq 1..MaxSets
    BY DEF SetsHeld, IInv, TypeOK, BackupTypeOK, AllCodes
  <2>2. Cardinality(SetsHeld) \in Nat
    BY <2>1, SetNumbersFinite, FS_Subset, FS_CardinalityType
  <2> QED BY <1>1, <2>2 DEF RegenInv, SetsBounded, SetsHeld
<1> QED BY <1>2, <1>3, StepRegen, RequestsOrderly, PTL DEF Spec
=============================================================================
