---------------------------- MODULE AccountProofs -----------------------------
(***************************************************************************)
(* Proofs about AccountService for every number of workers, every set of   *)
(* endpoints and every limit.                                              *)
(*                                                                         *)
(* RowInv and SecretConfirmed are not inductive: a write puts back a copy  *)
(* of the row that was read earlier.  They become inductive when the same  *)
(* is said of the copies the requests carry (Safe below): a copy is        *)
(* made from a safe row by changes that keep it safe, `confirmed' only     *)
(* grows, and RepoUpdate keeps, of the row it overwrites, only columns the *)
(* properties do not mention.                                              *)
(***************************************************************************)
EXTENDS AccountProperties, TLAPS

Hashes == Passwords \cup {Unusable}
Safe(r) == RowConsistent(r) /\ Shown(r)
IInv == TypeOK /\ Safe(row) /\ \A w \in Workers : Safe(req[w].entity)

-----------------------------------------------------------------------------
(***************************************************************************)
(* Requests are well formed.                                               *)
(***************************************************************************)

\* A new account's row is a row of the table, with no second factor and no
\* failed attempt.
LEMMA NewRowSafe ==
    ASSUME NEW n \in Names, NEW h \in Hashes, NEW v \in BOOLEAN
    PROVE  NewRow(n, h, v) \in Row /\ Safe(NewRow(n, h, v))
<1>1. NewRow(n, h, v) \in Row
  BY DEF NewRow, Row, Hashes
<1>2. Safe(NewRow(n, h, v))
  BY AccountAssumption DEF NewRow, Safe, RowConsistent, TypeRecorded, TotpHasSecret,
     LimitHasLock, Shown
<1> QED BY <1>1, <1>2

\* The placeholder copy of a request that carries none is such a row.
LEMMA NoRowSafe == NoRow \in Row /\ Safe(NoRow)
<1>1. (CHOOSE n \in Names : TRUE) \in Names
  BY UserEntityAssumption
<1> QED BY <1>1, NewRowSafe DEF NoRow, Hashes

\* A worker that serves nothing.
LEMMA IdleSafe == Idle \in Request /\ Safe(Idle.entity)
<1>1. <<>> \in Seq(Calls)
  OBVIOUS
<1>2. NoRow \in Row /\ Safe(NoRow)
  BY NoRowSafe
<1>3. MaxCodes \in Nat /\ MaxTokens \in Nat
  BY OtpAssumption, TokenAssumption
<1>4. Idle \in Request
  BY <1>1, <1>2, <1>3 DEF Idle, Request, Namespaces
<1> QED BY <1>2, <1>4 DEF Idle

\* A request that has just been read.
LEMMA BeginSafe ==
    ASSUME NEW op \in OpNames \cup {"idle", "authenticated"}, NEW todo \in Seq(Calls)
    PROVE  Begin(op, todo) \in Request /\ Safe(Begin(op, todo).entity)
<1>1. Begin(op, todo) \in Request
  BY IdleSafe DEF Begin, Request
<1>2. Begin(op, todo).entity = Idle.entity
  BY IdleSafe DEF Begin, Request
<1> QED BY <1>1, <1>2, IdleSafe

\* A request that carries a changed copy of the row.
LEMMA BeginWithSafe ==
    ASSUME NEW op \in OpNames \cup {"idle", "authenticated"}, NEW todo \in Seq(Calls),
           NEW entity \in Row, Safe(entity)
    PROVE  /\ BeginWith(op, todo, entity) \in Request
           /\ BeginWith(op, todo, entity).entity = entity
<1>1. Begin(op, todo) \in Request
  BY BeginSafe
<1> QED BY <1>1 DEF BeginWith, Request

\* Answering a call keeps a request well formed and its copy of the row safe.
LEMMA AfterSafe ==
    ASSUME NEW r \in Request, r.todo # <<>>, Safe(r.entity)
    PROVE  After(r) \in Request /\ Safe(After(r).entity)
<1>1. r.todo \in Seq(Calls)
  BY DEF Request
<1>2. Tail(r.todo) \in Seq(Calls)
  BY <1>1
<1>3. CASE Tail(r.todo) = <<>>
  BY <1>3, IdleSafe DEF After
<1>4. CASE Tail(r.todo) # <<>>
  <2>1. After(r) = [r EXCEPT !.todo = Tail(r.todo)]
    BY <1>4 DEF After
  <2>2. After(r) \in Request /\ After(r).entity = r.entity
    BY <1>2, <2>1 DEF Request
  <2> QED BY <2>2
<1> QED BY <1>3, <1>4

-----------------------------------------------------------------------------
(***************************************************************************)
(* The two kinds of step.                                                  *)
(***************************************************************************)

\* A step that leaves one worker with a well-formed request and does not
\* touch the account.
LEMMA PutKeepsIInv ==
    ASSUME IInv, NEW w \in Workers, NEW r \in Request, Safe(r.entity),
           req' = [req EXCEPT ![w] = r], UNCHANGED accountVars, FaultTypeOK',
           OtpTypeOK', TokenTypeOK', BackupTypeOK', HistoryTypeOK'
    PROVE  IInv'
<1>1. TypeOK'
  BY DEF IInv, TypeOK, accountVars
<1>2. Safe(row)'
  BY DEF IInv, Safe, Shown, accountVars
<1>3. ASSUME NEW v \in Workers PROVE Safe(req[v].entity)'
  <2>1. Safe(req'[v].entity)
    BY DEF IInv, TypeOK
  <2> QED BY <2>1 DEF Safe, Shown, accountVars
<1> QED BY <1>1, <1>2, <1>3 DEF IInv

\* A handler that only leaves a well-formed request behind.
LEMMA ServeKeepsIInv ==
    ASSUME IInv, NEW w \in Workers, NEW r \in Request, Safe(r.entity),
           Serve(w, r), UNCHANGED accountVars,
           OtpTypeOK', TokenTypeOK', BackupTypeOK', HistoryTypeOK'
    PROVE  IInv'
<1>1. FaultTypeOK'
  BY DEF Serve, IInv, TypeOK, FaultTypeOK, faultVars
<1> QED BY <1>1, PutKeepsIInv DEF Serve

\* The same when the state outside the account is untouched as well.
LEMMA LocalKeepsIInv ==
    ASSUME IInv, NEW w \in Workers, NEW r \in Request, Safe(r.entity),
           Serve(w, r), Local
    PROVE  IInv'
<1>1. OtpTypeOK' /\ TokenTypeOK' /\ BackupTypeOK' /\ HistoryTypeOK'
  BY DEF IInv, TypeOK, Local, OtpTypeOK, TokenTypeOK, BackupTypeOK, HistoryTypeOK,
     otpVars, tokenVars, backupVars, historyVars
<1> QED BY <1>1, ServeKeepsIInv DEF Local

\* A call that is answered, with what it returned kept in the request.
LEMMA AnswerKeepsIInv ==
    ASSUME IInv, NEW w \in Workers, NEW q \in Request, q.todo # <<>>, Safe(q.entity),
           ProceedWith(w, q), UNCHANGED accountVars,
           OtpTypeOK', TokenTypeOK', BackupTypeOK', HistoryTypeOK'
    PROVE  IInv'
<1>1. After(q) \in Request /\ Safe(After(q).entity)
  BY AfterSafe
<1>2. FaultTypeOK'
  BY DEF ProceedWith, IInv, TypeOK, FaultTypeOK
<1> QED BY <1>1, <1>2, PutKeepsIInv DEF ProceedWith

\* A call that is answered, or fails.
LEMMA ProceedKeepsIInv ==
    ASSUME IInv, NEW w \in Workers, req[w].todo # <<>>, Proceed(w) \/ Fail(w),
           UNCHANGED accountVars,
           OtpTypeOK', TokenTypeOK', BackupTypeOK', HistoryTypeOK'
    PROVE  IInv'
<1>1. req[w] \in Request /\ Safe(req[w].entity)
  BY DEF IInv, TypeOK
<1>2. CASE Proceed(w)
  BY <1>1, <1>2, AnswerKeepsIInv DEF Proceed
<1>3. CASE Fail(w)
  BY <1>3, IdleSafe, ServeKeepsIInv DEF Fail
<1> QED BY <1>2, <1>3

\* A request that is cut off.
LEMMA InterruptKeepsIInv ==
    ASSUME IInv, NEW w \in Workers, Interrupt(w)
    PROVE  IInv'
<1>1. OtpTypeOK' /\ TokenTypeOK' /\ BackupTypeOK' /\ HistoryTypeOK'
  BY DEF Interrupt, IInv, TypeOK, OtpTypeOK, TokenTypeOK, BackupTypeOK, HistoryTypeOK,
     otpVars, tokenVars, backupVars, historyVars
<1>2. FaultTypeOK'
  BY DEF Interrupt, IInv, TypeOK, FaultTypeOK
<1> QED BY <1>1, <1>2, IdleSafe, PutKeepsIInv DEF Interrupt

-----------------------------------------------------------------------------
(***************************************************************************)
(* The calls.                                                              *)
(***************************************************************************)

\* Every call on Redis, the token tables, the history or the backup codes.
LEMMA OtherCallsKeepIInv ==
    ASSUME IInv, NEW w \in Workers, Call(w), ~UpdateUser(w)
    PROVE  IInv'
<1> USE DEF AtCall
<1>0. /\ OtpTypeOK /\ TokenTypeOK /\ BackupTypeOK /\ HistoryTypeOK
      /\ req[w] \in Request /\ Safe(req[w].entity)
  BY DEF IInv, TypeOK
<1>1. /\ UNCHANGED otpVars => OtpTypeOK'
      /\ UNCHANGED tokenVars => TokenTypeOK'
      /\ UNCHANGED backupVars => BackupTypeOK'
      /\ UNCHANGED historyVars => HistoryTypeOK'
  BY <1>0 DEF OtpTypeOK, TokenTypeOK, BackupTypeOK, HistoryTypeOK,
     otpVars, tokenVars, backupVars, historyVars
<1>2. CASE OtpGet(w)
  <2>1. CASE Matches(req[w].ns, req[w].code) /\ Accept(req[w].code) /\ Proceed(w)
    <3>1. req[w].code \in 1..MaxCodes
      BY <1>0, <2>1, OtpAssumption DEF OtpTypeOK, Matches, Request
    <3>2. OtpTypeOK'
      BY <1>0, <2>1, <3>1 DEF OtpTypeOK, Accept
    <3> QED BY <1>1, <1>2, <2>1, <3>2, ProceedKeepsIInv DEF OtpGet
  <2>2. CASE UNCHANGED otpVars /\ Fail(w)
    BY <1>1, <1>2, <2>2, ProceedKeepsIInv DEF OtpGet
  <2> QED BY <1>2, <2>1, <2>2 DEF OtpGet
<1>3. CASE OtpDelete(w)
  <2>0. 0 \in 0..MaxCodes
    BY OtpAssumption
  <2>1. otp' \in [Namespaces -> 0..MaxCodes]
    BY <1>0, <1>3, <2>0 DEF OtpDelete, Delete, OtpTypeOK
  <2>2. deleted' \subseteq 0..MaxCodes
    BY <1>0, <1>3 DEF OtpDelete, Delete, OtpTypeOK, Request
  <2>3. OtpTypeOK'
    BY <1>0, <1>3, <2>1, <2>2 DEF OtpDelete, Delete, OtpTypeOK
  <2> QED BY <1>1, <1>3, <2>3, ProceedKeepsIInv DEF OtpDelete
<1>4. CASE OtpSet(w)
  <2>1. OtpTypeOK'
    BY <1>0, <1>4, OtpAssumption DEF OtpSet, Setex, OtpTypeOK, Request
  <2> QED BY <1>1, <1>4, <2>1, ProceedKeepsIInv DEF OtpSet
<1>5. CASE HistoryCheck(w)
  BY <1>1, <1>5, ProceedKeepsIInv DEF HistoryCheck
<1>6. CASE HistoryInsert(w)
  <2>1. HistoryTypeOK'
    BY <1>0, <1>6, HistoryAssumption DEF HistoryInsert, InsertHash, HistoryTypeOK,
       Request
  <2> QED BY <1>1, <1>6, <2>1, ProceedKeepsIInv DEF HistoryInsert
<1>7. CASE HistoryList(w)
  <2>1. IdsToKeep \in SUBSET (1..MaxRecords)
    BY <1>0 DEF HistoryTypeOK, IdsToKeep, MostRecent
  <2> DEFINE q == [req[w] EXCEPT !.keep = IdsToKeep]
  <2>2. q \in Request /\ q.todo = req[w].todo /\ q.entity = req[w].entity
    BY <1>0, <2>1 DEF Request
  <2>3. q.todo # <<>> /\ Safe(q.entity) /\ ProceedWith(w, q) /\ UNCHANGED accountVars
    BY <1>0, <1>7, <2>2 DEF HistoryList
  <2> QED BY <1>1, <2>2, <1>7, <2>3, AnswerKeepsIInv DEF HistoryList
<1>8. CASE HistoryPrune(w)
  <2> DEFINE q == [req[w] EXCEPT !.keep = {}]
  <2>1. q \in Request /\ q.todo = req[w].todo /\ q.entity = req[w].entity
    BY <1>0 DEF Request
  <2>2. q.todo # <<>> /\ Safe(q.entity) /\ ProceedWith(w, q) /\ UNCHANGED accountVars
    BY <1>0, <1>8, <2>1 DEF HistoryPrune
  <2>3. HistoryTypeOK'
    BY <1>0, <1>8 DEF HistoryPrune, PruneExcept, HistoryTypeOK
  <2> QED BY <1>1, <2>1, <1>8, <2>3, <2>2, AnswerKeepsIInv DEF HistoryPrune
<1>9. CASE CheckUserActive(w)
  BY <1>1, <1>9, ProceedKeepsIInv DEF CheckUserActive
<1>10. CASE IssueToken(w)
  <2>1. outstanding + 1 \in 0..MaxTokens /\ TokenTypeOK'
    BY <1>0, <1>10, TokenAssumption DEF IssueToken, RecordOutstanding, TokenTypeOK
  <2> DEFINE q == [req[w] EXCEPT !.issued = outstanding + 1]
  <2>2. q \in Request /\ q.todo = req[w].todo /\ q.entity = req[w].entity
    BY <1>0, <2>1 DEF Request
  <2>3. q.todo # <<>> /\ Safe(q.entity) /\ ProceedWith(w, q) /\ UNCHANGED accountVars
    BY <1>0, <1>10, <2>2 DEF IssueToken
  <2> QED BY <1>1, <2>2, <1>10, <2>1, <2>3, AnswerKeepsIInv DEF IssueToken
<1>11. CASE SessionCheck(w)
  BY <1>1, <1>11, ProceedKeepsIInv DEF SessionCheck
<1>12. CASE SessionCreate(w)
  <2>1. TokenTypeOK'
    BY <1>0, <1>12 DEF SessionCreate, CreateSession, TokenTypeOK, Request
  <2> QED BY <1>1, <1>12, <2>1, ProceedKeepsIInv DEF SessionCreate
<1>13. CASE BlacklistToken(w)
  <2>1. TokenTypeOK'
    BY <1>0, <1>13 DEF BlacklistToken, Blacklist, TokenTypeOK, Request
  <2> QED BY <1>1, <1>13, <2>1, ProceedKeepsIInv DEF BlacklistToken
<1>14. CASE SessionOff(w)
  <2>1. TokenTypeOK'
    BY <1>0, <1>14 DEF SessionOff, DeactivateSession, TokenTypeOK
  <2> QED BY <1>1, <1>14, <2>1, ProceedKeepsIInv DEF SessionOff
<1>15. CASE Touch(w)
  <2>1. TokenTypeOK'
    BY <1>0, <1>15 DEF Touch, TouchSession, TokenTypeOK, tokenVars
  <2> QED BY <1>1, <1>15, <2>1, ProceedKeepsIInv DEF Touch
<1>16. CASE TokensQuery(w)
  <2>1. outstanding \in 0..MaxTokens /\ Outstanding \in SUBSET (1..MaxTokens)
    BY <1>0, TokenAssumption DEF TokenTypeOK, Outstanding
  <2> DEFINE q == [req[w] EXCEPT !.seen = outstanding, !.toks = Outstanding]
  <2>2. q \in Request /\ q.todo = req[w].todo /\ q.entity = req[w].entity
    BY <1>0, <2>1 DEF Request
  <2>3. q.todo # <<>> /\ Safe(q.entity) /\ ProceedWith(w, q) /\ UNCHANGED accountVars
    BY <1>0, <1>16, <2>2 DEF TokensQuery
  <2> QED BY <1>1, <2>2, <1>16, <2>3, AnswerKeepsIInv DEF TokensQuery
<1>17. CASE BlacklistEach(w)
  <2>1. CASE Proceed(w) /\ UNCHANGED tokenVars
    BY <1>1, <1>17, <2>1, ProceedKeepsIInv DEF BlacklistEach
  <2>2. ASSUME NEW t \in req[w].toks, Blacklist(t),
               Serve(w, [req[w] EXCEPT !.toks = @ \ {t}])
        PROVE  IInv'
    <3> DEFINE q == [req[w] EXCEPT !.toks = @ \ {t}]
    <3>1. q \in Request /\ q.entity = req[w].entity
      BY <1>0 DEF Request
    <3>2. TokenTypeOK'
      BY <1>0, <2>2, TokenAssumption DEF Blacklist, TokenTypeOK, Request
    <3> QED BY <1>0, <1>1, <1>17, <2>2, <3>1, <3>2, ServeKeepsIInv DEF BlacklistEach
  <2> QED BY <1>17, <2>1, <2>2 DEF BlacklistEach
<1>18. CASE SessionsOff(w)
  <2>1. TokenTypeOK'
    BY <1>0, <1>18 DEF SessionsOff, DeactivateAllSessions, TokenTypeOK
  <2> QED BY <1>1, <1>18, <2>1, ProceedKeepsIInv DEF SessionsOff
<1>19. CASE CodesDelete(w)
  <2>1. BackupTypeOK'
    BY <1>0, <1>19 DEF CodesDelete, DeleteCodes, BackupTypeOK
  <2> QED BY <1>1, <1>19, <2>1, ProceedKeepsIInv DEF CodesDelete
<1>20. CASE CodesCreate(w)
  <2>1. BackupTypeOK'
    BY <1>0, <1>20, BackupAssumption DEF CodesCreate, CreateCodes, BackupTypeOK,
       AllCodes
  <2> QED BY <1>1, <1>20, <2>1, ProceedKeepsIInv DEF CodesCreate
<1>21. CASE CodesFind(w)
  BY <1>1, <1>21, ProceedKeepsIInv DEF CodesFind
<1>22. CASE CodeSave(w)
  <2>1. CASE Saveable(req[w].backup) /\ MarkUsed(req[w].backup) /\ Proceed(w)
    <3>1. BackupTypeOK'
      BY <1>0, <2>1 DEF Saveable, MarkUsed, BackupTypeOK
    <3> QED BY <1>1, <1>22, <2>1, <3>1, ProceedKeepsIInv DEF CodeSave
  <2>2. CASE UNCHANGED backupVars /\ Fail(w)
    BY <1>1, <1>22, <2>2, ProceedKeepsIInv DEF CodeSave
  <2> QED BY <1>22, <2>1, <2>2 DEF CodeSave
<1> QED
  BY <1>2, <1>3, <1>4, <1>5, <1>6, <1>7, <1>8, <1>9, <1>10, <1>11, <1>12, <1>13,
     <1>14, <1>15, <1>16, <1>17, <1>18, <1>19, <1>20, <1>21, <1>22 DEF Call

\* Safety looks at four columns of the second factor and at the failure count
\* with its lock.
LEMMA SameSecondFactor ==
    ASSUME NEW r, NEW u, Safe(r), LimitHasLock(u),
           u.mfa_enabled = r.mfa_enabled, u.mfa_type = r.mfa_type,
           u.mfa_secret = r.mfa_secret, u.deleted_at = r.deleted_at
    PROVE  Safe(u)
  BY DEF Safe, RowConsistent, TypeRecorded, TotpHasSecret, Shown

\* What a login does to the copy of the row.
LEMMA WithCount ==
    ASSUME NEW r \in Row, Safe(r), NEW f \in Nat, NEW l \in Nat,
           f >= MaxFailedAttempts => l # 0
    PROVE  LET e == [r EXCEPT !.failed_login_attempts = f, !.locked_until = l]
           IN  e \in Row /\ Safe(e)
<1> DEFINE e == [r EXCEPT !.failed_login_attempts = f, !.locked_until = l]
<1>1. e \in Row
  BY DEF Row
<1>2. e.failed_login_attempts = f /\ e.locked_until = l
  BY DEF Row
<1>3. /\ e.mfa_enabled = r.mfa_enabled /\ e.mfa_type = r.mfa_type
      /\ e.mfa_secret = r.mfa_secret /\ e.deleted_at = r.deleted_at
  BY DEF Row
<1> HIDE DEF e
<1>4. LimitHasLock(e)
  BY <1>2 DEF LimitHasLock
<1>5. Safe(e)
  BY <1>3, <1>4, SameSecondFactor
<1> QED BY <1>1, <1>5 DEF e

\* What the repository writes: the copy, but for two columns of the row.
LEMMA UpdatedSafe ==
    ASSUME NEW r \in Row, NEW c \in Row, Safe(c)
    PROVE  RepoUpdate(r, c) \in Row /\ Safe(RepoUpdate(r, c))
<1> DEFINE u == RepoUpdate(r, c)
<1>1. r.email \in {"own", "redacted"} /\ r.scheduled_deletion_at \in BOOLEAN
  BY DEF Row
<1>2. u \in Row
  <2>1. \A e \in {"own", "redacted"} : [c EXCEPT !.email = e] \in Row
    BY DEF Row
  <2>2. \A d \in Row, b \in BOOLEAN : [d EXCEPT !.scheduled_deletion_at = b] \in Row
    BY DEF Row
  <2>3. u = [[c EXCEPT !.email = r.email]
                EXCEPT !.scheduled_deletion_at = r.scheduled_deletion_at]
    BY DEF RepoUpdate
  <2> QED BY <1>1, <2>1, <2>2, <2>3
<1>3. /\ u.mfa_enabled = c.mfa_enabled /\ u.mfa_type = c.mfa_type
      /\ u.mfa_secret = c.mfa_secret /\ u.deleted_at = c.deleted_at
  BY DEF RepoUpdate, Row
<1>4. /\ u.failed_login_attempts = c.failed_login_attempts
      /\ u.locked_until = c.locked_until
  BY DEF RepoUpdate, Row
<1>5. LimitHasLock(c)
  BY DEF Safe, RowConsistent
<1> HIDE DEF u
<1>6. LimitHasLock(u)
  BY <1>4, <1>5 DEF LimitHasLock
<1>7. Safe(u)
  BY <1>3, <1>6, SameSecondFactor
<1> QED BY <1>2, <1>7 DEF u

\* The write of the row: the request's copy, which is safe, but for columns
\* that safety does not depend on.
LEMMA UpdateUserKeepsIInv ==
    ASSUME IInv, NEW w \in Workers, UpdateUser(w)
    PROVE  IInv'
<1>1. /\ OtpTypeOK /\ TokenTypeOK /\ BackupTypeOK /\ HistoryTypeOK
      /\ row \in Row /\ req[w] \in Request /\ Safe(req[w].entity)
  BY DEF IInv, TypeOK
<1>2. req[w].entity \in Row
  BY <1>1 DEF Request
<1>3. RepoUpdate(row, req[w].entity) \in Row /\ Safe(RepoUpdate(row, req[w].entity))
  BY <1>1, <1>2, UpdatedSafe
<1>4. row' = RepoUpdate(row, req[w].entity) /\ UNCHANGED <<now, confirmed>>
  BY DEF UpdateUser
<1> DEFINE q == [req[w] EXCEPT !.entity = NoRow]
<1>5. After(q) \in Request /\ Safe(After(q).entity) /\ req' = [req EXCEPT ![w] = After(q)]
  <2>1. q \in Request /\ q.todo = req[w].todo /\ q.entity = NoRow
    BY <1>1, NoRowSafe DEF Request
  <2>2. After(q) \in Request /\ Safe(After(q).entity)
    BY <2>1, NoRowSafe, AfterSafe DEF UpdateUser, AtCall
  <2> QED BY <2>2 DEF UpdateUser, ProceedWith
<1>6. guesses' \in Nat
  BY DEF UpdateUser, IInv, TypeOK
<1>7. HistoryTypeOK'
  <2>1. row.password_hash \in Hashes
    BY <1>1 DEF Row, Hashes
  <2>2. Replaced(row.password_hash) \in Seq(Hashes)
    BY <1>1, <2>1 DEF Replaced, HistoryTypeOK, Hashes
  <2>3. replaced' \in Seq(Hashes) /\ UNCHANGED <<history, recorded>>
    BY <1>1, <2>2 DEF UpdateUser, HistoryTypeOK, Hashes
  <2> QED BY <1>1, <2>3 DEF HistoryTypeOK, Hashes
<1>8. OtpTypeOK' /\ TokenTypeOK' /\ BackupTypeOK' /\ FaultTypeOK'
  BY <1>1 DEF UpdateUser, ProceedWith, OtpTypeOK, TokenTypeOK, BackupTypeOK, otpVars,
     tokenVars, backupVars, FaultTypeOK, IInv, TypeOK
<1>9. TypeOK'
  BY <1>3, <1>4, <1>5, <1>6, <1>7, <1>8 DEF TypeOK, IInv
<1>10. ASSUME NEW v \in Workers PROVE Safe(req[v].entity)'
  <2>1. Safe(req'[v].entity)
    BY <1>5 DEF IInv, TypeOK
  <2> QED BY <1>4, <2>1 DEF Safe, Shown
<1>11. Safe(row)'
  BY <1>3, <1>4 DEF Safe, Shown
<1> QED BY <1>9, <1>10, <1>11 DEF IInv

-----------------------------------------------------------------------------
(***************************************************************************)
(* The handlers.                                                           *)
(***************************************************************************)

\* The sequences of calls the handlers prescribe.
LEMMA TodoTypes ==
    /\ <<>> \in Seq(Calls) /\ <<"update">> \in Seq(Calls) /\ <<"otp_set">> \in Seq(Calls)
    /\ Issue \in Seq(Calls) /\ Consume \in Seq(Calls) /\ Sweep \in Seq(Calls)
    /\ Generate \in Seq(Calls) /\ SetPassword \in Seq(Calls)
    /\ <<"codes_find", "code_save">> \in Seq(Calls)
    /\ <<"user_active", "blacklist", "issue", "touch">> \in Seq(Calls)
    /\ <<"blacklist", "session_off">> \in Seq(Calls) /\ <<"blacklist">> \in Seq(Calls)
<1>1. <<"history_check", "update">> \in Seq(Calls) /\ Record \in Seq(Calls) /\ Sweep \in Seq(Calls)
  BY DEF Calls, Record, Sweep
<1>2. SetPassword \in Seq(Calls)
  BY <1>1 DEF SetPassword
<1> QED BY <1>1, <1>2 DEF Calls, Issue, Consume, Generate

\* Joined sequences.
LEMMA TodoConcat == \A s, t \in Seq(Calls) : s \o t \in Seq(Calls)
  OBVIOUS

\* A request told which namespace to write.
LEMMA FilledNs ==
    ASSUME NEW r \in Request, Safe(r.entity), 
           NEW ns \in Namespaces
    PROVE  /\ [r EXCEPT !.ns = ns] \in Request
           /\ Safe([r EXCEPT !.ns = ns].entity)
<1>1. /\ [r EXCEPT !.ns = ns] \in Request
      /\ [r EXCEPT !.ns = ns].entity = r.entity
  BY DEF Request
<1> QED BY <1>1

\* A request told which one-time password to look up.
LEMMA FilledCode ==
    ASSUME NEW r \in Request, Safe(r.entity), 
           NEW ns \in Namespaces, NEW code \in 0..MaxCodes
    PROVE  /\ [r EXCEPT !.ns = ns, !.code = code] \in Request
           /\ Safe([r EXCEPT !.ns = ns, !.code = code].entity)
<1>1. /\ [r EXCEPT !.ns = ns, !.code = code] \in Request
      /\ [r EXCEPT !.ns = ns, !.code = code].entity = r.entity
  BY DEF Request
<1> QED BY <1>1

\* A request told which password replaces which.
LEMMA FilledChange ==
    ASSUME NEW r \in Request, Safe(r.entity), 
           NEW old \in Hashes, NEW new \in Hashes
    PROVE  /\ [r EXCEPT !.old = old, !.new = new] \in Request
           /\ Safe([r EXCEPT !.old = old, !.new = new].entity)
<1>1. /\ [r EXCEPT !.old = old, !.new = new] \in Request
      /\ [r EXCEPT !.old = old, !.new = new].entity = r.entity
  BY DEF Request, Hashes
<1> QED BY <1>1

\* A request told both.
LEMMA FilledReset ==
    ASSUME NEW r \in Request, Safe(r.entity), 
           NEW ns \in Namespaces, NEW code \in 0..MaxCodes,
           NEW old \in Hashes, NEW new \in Hashes
    PROVE  /\ [r EXCEPT !.ns = ns, !.code = code, !.old = old, !.new = new] \in Request
           /\ Safe([r EXCEPT !.ns = ns, !.code = code, !.old = old, !.new = new].entity)
<1>1. /\ [r EXCEPT !.ns = ns, !.code = code, !.old = old, !.new = new] \in Request
      /\ [r EXCEPT !.ns = ns, !.code = code, !.old = old, !.new = new].entity = r.entity
  BY DEF Request, Hashes
<1> QED BY <1>1

\* A request told which refresh token to work on.
LEMMA FilledJti ==
    ASSUME NEW r \in Request, Safe(r.entity), NEW jti \in 0..MaxTokens
    PROVE  /\ [r EXCEPT !.jti = jti] \in Request
           /\ Safe([r EXCEPT !.jti = jti].entity)
<1>1. /\ [r EXCEPT !.jti = jti] \in Request
      /\ [r EXCEPT !.jti = jti].entity = r.entity
  BY DEF Request
<1> QED BY <1>1

\* A request told which backup code to redeem.
LEMMA FilledBackup ==
    ASSUME NEW r \in Request, Safe(r.entity), NEW backup \in AllCodes
    PROVE  /\ [r EXCEPT !.backup = backup] \in Request
           /\ Safe([r EXCEPT !.backup = backup].entity)
<1>1. /\ [r EXCEPT !.backup = backup] \in Request
      /\ [r EXCEPT !.backup = backup].entity = r.entity
  BY DEF Request
<1> QED BY <1>1

\* Every handler but the two below leaves the state outside `req' alone and
\* leaves a request whose copy of the row, if it carries one, is safe.
LEMMA HandlersKeepIInv ==
    ASSUME IInv, NEW w \in Workers, Handle(w)
    PROVE  IInv'
<1>0. /\ row \in Row /\ Safe(row) /\ now \in Nat /\ guesses \in Nat
      /\ minted \in 0..MaxCodes /\ 1..minted \subseteq 0..MaxCodes
      /\ Live \subseteq 0..MaxTokens /\ sessions \subseteq 0..MaxTokens
      /\ (1..sets) \X (1..CodesPerUser) \subseteq AllCodes
  <2>1. row \in Row /\ Safe(row) /\ now \in Nat /\ guesses \in Nat
    BY DEF IInv, TypeOK
  <2>2. minted \in 0..MaxCodes /\ 1..minted \subseteq 0..MaxCodes
    BY OtpAssumption DEF IInv, TypeOK, OtpTypeOK
  <2>3. Live \subseteq 0..MaxTokens /\ sessions \subseteq 0..MaxTokens
    BY TokenAssumption DEF IInv, TypeOK, TokenTypeOK, Live, Outstanding
  <2>4. (1..sets) \X (1..CodesPerUser) \subseteq AllCodes
    BY BackupAssumption DEF IInv, TypeOK, BackupTypeOK, AllCodes
  <2> QED BY <2>1, <2>2, <2>3, <2>4
<1>1. /\ "idle" \in OpNames \cup {"idle", "authenticated"}
      /\ "authenticated" \in OpNames \cup {"idle", "authenticated"}
      /\ OpNames \subseteq OpNames \cup {"idle", "authenticated"}
  OBVIOUS
<1>2. CASE Authenticate(w)
  BY <1>2, TodoTypes, BeginSafe, LocalKeepsIInv DEF Authenticate
<1>3. CASE EndUnchanged(w)
  BY <1>3, IdleSafe, LocalKeepsIInv DEF EndUnchanged, Fail
<1>4. CASE LoginWrongPassword(w)
  <2> DEFINE failed == row.failed_login_attempts + 1
             until  == IF failed >= MaxFailedAttempts THEN now + LockoutTicks
                       ELSE row.locked_until
             e == [row EXCEPT !.failed_login_attempts = failed, !.locked_until = until]
             r == BeginWith("login", <<"update">>, e)
  <2>1. e \in Row /\ Safe(e)
    <3>1. failed \in Nat /\ until \in Nat /\ (failed >= MaxFailedAttempts => until # 0)
      <4>1. row.failed_login_attempts \in Nat /\ row.locked_until \in Nat
        BY <1>0 DEF Row
      <4> QED BY <1>0, <4>1, AccountAssumption
    <3> HIDE DEF failed, until
    <3> QED BY <1>0, <3>1, WithCount
  <2> HIDE DEF e
  <2>2. r \in Request /\ Safe(r.entity)
    BY <2>1, TodoTypes, BeginWithSafe DEF OpNames
  <2>3. Serve(w, r) /\ UNCHANGED <<row, now, confirmed, otpVars, tokenVars, historyVars, backupVars>>
        /\ guesses' = guesses + 1
    BY <1>4 DEF LoginWrongPassword, e
  <2> HIDE DEF r
  <2>4. OtpTypeOK' /\ TokenTypeOK' /\ BackupTypeOK' /\ HistoryTypeOK'
    BY <2>3 DEF IInv, TypeOK, OtpTypeOK, TokenTypeOK, BackupTypeOK, HistoryTypeOK,
       otpVars, tokenVars, backupVars, historyVars
  <2>5. TypeOK'
    BY <1>0, <2>2, <2>3, <2>4 DEF IInv, TypeOK, Serve, FaultTypeOK, faultVars
  <2>6. ASSUME NEW v \in Workers PROVE Safe(req[v].entity)'
    <3>1. Safe(req'[v].entity)
      BY <2>2, <2>3 DEF IInv, TypeOK, Serve
    <3> QED BY <2>3, <3>1 DEF Safe, Shown
  <2>7. Safe(row)'
    BY <1>0, <2>3 DEF Safe, Shown
  <2> QED BY <2>5, <2>6, <2>7 DEF IInv
<1>5. CASE LoginRightPassword(w)
  <2> DEFINE e == [row EXCEPT !.failed_login_attempts = 0, !.locked_until = 0]
             b == BeginWith("login", <<"update">> \o AfterPassword(row), e)
  <2>1. e \in Row /\ Safe(e)
    <3>1. ~(0 >= MaxFailedAttempts) /\ 0 \in Nat
      BY AccountAssumption
    <3> QED BY <1>0, <3>1, WithCount
  <2> HIDE DEF e
  <2>2. AfterPassword(row) \in Seq(Calls)
    BY <1>0, TodoTypes DEF AfterPassword, MfaType, Row, MfaTypes
  <2>3. b \in Request /\ Safe(b.entity)
    BY <2>1, <2>2, TodoTypes, TodoConcat, BeginWithSafe DEF OpNames
  <2>4. Serve(w, [b EXCEPT !.ns = "mfa_login"]) /\ Local
    BY <1>5 DEF LoginRightPassword, e
  <2> HIDE DEF b
  <2>5. [b EXCEPT !.ns = "mfa_login"] \in Request /\ Safe([b EXCEPT !.ns = "mfa_login"].entity)
    BY <2>3, FilledNs DEF Namespaces
  <2> QED BY <2>4, <2>5, LocalKeepsIInv
<1>6. CASE MfaChallenge(w)
  <2>1. ASSUME NEW code \in 1..minted,
               Serve(w, [Begin("mfa_challenge", Consume \o Issue)
                         EXCEPT !.ns = "mfa_login", !.code = code])
        PROVE  IInv'
    <3> DEFINE b == Begin("mfa_challenge", Consume \o Issue)
    <3>1. b \in Request /\ Safe(b.entity)
      BY TodoTypes, TodoConcat, BeginSafe DEF OpNames
    <3> HIDE DEF b
    <3> QED BY <1>0, <1>6, <2>1, <3>1, FilledCode, LocalKeepsIInv
            DEF b, MfaChallenge, Namespaces
  <2>2. CASE Serve(w, Begin("mfa_challenge", Issue))
    BY <1>6, <2>2, TodoTypes, BeginSafe, LocalKeepsIInv DEF MfaChallenge, OpNames
  <2>3. ASSUME NEW c \in (1..sets) \X (1..CodesPerUser),
               Serve(w, [Begin("mfa_challenge", <<"codes_find", "code_save">> \o Issue)
                         EXCEPT !.backup = c])
        PROVE  IInv'
    <3> DEFINE b == Begin("mfa_challenge", <<"codes_find", "code_save">> \o Issue)
    <3>1. b \in Request /\ Safe(b.entity)
      BY TodoTypes, TodoConcat, BeginSafe DEF OpNames
    <3> HIDE DEF b
    <3> QED BY <1>0, <1>6, <2>3, <3>1, FilledBackup, LocalKeepsIInv DEF b, MfaChallenge
  <2> QED BY <1>6, <2>1, <2>2, <2>3 DEF MfaChallenge
<1>7. CASE SocialAuth(w)
  BY <1>7, TodoTypes, BeginSafe, LocalKeepsIInv DEF SocialAuth, OpNames
<1>8. CASE VerifyEmail(w)
  <2> DEFINE e == [row EXCEPT !.is_email_verified = TRUE]
             b == BeginWith("verify_email", Consume \o <<"update">>, e)
  <2>1. e \in Row /\ Safe(e)
    <3>1. e \in Row
      BY <1>0, <1>8, UserEntityAssumption DEF VerifyEmail, Enabled, Row, MfaTypes
    <3>2. Safe(e)
      BY <1>0, <1>8, UserEntityAssumption
      DEF VerifyEmail, Enabled, Row, MfaTypes, Safe, RowConsistent, TypeRecorded, TotpHasSecret,
          LimitHasLock, Shown
    <3> QED BY <3>1, <3>2
  <2>2. b \in Request /\ Safe(b.entity)
    BY <2>1, TodoTypes, TodoConcat, BeginWithSafe DEF OpNames
  <2>3. PICK code \in 1..minted : Serve(w, [b EXCEPT !.ns = "email_verify", !.code = code])
    BY <1>8 DEF VerifyEmail
  <2> HIDE DEF b
  <2> QED
    BY <1>0, <1>8, <2>2, <2>3, FilledCode, LocalKeepsIInv DEF VerifyEmail,
       Namespaces
<1>9. CASE ResendVerificationOTP(w)
  <2> DEFINE b == Begin("resend_verification", <<"otp_set">>)
  <2>1. b \in Request /\ Safe(b.entity)
    BY TodoTypes, BeginSafe DEF OpNames
  <2>2. Serve(w, [b EXCEPT !.ns = "email_verify"]) /\ Local
    BY <1>9 DEF ResendVerificationOTP
  <2> HIDE DEF b
  <2> QED BY <2>1, <2>2, FilledNs, LocalKeepsIInv DEF Namespaces
<1>10. CASE RequestPasswordReset(w)
  <2> DEFINE b == Begin("request_reset", <<"otp_set">>)
  <2>1. b \in Request /\ Safe(b.entity)
    BY TodoTypes, BeginSafe DEF OpNames
  <2>2. Serve(w, [b EXCEPT !.ns = "password_reset"]) /\ Local
    BY <1>10 DEF RequestPasswordReset
  <2> HIDE DEF b
  <2> QED BY <2>1, <2>2, FilledNs, LocalKeepsIInv DEF Namespaces
<1>11. CASE ConfirmPasswordReset(w)
  <2> DEFINE e(new) == [row EXCEPT !.password_hash = new]
             b(new) == BeginWith("confirm_reset", Consume \o SetPassword, e(new))
  <2>1. \A new \in Passwords : e(new) \in Row /\ Safe(e(new))
    BY <1>0 DEF Row, MfaTypes, Safe, RowConsistent, TypeRecorded, TotpHasSecret,
       LimitHasLock, Shown
  <2>2. ASSUME NEW new \in Passwords PROVE b(new) \in Request /\ Safe(b(new).entity)
    <3> HIDE DEF e
    <3>1. Consume \o SetPassword \in Seq(Calls)
      BY TodoTypes, TodoConcat
    <3> QED BY <2>1, <3>1, BeginWithSafe DEF OpNames
  <2>3. PICK code \in 1..minted, new \in Passwords :
           Serve(w, [b(new) EXCEPT !.ns = "password_reset", !.code = code,
                           !.old = row.password_hash, !.new = new])
    BY <1>11 DEF ConfirmPasswordReset
  <2> HIDE DEF b
  <2>4. row.password_hash \in Hashes /\ new \in Hashes
    BY <1>0 DEF Row, Hashes
  <2> QED
    BY <1>0, <1>11, <2>2, <2>3, <2>4, FilledReset, LocalKeepsIInv DEF
       ConfirmPasswordReset, Namespaces
<1>12. CASE ChangePassword(w)
  <2> DEFINE e(new) == [row EXCEPT !.password_hash = new]
             b(new) == BeginWith("change_password", SetPassword, e(new))
  <2>1. \A new \in Passwords : e(new) \in Row /\ Safe(e(new))
    BY <1>0 DEF Row, MfaTypes, Safe, RowConsistent, TypeRecorded, TotpHasSecret,
       LimitHasLock, Shown
  <2>2. ASSUME NEW new \in Passwords PROVE b(new) \in Request /\ Safe(b(new).entity)
    <3> HIDE DEF e
    <3>1. SetPassword \in Seq(Calls)
      BY TodoTypes, TodoConcat
    <3> QED BY <2>1, <3>1, BeginWithSafe DEF OpNames
  <2>3. PICK new \in Passwords :
           Serve(w, [b(new) EXCEPT !.old = row.password_hash, !.new = new])
    BY <1>12 DEF ChangePassword
  <2> HIDE DEF b
  <2>4. row.password_hash \in Hashes /\ new \in Hashes
    BY <1>0 DEF Row, Hashes
  <2> QED
    BY <1>0, <1>12, <2>2, <2>3, <2>4, FilledChange, LocalKeepsIInv DEF
       ChangePassword, Namespaces
<1>13. CASE SetupMFA(w)
  <2>0. PICK secret \in FreshSecrets :
               Serve(w, BeginWith("setup_mfa", <<"update">>,
                                  [row EXCEPT !.mfa_secret = secret]))
    BY <1>13 DEF SetupMFA
  <2> DEFINE e == [row EXCEPT !.mfa_secret = secret]
             b == BeginWith("setup_mfa", <<"update">>, e)
  <2>1. e \in Row /\ Safe(e)
    <3>1. e \in Row
      BY <1>0, <1>13, UserEntityAssumption DEF SetupMFA, FreshSecrets, Row, MfaTypes
    <3>2. Safe(e)
      BY <1>0, <1>13, UserEntityAssumption
      DEF SetupMFA, FreshSecrets, Row, MfaTypes, Safe, RowConsistent, TypeRecorded, TotpHasSecret,
          LimitHasLock, Shown
    <3> QED BY <3>1, <3>2
  <2> HIDE DEF e
  <2>2. b \in Request /\ Safe(b.entity)
    <3>1. <<"update">> \in Seq(Calls)
      BY TodoTypes, TodoConcat
    <3> QED BY <2>1, <3>1, BeginWithSafe DEF OpNames
  <2> HIDE DEF b
  <2> QED BY <1>13, <2>0, <2>2, LocalKeepsIInv DEF e, b, SetupMFA
<1>14. CASE EnableMFA(w)
  <2> DEFINE e == Enabled(row, "totp")
             r == BeginWith("enable_mfa", <<"update">> \o Generate, e)
  <2>1. row.mfa_secret \in Secrets /\ confirmed \subseteq Secrets
    BY <1>0, <1>14 DEF EnableMFA, Row, IInv, TypeOK
  <2>2. e \in Row /\ RowConsistent(e) /\ e.mfa_secret = row.mfa_secret
    BY <1>0, <2>1, UserEntityAssumption DEF Enabled, Row, MfaTypes, Safe,
       RowConsistent, TypeRecorded, TotpHasSecret, LimitHasLock, Shown
  <2>3. r \in Request /\ r.entity = e
    <3>1. Begin("enable_mfa", <<"update">> \o Generate) \in Request
      BY TodoTypes, TodoConcat, BeginSafe DEF OpNames
    <3> QED BY <2>2, <3>1 DEF BeginWith, Request
  <2>4. /\ Serve(w, r) /\ confirmed' = confirmed \cup {row.mfa_secret}
        /\ UNCHANGED <<row, now, guesses, otpVars, tokenVars, historyVars, backupVars>>
    BY <1>14 DEF EnableMFA
  <2> HIDE DEF r, e
  <2>5. OtpTypeOK' /\ TokenTypeOK' /\ BackupTypeOK' /\ HistoryTypeOK'
    BY <2>4 DEF IInv, TypeOK, OtpTypeOK, TokenTypeOK, BackupTypeOK, HistoryTypeOK,
       otpVars, tokenVars, backupVars, historyVars
  <2>6. TypeOK'
    BY <1>0, <2>1, <2>3, <2>4, <2>5 DEF IInv, TypeOK, Serve, FaultTypeOK, faultVars
  <2>7. ASSUME NEW v \in Workers PROVE Safe(req[v].entity)'
    <3>1. CASE v = w
      <4>1. req'[v].entity = e
        BY <2>3, <2>4, <3>1 DEF IInv, TypeOK, Serve
      <4> QED BY <2>2, <2>4, <4>1 DEF Safe, Shown
    <3>2. CASE v # w
      <4>1. Safe(req[v].entity) /\ req'[v] = req[v]
        BY <2>4, <3>2 DEF IInv, TypeOK, Serve
      <4> QED BY <2>4, <4>1 DEF Safe, Shown
    <3> QED BY <3>1, <3>2
  <2>8. Safe(row)'
    BY <1>0, <2>4 DEF Safe, Shown
  <2> QED BY <2>6, <2>7, <2>8 DEF IInv
<1>15. CASE DisableMFA(w)
  <2>0. Serve(w, BeginWith("disable_mfa", <<"update">>,
                               [row EXCEPT !.mfa_enabled = FALSE, !.mfa_secret = None,
                                              !.mfa_type = None]))
    BY <1>15 DEF DisableMFA
  <2> DEFINE e == [row EXCEPT !.mfa_enabled = FALSE, !.mfa_secret = None,
                                              !.mfa_type = None]
             b == BeginWith("disable_mfa", <<"update">>, e)
  <2>1. e \in Row /\ Safe(e)
    <3>1. e \in Row
      BY <1>0, <1>15, UserEntityAssumption DEF DisableMFA, Row, MfaTypes
    <3>2. Safe(e)
      BY <1>0, <1>15, UserEntityAssumption
      DEF DisableMFA, Row, MfaTypes, Safe, RowConsistent, TypeRecorded, TotpHasSecret,
          LimitHasLock, Shown
    <3> QED BY <3>1, <3>2
  <2> HIDE DEF e
  <2>2. b \in Request /\ Safe(b.entity)
    <3>1. <<"update">> \in Seq(Calls)
      BY TodoTypes, TodoConcat
    <3> QED BY <2>1, <3>1, BeginWithSafe DEF OpNames
  <2> HIDE DEF b
  <2> QED BY <1>15, <2>0, <2>2, LocalKeepsIInv DEF e, b, DisableMFA
<1>16. CASE SetupSMSMFA(w)
  <2> DEFINE b == Begin("setup_sms_mfa", <<"otp_set">>)
  <2>1. b \in Request /\ Safe(b.entity)
    BY TodoTypes, BeginSafe DEF OpNames
  <2>2. Serve(w, [b EXCEPT !.ns = "mfa_sms_setup"]) /\ Local
    BY <1>16 DEF SetupSMSMFA
  <2> HIDE DEF b
  <2> QED BY <2>1, <2>2, FilledNs, LocalKeepsIInv DEF Namespaces
<1>17. CASE EnableSMSMFA(w)
  <2> DEFINE e == Enabled(row, "sms")
             b == BeginWith("enable_sms_mfa", Consume \o <<"update">> \o Generate, e)
  <2>1. e \in Row /\ Safe(e)
    <3>1. e \in Row
      BY <1>0, <1>17, UserEntityAssumption DEF EnableSMSMFA, Enabled, Row, MfaTypes
    <3>2. Safe(e)
      BY <1>0, <1>17, UserEntityAssumption
      DEF EnableSMSMFA, Enabled, Row, MfaTypes, Safe, RowConsistent, TypeRecorded, TotpHasSecret,
          LimitHasLock, Shown
    <3> QED BY <3>1, <3>2
  <2>2. b \in Request /\ Safe(b.entity)
    BY <2>1, TodoTypes, TodoConcat, BeginWithSafe DEF OpNames
  <2>3. PICK code \in 1..minted : Serve(w, [b EXCEPT !.ns = "mfa_sms_setup", !.code = code])
    BY <1>17 DEF EnableSMSMFA
  <2> HIDE DEF b
  <2> QED
    BY <1>0, <1>17, <2>2, <2>3, FilledCode, LocalKeepsIInv DEF EnableSMSMFA,
       Namespaces
<1>18. CASE SetupEmailMFA(w)
  <2> DEFINE b == Begin("setup_email_mfa", <<"otp_set">>)
  <2>1. b \in Request /\ Safe(b.entity)
    BY TodoTypes, BeginSafe DEF OpNames
  <2>2. Serve(w, [b EXCEPT !.ns = "mfa_email_setup"]) /\ Local
    BY <1>18 DEF SetupEmailMFA
  <2> HIDE DEF b
  <2> QED BY <2>1, <2>2, FilledNs, LocalKeepsIInv DEF Namespaces
<1>19. CASE EnableEmailMFA(w)
  <2> DEFINE e == Enabled(row, "email")
             b == BeginWith("enable_email_mfa", Consume \o <<"update">> \o Generate, e)
  <2>1. e \in Row /\ Safe(e)
    <3>1. e \in Row
      BY <1>0, <1>19, UserEntityAssumption DEF EnableEmailMFA, Enabled, Row, MfaTypes
    <3>2. Safe(e)
      BY <1>0, <1>19, UserEntityAssumption
      DEF EnableEmailMFA, Enabled, Row, MfaTypes, Safe, RowConsistent, TypeRecorded, TotpHasSecret,
          LimitHasLock, Shown
    <3> QED BY <3>1, <3>2
  <2>2. b \in Request /\ Safe(b.entity)
    BY <2>1, TodoTypes, TodoConcat, BeginWithSafe DEF OpNames
  <2>3. PICK code \in 1..minted : Serve(w, [b EXCEPT !.ns = "mfa_email_setup", !.code = code])
    BY <1>19 DEF EnableEmailMFA
  <2> HIDE DEF b
  <2> QED
    BY <1>0, <1>19, <2>2, <2>3, FilledCode, LocalKeepsIInv DEF EnableEmailMFA,
       Namespaces
<1>20. CASE RegenerateBackupCodes(w)
  BY <1>20, TodoTypes, BeginSafe, LocalKeepsIInv DEF RegenerateBackupCodes, OpNames
<1>21. CASE UpdateProfile(w)
  <2>0. PICK name \in Names \cup {row.name}, contact \in Contacts \cup {row.contact} :
               Serve(w, BeginWith("update_profile", <<"update">>,
                                  [row EXCEPT !.name = name, !.contact = contact]))
    BY <1>21 DEF UpdateProfile
  <2> DEFINE e == [row EXCEPT !.name = name, !.contact = contact]
             b == BeginWith("update_profile", <<"update">>, e)
  <2>1. e \in Row /\ Safe(e)
    <3>1. e \in Row
      BY <1>0, <1>21, UserEntityAssumption DEF UpdateProfile, Row, MfaTypes
    <3>2. Safe(e)
      BY <1>0, <1>21, UserEntityAssumption
      DEF UpdateProfile, Row, MfaTypes, Safe, RowConsistent, TypeRecorded, TotpHasSecret,
          LimitHasLock, Shown
    <3> QED BY <3>1, <3>2
  <2> HIDE DEF e
  <2>2. b \in Request /\ Safe(b.entity)
    <3>1. <<"update">> \in Seq(Calls)
      BY TodoTypes, TodoConcat
    <3> QED BY <2>1, <3>1, BeginWithSafe DEF OpNames
  <2> HIDE DEF b
  <2> QED BY <1>21, <2>0, <2>2, LocalKeepsIInv DEF e, b, UpdateProfile
<1>22. CASE DeleteAccount(w)
  <2>0. Serve(w, BeginWith("delete_account", <<"update">> \o Sweep,
                               [row EXCEPT !.is_active = FALSE,
                                              !.scheduled_deletion_at = TRUE]))
    BY <1>22 DEF DeleteAccount
  <2> DEFINE e == [row EXCEPT !.is_active = FALSE,
                                              !.scheduled_deletion_at = TRUE]
             b == BeginWith("delete_account", <<"update">> \o Sweep, e)
  <2>1. e \in Row /\ Safe(e)
    <3>1. e \in Row
      BY <1>0, <1>22, UserEntityAssumption DEF DeleteAccount, Row, MfaTypes
    <3>2. Safe(e)
      BY <1>0, <1>22, UserEntityAssumption
      DEF DeleteAccount, Row, MfaTypes, Safe, RowConsistent, TypeRecorded, TotpHasSecret,
          LimitHasLock, Shown
    <3> QED BY <3>1, <3>2
  <2> HIDE DEF e
  <2>2. b \in Request /\ Safe(b.entity)
    <3>1. <<"update">> \o Sweep \in Seq(Calls)
      BY TodoTypes, TodoConcat
    <3> QED BY <2>1, <3>1, BeginWithSafe DEF OpNames
  <2> HIDE DEF b
  <2> QED BY <1>22, <2>0, <2>2, LocalKeepsIInv DEF e, b, DeleteAccount
<1>23. CASE GDPRErasure(w)
  <2>0. Serve(w, BeginWith("erase", <<"update">> \o Sweep,
                               [row EXCEPT !.email = "redacted", !.name = "Deleted User",
                                              !.mfa_secret = None, !.is_active = FALSE,
                                              !.deleted_at = TRUE]))
    BY <1>23 DEF GDPRErasure
  <2> DEFINE e == [row EXCEPT !.email = "redacted", !.name = "Deleted User",
                                              !.mfa_secret = None, !.is_active = FALSE,
                                              !.deleted_at = TRUE]
             b == BeginWith("erase", <<"update">> \o Sweep, e)
  <2>1. e \in Row /\ Safe(e)
    <3>1. e \in Row
      BY <1>0, <1>23, UserEntityAssumption DEF GDPRErasure, Row, MfaTypes
    <3>2. Safe(e)
      BY <1>0, <1>23, UserEntityAssumption
      DEF GDPRErasure, Row, MfaTypes, Safe, RowConsistent, TypeRecorded, TotpHasSecret,
          LimitHasLock, Shown
    <3> QED BY <3>1, <3>2
  <2> HIDE DEF e
  <2>2. b \in Request /\ Safe(b.entity)
    <3>1. <<"update">> \o Sweep \in Seq(Calls)
      BY TodoTypes, TodoConcat
    <3> QED BY <2>1, <3>1, BeginWithSafe DEF OpNames
  <2> HIDE DEF b
  <2> QED BY <1>23, <2>0, <2>2, LocalKeepsIInv DEF e, b, GDPRErasure
<1>24. CASE SuspendUser(w)
  <2>0. Serve(w, BeginWith("suspend", <<"update">>, [row EXCEPT !.is_active = FALSE]))
    BY <1>24 DEF SuspendUser
  <2> DEFINE e == [row EXCEPT !.is_active = FALSE]
             b == BeginWith("suspend", <<"update">>, e)
  <2>1. e \in Row /\ Safe(e)
    <3>1. e \in Row
      BY <1>0, <1>24, UserEntityAssumption DEF SuspendUser, Row, MfaTypes
    <3>2. Safe(e)
      BY <1>0, <1>24, UserEntityAssumption
      DEF SuspendUser, Row, MfaTypes, Safe, RowConsistent, TypeRecorded, TotpHasSecret,
          LimitHasLock, Shown
    <3> QED BY <3>1, <3>2
  <2> HIDE DEF e
  <2>2. b \in Request /\ Safe(b.entity)
    <3>1. <<"update">> \in Seq(Calls)
      BY TodoTypes, TodoConcat
    <3> QED BY <2>1, <3>1, BeginWithSafe DEF OpNames
  <2> HIDE DEF b
  <2> QED BY <1>24, <2>0, <2>2, LocalKeepsIInv DEF e, b, SuspendUser
<1>25. CASE ActivateUser(w)
  <2>0. Serve(w, BeginWith("activate", <<"update">>, [row EXCEPT !.is_active = TRUE]))
    BY <1>25 DEF ActivateUser
  <2> DEFINE e == [row EXCEPT !.is_active = TRUE]
             b == BeginWith("activate", <<"update">>, e)
  <2>1. e \in Row /\ Safe(e)
    <3>1. e \in Row
      BY <1>0, <1>25, UserEntityAssumption DEF ActivateUser, Row, MfaTypes
    <3>2. Safe(e)
      BY <1>0, <1>25, UserEntityAssumption
      DEF ActivateUser, Row, MfaTypes, Safe, RowConsistent, TypeRecorded, TotpHasSecret,
          LimitHasLock, Shown
    <3> QED BY <3>1, <3>2
  <2> HIDE DEF e
  <2>2. b \in Request /\ Safe(b.entity)
    <3>1. <<"update">> \in Seq(Calls)
      BY TodoTypes, TodoConcat
    <3> QED BY <2>1, <3>1, BeginWithSafe DEF OpNames
  <2> HIDE DEF b
  <2> QED BY <1>25, <2>0, <2>2, LocalKeepsIInv DEF e, b, ActivateUser
<1>26. CASE Refresh(w)
  <2> DEFINE b == Begin("refresh", <<"user_active", "blacklist", "issue", "touch">>)
  <2>1. b \in Request /\ Safe(b.entity)
    BY TodoTypes, BeginSafe DEF OpNames
  <2>2. PICK t \in Live : Serve(w, [b EXCEPT !.jti = t])
    BY <1>26 DEF Refresh
  <2> HIDE DEF b
  <2> QED BY <1>0, <1>26, <2>1, <2>2, FilledJti, LocalKeepsIInv DEF Refresh
<1>27. CASE Logout(w)
  <2> DEFINE b == Begin("logout", <<"blacklist", "session_off">>)
  <2>1. b \in Request /\ Safe(b.entity)
    BY TodoTypes, BeginSafe DEF OpNames
  <2>2. PICK t \in Live : Serve(w, [b EXCEPT !.jti = t])
    BY <1>27 DEF Logout
  <2> HIDE DEF b
  <2> QED BY <1>0, <1>27, <2>1, <2>2, FilledJti, LocalKeepsIInv DEF Logout
<1>28. CASE RevokeSession(w)
  <2> DEFINE b == Begin("revoke_session", <<"blacklist">>)
  <2>1. b \in Request /\ Safe(b.entity)
    BY TodoTypes, BeginSafe DEF OpNames
  <2>2. PICK t \in sessions : DeactivateSession(t) /\ Serve(w, [b EXCEPT !.jti = t])
    BY <1>28 DEF RevokeSession
  <2> HIDE DEF b
  <2>3. /\ OtpTypeOK' /\ TokenTypeOK' /\ BackupTypeOK' /\ HistoryTypeOK'
        /\ UNCHANGED accountVars
    BY <1>28, <2>2 DEF RevokeSession, IInv, TypeOK, OtpTypeOK, TokenTypeOK,
       BackupTypeOK,
       HistoryTypeOK, DeactivateSession, otpVars, backupVars, historyVars
  <2> QED BY <1>0, <2>1, <2>2, <2>3, FilledJti, ServeKeepsIInv
<1> QED
  BY <1>2, <1>3, <1>4, <1>5, <1>6, <1>7, <1>8, <1>9, <1>10, <1>11, <1>12, <1>13,
     <1>14, <1>15, <1>16, <1>17, <1>18, <1>19, <1>20, <1>21, <1>22, <1>23,
     <1>24, <1>25, <1>26, <1>27, <1>28 DEF Handle

-----------------------------------------------------------------------------
(***************************************************************************)
(* The theorems.                                                           *)
(***************************************************************************)

\* Accounts are created safe, and no request is being served.
LEMMA InitIInv == Init => IInv
<1> SUFFICES ASSUME Init PROVE IInv
  OBVIOUS
<1>1. row \in Row /\ Safe(row)
  <2>1. row \in InitialRows
    BY DEF Init
  <2>2. PICK n \in Names, h \in Hashes, v \in BOOLEAN : row = NewRow(n, h, v)
    BY <2>1 DEF InitialRows, NewRows, Hashes
  <2> QED BY <2>2, NewRowSafe
<1>2. req \in [Workers -> Request] /\ \A w \in Workers : Safe(req[w].entity)
  BY IdleSafe DEF Init
<1>3. OtpTypeOK
  <2>1. 0 \in 0..MaxCodes
    BY OtpAssumption
  <2> QED BY <2>1 DEF Init, OtpInit, OtpTypeOK
<1>4. TokenTypeOK
  BY TokenAssumption DEF Init, TokenInit, TokenTypeOK
<1>5. BackupTypeOK
  BY BackupAssumption DEF Init, BackupInit, BackupTypeOK
<1>6. HistoryTypeOK
  BY HistoryAssumption DEF Init, HistoryInit, HistoryTypeOK
<1>7. now \in Nat /\ guesses \in Nat /\ confirmed \subseteq Secrets /\ FaultTypeOK
  BY DEF Init, FaultTypeOK
<1> QED BY <1>1, <1>2, <1>3, <1>4, <1>5, <1>6, <1>7 DEF IInv, TypeOK

\* A step that leaves the row and the requests alone.
LEMMA IdleKeepsIInv ==
    ASSUME IInv, UNCHANGED <<row, req, guesses, confirmed, faultVars, tokenVars,
                             historyVars, backupVars>>,
           now' \in Nat, OtpTypeOK'
    PROVE  IInv'
<1>1. FaultTypeOK' /\ TokenTypeOK' /\ BackupTypeOK' /\ HistoryTypeOK'
  BY DEF IInv, TypeOK, FaultTypeOK, TokenTypeOK, BackupTypeOK, HistoryTypeOK,
     faultVars, tokenVars, backupVars, historyVars
<1>2. TypeOK'
  BY <1>1 DEF IInv, TypeOK
<1>3. Safe(row)' /\ \A w \in Workers : Safe(req[w].entity)'
  BY DEF IInv, Safe, Shown
<1> QED BY <1>2, <1>3 DEF IInv

\* Every step keeps the inductive invariant.
LEMMA StepIInv == IInv /\ [Next]_vars => IInv'
<1> SUFFICES ASSUME IInv, [Next]_vars PROVE IInv'
  OBVIOUS
<1>1. ASSUME NEW w \in Workers, Handle(w) PROVE IInv'
  BY <1>1, HandlersKeepIInv
<1>2. ASSUME NEW w \in Workers, Call(w) PROVE IInv'
  BY <1>2, UpdateUserKeepsIInv, OtherCallsKeepIInv
<1>3. ASSUME NEW ns \in Namespaces, OtpExpire(ns) PROVE IInv'
  <2>1. 0 \in 0..MaxCodes
    BY OtpAssumption
  <2>2. OtpTypeOK'
    BY <1>3, <2>1 DEF OtpExpire, Expire, IInv, TypeOK, OtpTypeOK
  <2>3. now' \in Nat
    BY <1>3 DEF OtpExpire, accountVars, IInv, TypeOK
  <2> QED BY <1>3, <2>2, <2>3, IdleKeepsIInv DEF OtpExpire, accountVars
<1>4. CASE Tick
  <2>1. OtpTypeOK' /\ now' \in Nat
    BY <1>4 DEF Tick, IInv, TypeOK, OtpTypeOK, otpVars
  <2> QED BY <1>4, <2>1, IdleKeepsIInv DEF Tick
<1>5. CASE UNCHANGED vars
  <2>1. OtpTypeOK' /\ now' \in Nat
    BY <1>5 DEF vars, accountVars, otpVars, IInv, TypeOK, OtpTypeOK
  <2> QED BY <1>5, <2>1, IdleKeepsIInv DEF vars, accountVars
<1>6. ASSUME NEW w \in Workers, Interrupt(w) PROVE IInv'
  BY <1>6, InterruptKeepsIInv
<1> QED BY <1>1, <1>2, <1>3, <1>4, <1>5, <1>6 DEF Next

\* The inductive invariant holds of every behaviour.
THEOREM InductiveInvariant == Spec => []IInv
<1> QED BY InitIInv, StepIInv, PTL DEF Spec

\* The columns, the requests and the service tables keep their types.
THEOREM TypeCorrect == Spec => []TypeOK
<1>1. IInv => TypeOK
  BY DEF IInv
<1> QED BY <1>1, InductiveInvariant, PTL

\* The columns of the row fit each other whatever requests overlap: the type
\* of the second factor is recorded, TOTP has a secret, and an account at the
\* limit of failures has a lock date.
THEOREM RowAlwaysConsistent == Spec => []RowInv
<1>1. IInv => RowInv
  BY DEF IInv, Safe, RowInv
<1> QED BY <1>1, InductiveInvariant, PTL

\* TOTP is on only with a secret whose codes the owner has shown.
THEOREM SecretAlwaysConfirmed == Spec => []SecretConfirmed
<1>1. IInv => SecretConfirmed
  BY DEF IInv, Safe, SecretConfirmed
<1> QED BY <1>1, InductiveInvariant, PTL

\* A request redeems a backup code only while the code's row is in the table,
\* however long ago the request found it there.
THEOREM ReplacedCodesStayDead == Spec => ReplacedCodeIsDead
<1> DEFINE Dead == \A c \in AllCodes \ code_rows : redeemed'[c] = redeemed[c]
<1>1. TypeOK /\ [Next]_vars => [Dead]_backupVars
  <2> SUFFICES ASSUME TypeOK, [Next]_vars PROVE redeemed' = redeemed \/ Dead
    BY DEF backupVars
  <2>1. CASE \E w \in Workers : CodeSave(w)
    <3>1. PICK w \in Workers : CodeSave(w)
      BY <2>1
    <3>2. CASE Saveable(req[w].backup) /\ MarkUsed(req[w].backup)
      BY <3>2 DEF Saveable, MarkUsed, TypeOK, BackupTypeOK
    <3> QED BY <3>1, <3>2 DEF CodeSave, backupVars
  <2>2. ASSUME NEW w \in Workers, Call(w), ~CodeSave(w) PROVE redeemed' = redeemed
    BY <2>2 DEF Call, UpdateUser, OtpGet, OtpDelete, OtpSet, HistoryCheck, HistoryInsert,
       HistoryList, HistoryPrune, CheckUserActive, IssueToken, SessionCheck, SessionCreate,
       BlacklistToken, SessionOff, Touch, TokensQuery, BlacklistEach, SessionsOff,
       CodesDelete, DeleteCodes, CodesCreate, CreateCodes, CodesFind, backupVars
  <2>3. ASSUME NEW w \in Workers, Handle(w) PROVE redeemed' = redeemed
    BY <2>3 DEF Handle, Local, backupVars, Authenticate, EndUnchanged, LoginWrongPassword,
       LoginRightPassword, MfaChallenge, SocialAuth, VerifyEmail, ResendVerificationOTP,
       RequestPasswordReset, ConfirmPasswordReset, ChangePassword, SetupMFA, EnableMFA,
       DisableMFA, SetupSMSMFA, EnableSMSMFA, SetupEmailMFA, EnableEmailMFA,
       RegenerateBackupCodes, UpdateProfile, DeleteAccount, GDPRErasure, SuspendUser,
       ActivateUser, Refresh, Logout, RevokeSession
  <2>4. ASSUME NEW w \in Workers, Interrupt(w) PROVE redeemed' = redeemed
    BY <2>4 DEF Interrupt, backupVars
  <2> QED BY <2>1, <2>2, <2>3, <2>4 DEF Next, OtpExpire, Tick, vars, backupVars
<1> QED BY <1>1, TypeCorrect, PTL DEF Spec, ReplacedCodeIsDead
=============================================================================
