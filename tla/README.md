# A formal model of the Sansaar IAM service

`src/` is the identity service of the Sansaar platform: a Django REST
application (`apps/users`, in four layers: presentation, application use cases,
domain, infrastructure) that registers accounts, signs people in with a
password, a second factor, Google or GitHub, issues JSON Web Tokens, keeps
sessions, an audit log and feature flags, and announces what happens on
RabbitMQ. Two gunicorn workers per container (`entrypoint.sh:12`) serve requests
against PostgreSQL and Redis; a separate process (`consume_events`) reads events
back. `ATOMIC_REQUESTS` is off and no use case opens a transaction, so nearly
every interesting question about this code is about what happens *between* two
statements. That is what the modules here are about.

## 1. Inventory

| Component | State it keeps | Operations | What makes it correct |
|---|---|---|---|
| User row (`models.py`, `repositories.py`) | one row of `iam_user` per account | `create`, `get_*`, `update` (writes every mutable column from a copy) | the columns always fit each other; one row per address |
| One-time passwords (`otp_service.py`) | one Redis key per namespace and user, with expiry | `setex`; `get` and `delete` of `verify_and_consume` | a code lets one request through, and is dead afterwards |
| Tokens and sessions (`token_service.py`, `session_service.py`, `compliance_views.py`) | outstanding and blacklisted refresh tokens, session rows | issue, rotate, blacklist, sweep, touch, revoke | a sweep leaves nothing alive |
| Password history (`password_history_service.py`) | the last replaced hashes | check; insert, list, prune | no recent password comes back, the table stays within its limit |
| Backup codes (`backup_code_service.py`) | rows of one set of codes | delete, bulk insert; find, save | a code works once, a replaced code never |
| Login, social sign-in, MFA, verification, reset, profile, deletion, erasure, administration (use cases) | none of their own: each request holds a copy of the row | 24 operations that change state | what each endpoint promises, alone and overlapping others |
| Registration and seed (`register.py`, social use cases, `seed_superadmin.py`, `entrypoint.sh`) | rows of `iam_user`; how far a container has started | exists, get, insert; seed, serve | one row per address, made once; a failed seed can be repeated |
| Feature flags (`feature_flags.py`, repository) | rows of `feature_flags` | create, partial update, delete, seed | nothing deleted comes back, nothing is lost without an overlap |
| Audit log and publisher (`audit_service.py`, `event_publisher.py`, the views) | rows of `iam_audit_log`, messages | `_audit`, `publish`, `_notify_security` | rows are true and none is forgotten; the code a user was told is the one that works |
| Organisation roles (`org_role_client.py`) | one Redis entry per user | get / fetch / set; invalidate | stale roles go away |
| Consumer (`consume_events.py`) | the durable queue `iam.events`, messages in delivery | deliver, handle, fail, stop, start | each event becomes at most one row |
| Announcements, GDPR export, lists, analytics, health, JWKS, serializers, verifiers, permissions, settings | none, or a single insert | reads and formatting | not modelled, see section 8 |

**How they interact.** A view authenticates the caller, builds a use case with
concrete services, runs it, then writes an audit row and announces the change.
Use cases call the repository and services in a fixed order, one statement each.
The state they share is the database and Redis; there is no lock anywhere.
Events go through the exchange `sansaar` to other services and back into this
service's own queue.

**Which behaviours are hard.**
- Read, check in memory, write whole: a late write brings back columns that
  another request has changed (`repositories.py:38`, `feature_flags.py:89`).
- Pairs of statements that ought to be one: GET and DEL of a code, find and save
  of a backup code, delete and insert of a set, insert / list / prune of the
  history, query and blacklist of a sweep, exists and insert of an account.
- Sequences of endpoints: set-up and enabling of a second factor, lockout over
  many logins, rotation followed by revocation, deletion followed by a purge.
- Swallowed failures: audit rows, publishing, session creation.
- A request that ends between two statements (a deployment, gunicorn's timeout,
  Redis or the database unreachable) keeps what it has written: a password
  changed and its sessions alive, codes deleted and none inserted.
- At-most-once delivery (`auto_ack`) with nobody to restart the consumer.
- A value read from a cache and kept in a token: how old may it be.
- Containers that boot together and seed the same rows.

`PROJECT.json` lists each of these hazards with its line and the properties that
would catch it.

## 2. Modules

| Module | What it models |
|---|---|
| `UserEntity` | the row, the rows creation leaves, `RepoUpdate` |
| `OtpService`, `TokenService`, `PasswordHistory`, `BackupCodes` | one store each: its state and its statements |
| `AccountService` | one account, any number of workers, every endpoint that changes the account: the composition of the five modules above |
| `AtomicAccount` | abstract specification: each endpoint acts in one step on the row, the refresh tokens and the backup codes, and only on what it is about; a fault makes it leave out the end |
| `AccountProperties` | the properties of `AccountService`, and its refinement of `AtomicAccount` |
| `OrgRoles` | the role cache, lookups, the tokens that carry their answers, invalidation by events |
| `EventTrail` | what requests leave for others: codes, events, audit rows; the consumer of `iam.*` and `audit.log`. Composes `OtpService` |
| `Containers` | the containers the next three modules share |
| `AccountCreation` | rows of `iam_user` coming into being |
| `FeatureFlags` | flags and the requests that edit them |
| `Boot` | containers that seed and serve: the composition of the two above with `entrypoint.sh` |
| `MCAccount`, `MCOrgRoles`, `MCEventTrail`, `MCBoot` | instances for TLC: sets of endpoints, symmetry |
| `AccountProofs`, `AccountStoreProofs` | theorems on `AccountService`, any number of workers |
| `AccountSerialProofs`, `PasswordReuseProofs`, `AtomicAccountProofs` | theorems on `AccountService`, requests that do not overlap; the last one: it implements `AtomicAccount` |
| `OrgRolesProofs`, `EventTrailProofs`, `BootProofs` | theorems on the other three parts |

**How `AccountService` corresponds to the code.** A worker is a gunicorn
process and serves one request at a time. A handler action (`ChangePassword`,
`EnableMFA`, ...) is the read of the row plus everything the use case does in
memory: the early returns are its guards and the changed copy is
`req[w].entity`. The statements that follow are `req[w].todo`, a sequence of
calls in the order of the code, each an action of its own (`UpdateUser`,
`OtpGet`, `OtpDelete`, `TokensQuery`, ...), so the calls of two workers
interleave freely. A call that raises ends the request (`Fail`). Authentication
is a step of its own in front of the handlers that need it, because
`JWTAuthentication` reads the row in another query than the use case. A request
whose checks fail in memory changes nothing and is not a step.

**Faults.** `Interrupt` ends a request between any two of its calls: the worker
is killed, or a call finds Redis or the database unreachable. Nothing is rolled
back, since no use case opens a transaction. `interrupted` counts these, and
`cut` remembers whether a recording of a password or an insertion of codes was
cut off and not yet made good by a complete one. The properties say what a
fault excuses and no more: `CodeReuseBounded` one more use of a code for each,
`LockoutAfterMax` one more guess, `HistoryPruned` and `CodesRemain` a gap until
the next complete recording or regeneration, `AccountIsAtomic` the end of the
endpoint that was cut off. `RowInv`, `SweepComplete`, `SpentCodeStaysSpent`,
`ReplacedCodeIsDead`, `BackupReuseBounded`, `SetsBounded` and
`AllRevokedWhenDone` hold without any such clause.

**What `AtomicAccount` says.** Its state is the row, how many tokens were issued,
which are live, which backup codes work, and how many faults there were. The
refinement maps `live` to the tokens not blacklisted and `codes` to the unused
rows; a request that has written the row and is on its way through the sweep or
the replacement of codes counts as having made it (`Committed`), so that the
whole of the endpoint happens with the write of the row, as a client sees it.

Data is abstract: a password hash *is* the password it was made from, `Unusable`
matches none; one-time passwords, tokens and codes are numbered in the order of
their creation; a TOTP code is "the owner holds this secret"; timestamps used
only as set or not are Booleans. An erased row's e-mail, the deletion date and
the columns `update` leaves out are kept precisely as the code treats them.

**How `OrgRoles` corresponds to the code.** A sign-in looks the cache up; an
entry goes into the token as it is (`CacheHit`), otherwise the organisation
service is asked, its answer (or `{}` when it fails) is written to the cache and
goes into the token. The roles in the organisation service change at any time,
each change publishes an event, and the consumer deletes the entry, fails, or
is stopped with what it holds. Entries expire. Rotation copies the claims of the
old token and makes no lookup.

**How `EventTrail` corresponds to the code.** Every view is the set of the ways
through it that leave something behind, each a sequence of steps: `Settle` (from
here on the request has to be recorded), `Rest` (the remaining writes), `Store`
and `Publish` (a code and its event), `Audit`, `Skip` (the view does not find the
user it is to record). A publisher may fail, an insert may fail, a request may
be abandoned at any step. Whether a request is granted is the subject of
`AccountService`; here every way is possible. The consumer acknowledges on
delivery, handles or fails, stops with what it holds, and may start again.

**How `Boot` corresponds to the code.** A container checks for a superadmin,
inserts one, gets or creates the flag and only then serves; an error ends it
(`set -e`) and it may be started again. An error is a conflict on a unique index
(`SeedConflict`), the same conflict on the flag when `get_or_create` reads it
again and it has been deleted by then (`SeedFlagReread`), or anything else the
database raises (`SeedError`, of which there are `MaxErrors`). While it serves it handles registrations,
first sign-ins and edits of flags, of which it is taken to serve one at a time:
its two workers interleave like two containers.

Definitions called `X_Something` beside a definition `X` are mutated forms of it
(a dropped guard, a swapped order), one for each property: put in the place of
`X` they make TLC report that property.

## 3. Runs

State counts are distinct states; each run ends within three minutes.

| Run | Instance | What it shows |
|---|---|---|
| `row_concurrent` (1.5M) | two workers; login, profile edit, TOTP set-up/enable/disable, suspension, erasure; two secrets | `RowInv`, `SecretConfirmed`: however stale the copies that are written, every row is one a single request could have made |
| `account_serial` (508k) | one worker, one fault; everything that writes the row, a clock | refinement of `AtomicAccount` (`AccountIsAtomic`), `LockHeld`, `LockoutAfterMax`, `SmsHasContact` |
| `credentials_serial` (2.2M) | one worker, one fault; everything that uses up or replaces a credential | refinement of `AtomicAccount` again, now over tokens and codes; `CodeReuseBounded`, `BackupSingleUse`, `OneSetOfCodes`, `AllRevokedWhenDone`, `NoReplacedReuse` |
| `codes_concurrent` (3.2M) | two workers, one fault; verification and reset | `CodeReuseBounded`, `SpentCodeStaysSpent`, `HistoryPruned` |
| `sweeps_concurrent` (1.9M) | two workers, one fault, three sets of codes; sign-in, rotation, deletion, regeneration, challenge | `SweepComplete`, `CodesRemain`, `BackupReuseBounded`, `SetsBounded`, `ReplacedCodeIsDead` |
| `roles_cache` (69k) | two sign-ins, two changes of roles, an unreliable consumer, a failing organisation service | `OnlyOverlapLeavesStale`, `LoginRolesExcused`, and under fairness `StaleEntryEnds` |
| `event_trail` (1.7M) | two workers, two requests through any of 25 views, one foreign event | `RecordsAreTrue`, `NothingForgotten`, `EventsAccountedFor`, `LastToldIsCurrent` |
| `boot_race` (661k) | two containers, two addresses, one flag with two fields, three edits, one error | `CreatedOnce`, `SeedNeverBlocked`, `DeletedStaysDeleted`, `LossNeedsOverlap`, and under fairness `RetriesSucceed` |

`account_serial` and `credentials_serial` check one refinement on two halves of
the endpoints, since both at once are too many states.

Four runs refute a sentence of the code's own documentation:

| Run | Sentence | What happens |
|---|---|---|
| `profile_edit_race` | "Omitted fields retain their current values" (`views.py:958`) | a profile edit that overlaps a password change or a suspension undoes it |
| `revoke_race` | "All existing sessions are invalidated on success" (`views.py:717`) | a login that checked the old password issues its token after the sweep's query, and keeps it |
| `refresh_session` | "Persist a new session record when a refresh token is issued" (`session_service.py:41`) | rotation issues a token without a session, so it is neither listed nor revocable |
| `deletion_schedule` | "Sets is_active=False and scheduled_deletion_at=now+30d" (`delete_account.py:29`) | `update` does not write the column |

**Serial and concurrent.** The properties of `account_serial` and
`credentials_serial` are those a client is told to expect. They do *not* hold
with two workers, and raising `Workers` in those two configurations to
`{w1, w2}` shows why: two logins write the same failure count
(`LockoutAfterMax`); two requests pass the GET before either reaches the DEL
(a code is used twice, within `CodeReuseBounded`), or find one backup code before either saves it
(`BackupSingleUse`, within `BackupReuseBounded`); two regenerations delete and
then both insert (`OneSetOfCodes`, within `SetsBounded`); a stale copy restores a column (`AccountIsAtomic`,
`SmsHasContact`). The concurrent runs state what remains true all the same: a
code is shared by no more requests than there are workers (with one worker and
no fault, `CodeReuseBounded` says that it is used once), a code whose
consumption has ended stays dead, the sets of backup codes are no more than the
workers, a sweep is complete for what its query saw. How many guesses a lock may
miss is not bounded: any stale write puts an old count back.

**Bounds, and why they are enough.** All are constants with `Max` in their name,
or small sets. The races are between two requests on one account, so two
workers show each of them; the third code or token lets a request meet
something made after its own read and before its own write. Three passwords with a
history of two make the oldest one leave the history. A limit of two wrong
passwords and three guesses cross the limit, and one tick of the clock lets the
lock expire. Two requests in `event_trail` suffice since a request's record and
code meet at most another request's; three edits in `boot_race` allow a
creation, a deletion and an update that overlaps them. One fault in
`AccountService` (`MaxInterrupts`) and one in `Boot` (`MaxErrors`) can fall
between any two calls of any request: what a fault leaves behind is met by the
requests that follow it, and a second one would leave the same behind once
more. `row_concurrent` has no fault: to the row, a request that is cut off is
one that does not go on. It starts with one token and allows another, and
`account_serial` starts with none and allows one, so that a sign-in with the
password alone is among the requests that overlap, or follow each other, there; three sets of codes in
`sweeps_concurrent` are one more than its workers, and two requests that overlap
reach the bounds of `BackupReuseBounded` and `SetsBounded`. Histories (`guesses`,
`accepted`, `replaced`, `interrupted`, `cut`, `raced`, `crossed`, ...) are written and never read by
the actions, except to respect a bound.

`CHECK_DEADLOCK FALSE` is set where the instance really stops: the tokens, codes
and records of an account run out, or the account is suspended and nothing more
can be asked of it; `event_trail` ends after its last request. `roles_cache`
and `boot_race` are checked for deadlock.

**Symmetry** of workers is used in runs without liveness only; `roles_cache` and
`boot_race` use none.

## 4. Fairness

- `OrgRoles`: a worker finishes the lookup it is in (the HTTP call has a timeout,
  and a request has no other way to go), and Redis drops an entry when its time
  to live is over. Nothing is assumed of the consumer: no code in the
  repository restarts it, it may lose what it holds, and `StaleEntryEnds` must
  hold all the same.
- `Boot`: a container that is seeding takes its next step, in whatever way that
  step goes (`BootFairness`). Nobody has to start a container again and no
  request has to come: `RetriesSucceed` says that a container that is started
  often enough serves, because errors of the database cease (`MaxErrors`) and
  the conflicts that `set -e` turns into exits cannot repeat for ever, but for
  the one on the flag while somebody goes on deleting it: that is excused
  (`MaintenanceDeleted`), since nothing in the code ends it.

No other liveness is claimed. Requests are not forced to come, and a worker can
die.

## 5. What is proved

Eight modules hold theorems checked by TLAPS for every value of the constants
(any number of workers and containers, any set of endpoints, any limit, any
number of faults). Three of them are about requests on one account that do not
overlap; their theorems have the hypothesis `Alone` (`\E w : Workers = {w}`), and
everything else is as general.

- **`AccountProofs`**: `TypeCorrect` (`TypeOK`), `RowAlwaysConsistent`
  (`RowInv`), `SecretAlwaysConfirmed` (`SecretConfirmed`),
  `ReplacedCodesStayDead` (`ReplacedCodeIsDead`), from `InductiveInvariant`.
  `RowInv` speaks of the row only, and is not inductive: a write replaces the
  row by a copy read earlier. The invariant `IInv` says the same (`Safe`) of
  every copy a request carries. Each handler makes its copy from a safe row by
  changes that keep it safe, `confirmed` only grows, and what `RepoUpdate` keeps
  of the overwritten row are columns `Safe` does not mention. The argument is
  that the consistency of this service rests on writing *whole* rows: the same
  habit that loses updates also never mixes two halves.
- **`AccountStoreProofs`**: what overlapping and cut-off requests may do to the
  stores. All of it starts from the calls a request has yet to make. Every
  handler prescribes one of nineteen plans (`HandlerStarts`, `Plans`); a plan
  keeps certain calls together (`Linked`: a deletion of a key comes right after
  its comparison, the loop of a sweep right after its query, a pruning right
  after its list), and dropping the first call keeps them so (`TailOrdered`).
  `OrderlyInv` says it of every request in every state; `Arrives` turns it
  round: a request that is at the second call of such a pair was there before,
  or has just made the first. From there:
  - `SweepsAlwaysComplete` (`SweepComplete`): the loop starts with all the
    tokens there were, takes one off only by blacklisting it, and nothing takes
    a token off the blacklist.
  - `SpentCodesStaySpent` (`SpentCodeStaysSpent`), from `OtpInv`: a key never
    holds a code that was used up, nor two keys the same, and whoever is about
    to delete has compared a code that is nowhere but under that key.
  - `CodeReuseAlwaysBounded` (`CodeReuseBounded`), from `ReuseInv`: the uses of
    a code are at most the requests that hold it (between comparison and
    deletion) and those that were cut off, until the code is deleted; a
    deleted one is used no more. Needs that the workers are finitely many.
  - `HistoryAlwaysPruned` (`HistoryPruned`), from `HistoryInv`: the list of a
    request about to prune has at most `HistoryLimit` numbers (the rows after
    each are fewer than the limit and differ in number from one to the next),
    and rows have numbers of their own.
  - `CodesAlwaysRemain` (`CodesRemain`), from `CodesInv`: a request past its
    checks inserts its codes unless it is cut off (`Sure`); the row, and every
    copy of it, has a second factor only if codes were inserted once, or a
    request is sure to, or its own calls include it. This is where a stale
    copy that switches the factor on again is shown to be harmless.
  - `BackupReuseAlwaysBounded` (`BackupReuseBounded`), from `RedeemInv`: the uses
    of a backup code and the requests that have found it (`Finders`) are together
    no more than the workers. A code that was redeemed is never found again:
    it stays marked until its row goes, and no later set has its number.
  - `SetsAlwaysBounded` (`SetsBounded`), from `RegenInv`: the sets in the table and
    the requests between the deletion and the insertion (`Regenerating`) are
    together no more than the workers, since each deletion starts from nothing.
- **`AccountSerialProofs`**: what clients are told, and what holds of the code
  only while requests on the account do not overlap. The runs `profile_edit_race`
  and `revoke_race` are why the hypothesis is there: with two workers a stale copy
  undoes what another request wrote, and a token is issued past a sweep. Requests
  are still cut off between any two calls. The theorems rest on
  `SerialInvariant`, which adds to `IInv`, `OrderlyInv` and `SweepComplete` what
  a lone request knows between its calls:
  - `HeldInv`: if the row is still to be written, the write is the row of *now*
    with exactly one change (`Intends`: a counted failure, a cleared counter, an
    edit, a new password, a factor turned on, an account closed), and the calls that
    follow are the ones this change needs; the code found is unused, the tokens
    seen are all there are, the hash to be recorded is the one replaced last, the
    list of rows to keep is the present one. A handler establishes it (`HandlerFresh`,
    one case for each endpoint), each call hands it on to the next (`OnwardHolds`),
    and that needs the order of the calls: all plans follow one order of ranks
    (`Steady`), so what is left of a plan can be reasoned about as a set of calls.
  - `TokensInv`, `SetsInv`, `ContactInv`, `GuessInv`: the tokens in the tables have
    been issued; the code rows are of one set, each redeemed at most once; a
    pending SMS code implies a phone number; guesses are at most the failures
    counted in the row, plus one for a count about to be written and one for
    each request cut off.

  From it: `FailuresLock` (`LockoutAfterMax`), `SmsAlwaysHasContact`
  (`SmsHasContact`), `BackupCodesSingleUse` (`BackupSingleUse`), `CodesOfOneSet`
  (`OneSetOfCodes`), `LocksHeld` (`LockHeld`), `AllAreRevoked`
  (`AllRevokedWhenDone`).
- **`PasswordReuseProofs`**: `ReplacedNotReused` (`NoReplacedReuse`). The list of
  hashes replaced and the rows of the history part ways as soon as a recording is
  cut off: a hash may have no row, and rows may be left unpruned. `TraceInv` says
  what remains: the last `HistoryLimit` hashes can be given different numbers, the
  number of its row to each that has one, and a number of its own, one for
  each request cut off, to each that has none; rows later than a hash's belong to
  hashes replaced later. So fewer than `HistoryLimit` rows are later than that of a
  listed hash, which makes it one of those a new password is compared with
  (`RecordedIsRecent`) and one of those a pruning keeps (`TracePrune`).
- **`AtomicAccountProofs`**: `AccountActsAtomically` (`AccountIsAtomic`), the
  refinement of `AtomicAccount`, step by step. The write of the row is the abstract
  step of its endpoint: `Intends` gives the change, and `Apart` that the request
  either goes on to sweep the tokens, or to replace the codes, or neither, so the
  mapped `live` and `codes` change with the row as promised (`RowSteps`,
  `EndingSteps`, `GivingSteps`). From there to the last call of the sweep or
  of the replacement the mapped variables stand still. Issuing, revoking and
  redeeming are steps of their own, an interrupted request is `CutOff`, and all other
  calls and all handlers stutter.
- **`OrgRolesProofs`**: `RolesTypesHold` (`RolesTypeOK`), `OverlapAlwaysToBlame`
  (`OnlyOverlapLeavesStale`), `LoginsAlwaysExcused` (`LoginRolesExcused`). The
  invariant says of every answer a lookup holds what the property says of the
  cache: if it is older than a handled change, it was in flight when the entry
  was deleted.
- **`EventTrailProofs`**: `TrailTypesHold` (`TrailTypeOK`),
  `EventsAlwaysAccountedFor` (`EventsAccountedFor`), `RecordsAlwaysTrue`
  (`RecordsAreTrue`), `NothingEverForgotten` (`NothingForgotten`),
  `LastToldAlwaysCurrent` (`LastToldIsCurrent`). `BrokerInductive` follows each
  event from queue to inbox to row. The others rest on the form of the views:
  every way through each of them settles before it records, records once at most
  and announces a code right after storing it (`ViewsProper`), and what a request
  has left to do keeps that form (`BaseInductive`). Then `RecordInv`: requests
  have different numbers, no row tells of what is still to be recorded, and it is
  settled or will be before its record; `MovesForgetNothing`: the record a step
  takes off the list is written or counted as lost; and `CodesInv`: a code that
  waits is no newer than the one in Redis, and older only if two crossed.
- **`BootProofs`**: `SeedCanBeRepeated` (`SeedNeverBlocked`) from
  `SeedInductive`: a container past its seed has found or made a superadmin, and
  a request that is about to insert a row runs in a container that is up, so
  before the superadmin exists nobody can take its address. `BootTypesHold`
  (`BootTypeOK`), `AlwaysCreatedOnce` (`CreatedOnce`), `DeletedFlagsStayDeleted`
  (`DeletedStaysDeleted`), and `OnlyOverlapsLose` (`LossNeedsOverlap`) from
  `OverlapInv`: while a flag is not raced, the copy every update holds agrees
  with what was provided last, outside the fields it was given itself.

The assumptions are the named `ASSUME`s on the constants: limits are positive
numbers, model values differ from real ones, the seed's address is an address,
the workers of `AccountService` are finitely many.

## 6. What is only model-checked

- `StaleEntryEnds` and `RetriesSucceed`: liveness under fairness is beyond the
  prover.

Every other property of the passing runs is stated by a theorem. No module uses
recursive operators.

## 7. Observations that are not properties

Met while translating; the models take these steps as the code has them.

- `extract_jti` in the refresh view decodes the token the rotation has just
  blacklisted, raises and is swallowed, so `last_seen_at` never moves
  (`compliance_views.py:82`).
- Erasure replaces the e-mail address in memory; `update` does not write it.
- Registering an unverified address again is audited as `user.registered`, and
  regenerating backup codes as `user.mfa_enabled`.
- Payloads of `iam.*` carry no `event_type`: the consumer records each of
  them as `unknown`.
- A reset through a code publishes no `iam.password_changed`; a change of the
  password does.
- Three views look the user up by the address as typed while the use cases lower
  it, so that an address with a capital leaves no audit row.
- A lock is announced on the next refused attempt, not when it is set.
- Events published before the consumer's first start reach no queue.
- A token that is rotated keeps the organisation roles of the sign-in it began
  with, however often it is refreshed.
- A session is deactivated before its token is blacklisted: a request cut off in
  between leaves a live token whose session answers 404 from then on
  (`compliance_views.py:152`).
- `ActivateUser` activates an account that was deleted or erased as well.
- An account without a password that enables SMS or e-mail as its second factor
  can never confirm disabling it.
- `scheduled_at` of an announcement is stored and never acted upon.
- The platform status view answers "no maintenance" when the flag cannot be read.

## 8. What is not modelled, and why

- Announcements: one insert and a sorted read. Lists, analytics, health, JWKS:
  reads. Serializers, responses, settings: formatting and configuration.
- Identity verifiers, TOTP arithmetic, hashing, signatures: libraries and remote
  services, whose outcomes are the choices of the handlers.
- `tasks.py` and `reactivate_account.py`: the purge task imports names that do
  not exist and is not scheduled, and no URL reaches reactivation.
- `AccountService` follows one account: its stores are keyed by the user, and no
  statement of a request touches the rows of another.
- `OrgRoles` and `EventTrail` share a queue in the code and are modelled apart:
  each event goes to one handler, and both models let any event be lost.
- Rows older than migration 0010 may have `mfa_enabled` with no `mfa_type`, which
  the code reads as TOTP; an account starts here as one that registration or a
  social sign-in creates today.
- PostgreSQL statements are atomic at READ COMMITTED, Redis commands atomic,
  and clocks of workers agree.

## 9. Plan

Done, in this order: stores, `AccountService` with its properties and proofs;
`OrgRoles` with its proof; `EventTrail`; `AccountCreation`, `FeatureFlags`,
`Boot` with their proofs; faults in `AccountService` and errors in `Boot`; tokens,
codes and faults in `AtomicAccount`; tokens in `OrgRoles`; the proofs about the
stores, `Boot` and `EventTrail`; the proofs about requests that do not overlap, and
the refinement of `AtomicAccount`; what overlapping requests may do to backup codes.

Next, model:
1. One queue for `OrgRoles` and `EventTrail`, so that the loss of a roles event
   behind a failing audit insert is one behaviour.
2. An abstract flag store that `FeatureFlags` implements without overlaps.
3. Two accounts in the sweep, if tokens of one could reach the other's sessions.

Next, prove:
1. The composition of the account with its events, once they share a queue.
