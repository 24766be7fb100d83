------------------------------ MODULE OrgRoles -------------------------------
(***************************************************************************)
(* The organisation roles of one user, as tokens come to carry them.       *)
(*                                                                         *)
(* The management service owns the roles and announces every change on     *)
(* RabbitMQ.  OrgRoleClient, in the worker that issues a token, reads them *)
(* through a Redis entry with a time to live; the consumer process of      *)
(* consume_events.py deletes the entry when a change is announced.  The    *)
(* lookup is three steps (GET, HTTP request, SETEX) that interleave with   *)
(* the deletion.  What it returns becomes a claim of the refresh token,    *)
(* which every token it is later rotated to copies: a token keeps the      *)
(* roles of its login.  Roles are named by the number of changes made to   *)
(* them.                                                                   *)
(***************************************************************************)
EXTENDS Naturals, Sequences

CONSTANTS
    Workers,        \* processes that issue tokens
    Absent,         \* no entry in Redis
    Empty,          \* the {} a failed fetch returns
    MaxChanges      \* bound: how often the roles change

ASSUME OrgRolesAssumption ==
    /\ MaxChanges \in Nat
    /\ Absent \notin Nat /\ Empty \notin Nat /\ Absent # Empty

VARIABLES
    roles,      \* the roles the management service holds
    queue,      \* the durable queue iam.events
    inbox,      \* events delivered to the consumer, acknowledged on delivery
    running,    \* whether the consumer process runs
    cache,      \* the Redis entry
    lookup,     \* lookup[w]: the lookup worker w is in
    token,      \* the refresh token issued last, with the roles it carries
    handled,    \* history: the last change whose event has deleted the entry
    overlapped  \* history: roles some lookup had fetched when the entry was
                \* deleted, and had not written yet

rolesVars == <<roles, queue, inbox, running, cache, lookup, token, handled, overlapped>>

Fetched == (0..MaxChanges) \cup {Empty}
\* since: history, the last change handled when the lookup began.
Lookups == {l \in [phase : {"idle", "miss", "got"}, answer : Fetched \cup {Absent},
                   since : 0..MaxChanges] :
               l.phase = "got" <=> l.answer # Absent}
NoLookup == [phase |-> "idle", answer |-> Absent, since |-> 0]
Tokens == [roles : Fetched \cup {Absent}, since : 0..MaxChanges]

\* Events name changes that have happened, in the queue and at the consumer;
\* entries, lookups and tokens hold roles or the outcome of a failed fetch.
RolesTypeOK ==
    /\ roles \in 0..MaxChanges /\ handled \in 0..roles
    /\ queue \in Seq(1..roles) /\ inbox \in Seq(1..roles)
    /\ running \in BOOLEAN
    /\ cache \in Fetched \cup {Absent}
    /\ lookup \in [Workers -> Lookups] /\ token \in Tokens
    /\ overlapped \subseteq Fetched

RolesInit ==
    /\ roles = 0 /\ handled = 0
    /\ queue = <<>> /\ inbox = <<>> /\ running = TRUE
    /\ cache = Absent
    /\ lookup = [w \in Workers |-> NoLookup]
    /\ token = [roles |-> Absent, since |-> 0]
    /\ overlapped = {}

-----------------------------------------------------------------------------
\* The management service changes the roles and publishes org.member.*.
ChangeRoles ==
    /\ roles < MaxChanges
    /\ roles' = roles + 1
    /\ queue' = Append(queue, roles + 1)
    /\ UNCHANGED <<inbox, running, cache, lookup, token, handled, overlapped>>

\* generate_for_user: the token carries what get_org_roles returned.
IssueWith(answer, since) == token' = [roles |-> answer, since |-> since]

\* get_org_roles: the entry is there, also when it holds {}.
CacheHit(w) ==
    /\ lookup[w].phase = "idle" /\ cache # Absent
    /\ IssueWith(cache, handled)
    /\ UNCHANGED <<roles, queue, inbox, running, cache, lookup, handled, overlapped>>

\* get_org_roles: the entry is absent.
CacheMiss(w) ==
    /\ lookup[w].phase = "idle" /\ cache = Absent
    /\ lookup' = [lookup EXCEPT ![w] = [phase |-> "miss", answer |-> Absent, since |-> handled]]
    /\ UNCHANGED <<roles, queue, inbox, running, cache, token, handled, overlapped>>

\* Mutated form of FetchFromApi: a failed request returns nothing at all.
FetchFromApi_NoDefault(w) ==
    /\ lookup[w].phase = "miss"
    /\ \E answer \in {roles, Absent} :
          lookup' = [lookup EXCEPT ![w].phase = "got", ![w].answer = answer]
    /\ UNCHANGED <<roles, queue, inbox, running, cache, token, handled, overlapped>>

\* _fetch_from_api: the current roles, or {} when the service cannot be
\* reached, times out or does not answer 200.
FetchFromApi(w) ==
    /\ lookup[w].phase = "miss"
    /\ \E answer \in {roles, Empty} :
          lookup' = [lookup EXCEPT ![w].phase = "got", ![w].answer = answer]
    /\ UNCHANGED <<roles, queue, inbox, running, cache, token, handled, overlapped>>

\* redis.setex, whatever was fetched; then the token is issued.
SetCache(w) ==
    /\ lookup[w].phase = "got"
    /\ cache' = lookup[w].answer
    /\ IssueWith(lookup[w].answer, lookup[w].since)
    /\ lookup' = [lookup EXCEPT ![w] = NoLookup]
    /\ UNCHANGED <<roles, queue, inbox, running, handled, overlapped>>

\* Redis fails at SETEX, or the worker dies: the sign-in ends without a token.
LookupFails(w) ==
    /\ lookup[w].phase # "idle"
    /\ lookup' = [lookup EXCEPT ![w] = NoLookup]
    /\ UNCHANGED <<roles, queue, inbox, running, cache, token, handled, overlapped>>

\* Mutated form of ExpireEntry: only a good answer is given a time to live.
ExpireEntry_NotEmpty ==
    /\ cache \notin {Absent, Empty}
    /\ cache' = Absent
    /\ UNCHANGED <<roles, queue, inbox, running, lookup, token, handled, overlapped>>

\* _CACHE_TTL seconds passed since the entry was written.
ExpireEntry ==
    /\ cache # Absent
    /\ cache' = Absent
    /\ UNCHANGED <<roles, queue, inbox, running, lookup, token, handled, overlapped>>

\* The broker hands a message over; auto_ack removes it from the queue.
Deliver ==
    /\ running /\ queue # <<>>
    /\ inbox' = Append(inbox, Head(queue))
    /\ queue' = Tail(queue)
    /\ UNCHANGED <<roles, running, cache, lookup, token, handled, overlapped>>

\* What lookups have fetched and not written yet.
InFlight == {lookup[w].answer : w \in {v \in Workers : lookup[v].phase = "got"}}

\* Mutated form of InvalidateEntry: the key deleted is another one.
InvalidateEntry_OtherKey ==
    /\ running /\ inbox # <<>>
    /\ inbox' = Tail(inbox)
    /\ handled' = Head(inbox)
    /\ overlapped' = overlapped \cup InFlight
    /\ UNCHANGED <<roles, queue, running, cache, lookup, token>>

\* _on_message, _handle_member_event and invalidate: the entry is deleted.
InvalidateEntry ==
    /\ running /\ inbox # <<>>
    /\ inbox' = Tail(inbox)
    /\ cache' = Absent
    /\ handled' = Head(inbox)
    /\ overlapped' = overlapped \cup InFlight
    /\ UNCHANGED <<roles, queue, running, lookup, token>>

\* The handler raises (Redis is unreachable); _on_message logs the error.
HandlerFails ==
    /\ running /\ inbox # <<>>
    /\ inbox' = Tail(inbox)
    /\ UNCHANGED <<roles, queue, running, cache, lookup, token, handled, overlapped>>

\* The connection fails or the process is stopped: handle returns.
ConsumerStops ==
    /\ running
    /\ running' = FALSE /\ inbox' = <<>>
    /\ UNCHANGED <<roles, queue, cache, lookup, token, handled, overlapped>>

ConsumerStarts ==
    /\ ~running
    /\ running' = TRUE
    /\ UNCHANGED <<roles, queue, inbox, cache, lookup, token, handled, overlapped>>

Step(w) == FetchFromApi(w) \/ SetCache(w)

RolesNext ==
    \/ ChangeRoles \/ ExpireEntry
    \/ \E w \in Workers : CacheHit(w) \/ CacheMiss(w) \/ Step(w) \/ LookupFails(w)
    \/ Deliver \/ InvalidateEntry \/ HandlerFails \/ ConsumerStops \/ ConsumerStarts

\* A worker finishes the request it serves (the HTTP request has a timeout),
\* and Redis drops an entry when its time is over.  Nothing is assumed of the
\* consumer: no code in the repository restarts it.
RolesFairness == WF_rolesVars(ExpireEntry) /\ \A w \in Workers : WF_rolesVars(Step(w))

RolesSpec == RolesInit /\ [][RolesNext]_rolesVars /\ RolesFairness

-----------------------------------------------------------------------------
Outdated(answer, change) == answer \in 0..MaxChanges /\ answer < change

\* An entry older than an invalidation that has been carried out comes from a
\* lookup that overlapped the invalidation, never from the entry surviving it
\* (consume_events.py:19): lost, failed and late events are not to blame.
OnlyOverlapLeavesStale == Outdated(cache, handled) => cache \in overlapped

\* A sign-in that begins after a change has been handled does not carry older
\* roles into its token, unless the entry it found was left by such a lookup
\* (token_service.py:33).
LoginRolesExcused == Outdated(token.roles, token.since) => token.roles \in overlapped

\* Whatever events are lost and however often the consumer is down, outdated
\* roles, or the {} of a failed fetch, do not stay in the cache for ever
\* (org_role_client.py:44); later sign-ins look them up again.
StaleEntryEnds ==
    \A f \in Fetched : (cache = f /\ cache # roles) ~> (cache # f)
=============================================================================
