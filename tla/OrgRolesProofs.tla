--------------------------- MODULE OrgRolesProofs ----------------------------
(***************************************************************************)
(* Proof that only a lookup that overlaps an invalidation can leave        *)
(* outdated roles in the cache or put them into a new token, for any       *)
(* number of workers and changes.  The invariant is made inductive by      *)
(* saying the same of the answers that lookups hold and have not written   *)
(* yet, and that an answer is no older than the beginning of its lookup.   *)
(***************************************************************************)
EXTENDS OrgRoles, TLAPS

Excused(f) == Outdated(f, handled) => f \in overlapped
LookupOK(l) == Excused(l.answer) /\ l.since <= roles /\ ~Outdated(l.answer, l.since)
RolesInv ==
    /\ RolesTypeOK
    /\ Excused(cache) /\ LoginRolesExcused
    /\ \A w \in Workers : LookupOK(lookup[w])

\* The empty cache and the idle lookups owe nobody an excuse.
LEMMA RolesInitInv == RolesInit => RolesInv
<1> SUFFICES ASSUME RolesInit PROVE RolesInv
  OBVIOUS
<1>1. RolesTypeOK
  BY OrgRolesAssumption DEF RolesInit, RolesTypeOK, Fetched, Lookups, NoLookup, Tokens
<1>2. Excused(cache) /\ LoginRolesExcused /\ \A w \in Workers : LookupOK(lookup[w])
  BY OrgRolesAssumption DEF RolesInit, Excused, Outdated, LoginRolesExcused, LookupOK, NoLookup
<1> QED BY <1>1, <1>2 DEF RolesInv

\* A step that changes neither an answer nor the changes handled, and excuses
\* no less, keeps the excuses.
LEMMA ExcusesStay ==
    ASSUME RolesInv, RolesTypeOK', roles <= roles',
           UNCHANGED <<cache, lookup, token, handled, overlapped>>
    PROVE  RolesInv'
<1>1. ASSUME NEW w \in Workers PROVE LookupOK(lookup[w])'
  <2>1. lookup[w].since <= roles /\ lookup[w].since \in Nat /\ roles \in Nat /\ roles' \in Nat
    BY DEF RolesInv, RolesTypeOK, Lookups, LookupOK
  <2> QED BY <2>1 DEF RolesInv, LookupOK, Excused, Outdated
<1> QED BY <1>1 DEF RolesInv, Excused, Outdated, LoginRolesExcused

\* A lookup that finds nothing in the cache, fetches, or ends.
LEMMA LookupStep ==
    ASSUME RolesInv, NEW w \in Workers, NEW l \in Lookups, LookupOK(l),
           lookup' = [lookup EXCEPT ![w] = l],
           UNCHANGED <<roles, queue, inbox, running, handled, overlapped>>,
           cache' \in Fetched \cup {Absent}, token' \in Tokens,
           Excused(cache'), Outdated(token'.roles, token'.since) => token'.roles \in overlapped
    PROVE  RolesInv'
<1>1. lookup' \in [Workers -> Lookups] /\ \A v \in Workers : lookup'[v] \in {l, lookup[v]}
  BY DEF RolesInv, RolesTypeOK
<1>2. RolesTypeOK'
  BY <1>1 DEF RolesInv, RolesTypeOK
<1>3. \A v \in Workers : LookupOK(lookup[v])'
  BY <1>1 DEF RolesInv, LookupOK, Excused, Outdated
<1> QED BY <1>2, <1>3 DEF RolesInv, Excused, Outdated, LoginRolesExcused

\* Every step of the service, the broker, the consumer and a lookup keeps the
\* excuses: an invalidation adds the answers in flight to them.
LEMMA RolesStepInv == RolesInv /\ [RolesNext]_rolesVars => RolesInv'
<1> SUFFICES ASSUME RolesInv, [RolesNext]_rolesVars PROVE RolesInv'
  OBVIOUS
<1> USE OrgRolesAssumption
<1>0. NoLookup \in Lookups /\ LookupOK(NoLookup)
  BY DEF NoLookup, Lookups, LookupOK, Excused, Outdated, RolesInv, RolesTypeOK
<1>1. CASE ChangeRoles
  <2>1. queue \in Seq(1..(roles + 1)) /\ inbox \in Seq(1..(roles + 1))
    BY DEF RolesInv, RolesTypeOK
  <2>2. RolesTypeOK'
    BY <1>1, <2>1 DEF ChangeRoles, RolesInv, RolesTypeOK, Fetched
  <2> QED BY <1>1, <2>2, ExcusesStay DEF ChangeRoles, RolesInv, RolesTypeOK
<1>2. CASE ExpireEntry
  <2>1. RolesTypeOK'
    BY <1>2 DEF ExpireEntry, RolesInv, RolesTypeOK
  <2> QED
    BY <1>2, <2>1 DEF ExpireEntry, RolesInv, Excused, Outdated, LookupOK, LoginRolesExcused
<1>3. ASSUME NEW w \in Workers, CacheMiss(w) PROVE RolesInv'
  <2> DEFINE l == [phase |-> "miss", answer |-> Absent, since |-> handled]
  <2>1. l \in Lookups /\ LookupOK(l)
    BY DEF RolesInv, RolesTypeOK, Lookups, LookupOK, Excused, Outdated
  <2> QED
    BY <1>3, <2>1, LookupStep DEF CacheMiss, RolesInv, RolesTypeOK, LoginRolesExcused
<1>4. ASSUME NEW w \in Workers, FetchFromApi(w) PROVE RolesInv'
  <2>1. PICK answer \in {roles, Empty} :
           lookup' = [lookup EXCEPT ![w].phase = "got", ![w].answer = answer]
    BY <1>4 DEF FetchFromApi
  <2> DEFINE l == [lookup[w] EXCEPT !.phase = "got", !.answer = answer]
  <2>2. lookup[w] \in Lookups /\ LookupOK(lookup[w]) /\ roles \in 0..MaxChanges /\ handled \in 0..roles
    BY DEF RolesInv, RolesTypeOK
  <2>3. l \in Lookups /\ l.answer = answer /\ l.since = lookup[w].since
    <3>1. answer \in Fetched /\ answer # Absent
      BY <2>2 DEF Fetched
    <3>2. lookup[w] \in [phase : {"idle", "miss", "got"}, answer : Fetched \cup {Absent},
                         since : 0..MaxChanges]
      BY <2>2 DEF Lookups
    <3>3. /\ l \in [phase : {"idle", "miss", "got"}, answer : Fetched \cup {Absent},
                    since : 0..MaxChanges]
          /\ l.phase = "got" /\ l.answer = answer /\ l.since = lookup[w].since
      BY <3>1, <3>2
    <3> HIDE DEF l
    <3> QED BY <3>1, <3>3 DEF Lookups
  <2>4. LookupOK(l)
    BY <2>2, <2>3 DEF LookupOK, Excused, Outdated, Lookups
  <2>5. lookup' = [lookup EXCEPT ![w] = l]
    BY <2>1
  <2> HIDE DEF l
  <2> QED
    BY <1>4, <2>3, <2>4, <2>5, LookupStep DEF FetchFromApi, RolesInv, RolesTypeOK,
       LoginRolesExcused
<1>5. ASSUME NEW w \in Workers, SetCache(w) PROVE RolesInv'
  <2>1. lookup[w] \in Lookups /\ LookupOK(lookup[w])
    BY DEF RolesInv, RolesTypeOK
  <2>2. cache' \in Fetched /\ cache' = lookup[w].answer /\ Excused(cache')
    BY <1>5, <2>1 DEF SetCache, Lookups, LookupOK
  <2>3. token' \in Tokens /\ ~Outdated(token'.roles, token'.since)
    BY <1>5, <2>1, <2>2 DEF SetCache, IssueWith, Tokens, Lookups, LookupOK
  <2> QED BY <1>5, <1>0, <2>2, <2>3, LookupStep DEF SetCache
<1>6. ASSUME NEW w \in Workers, LookupFails(w) PROVE RolesInv'
  BY <1>6, <1>0, LookupStep DEF LookupFails, RolesInv, RolesTypeOK, LoginRolesExcused
<1>7. ASSUME NEW w \in Workers, CacheHit(w) PROVE RolesInv'
  <2>1. RolesTypeOK'
    BY <1>7 DEF CacheHit, IssueWith, Tokens, RolesInv, RolesTypeOK
  <2>2. LoginRolesExcused'
    BY <1>7 DEF CacheHit, IssueWith, RolesInv, Excused, LoginRolesExcused, Outdated
  <2> QED BY <1>7, <2>1, <2>2 DEF CacheHit, RolesInv, Excused, Outdated, LookupOK
<1>8. CASE Deliver
  <2>1. RolesTypeOK'
    BY <1>8 DEF Deliver, RolesInv, RolesTypeOK
  <2> QED BY <1>8, <2>1, ExcusesStay DEF Deliver, RolesInv, RolesTypeOK
<1>9. CASE InvalidateEntry
  <2>1. Head(inbox) \in 1..roles /\ Tail(inbox) \in Seq(1..roles)
    BY <1>9 DEF InvalidateEntry, RolesInv, RolesTypeOK
  <2>2. InFlight \subseteq Fetched
    BY DEF InFlight, RolesInv, RolesTypeOK, Lookups
  <2>3. RolesTypeOK'
    BY <1>9, <2>1, <2>2 DEF InvalidateEntry, RolesInv, RolesTypeOK
  <2>4. Excused(cache)' /\ LoginRolesExcused'
    BY <1>9 DEF InvalidateEntry, Excused, Outdated, RolesInv, LoginRolesExcused
  <2>5. ASSUME NEW w \in Workers PROVE LookupOK(lookup[w])'
    <3>1. lookup[w] \in Lookups /\ LookupOK(lookup[w])
      BY DEF RolesInv, RolesTypeOK
    <3>2. lookup[w].phase = "got" => lookup[w].answer \in overlapped'
      BY <1>9 DEF InvalidateEntry, InFlight
    <3>3. lookup[w].phase # "got" => lookup[w].answer = Absent
      BY <3>1 DEF Lookups
    <3> QED BY <1>9, <3>1, <3>2, <3>3 DEF InvalidateEntry, LookupOK, Excused, Outdated
  <2> QED BY <2>3, <2>4, <2>5 DEF RolesInv
<1>10. CASE HandlerFails
  <2>1. Tail(inbox) \in Seq(1..roles)
    BY <1>10 DEF HandlerFails, RolesInv, RolesTypeOK
  <2>2. RolesTypeOK'
    BY <1>10, <2>1 DEF HandlerFails, RolesInv, RolesTypeOK
  <2> QED BY <1>10, <2>2, ExcusesStay DEF HandlerFails, RolesInv, RolesTypeOK
<1>11. CASE ConsumerStops
  <2>1. <<>> \in Seq(1..roles)
    OBVIOUS
  <2>2. RolesTypeOK'
    BY <1>11, <2>1 DEF ConsumerStops, RolesInv, RolesTypeOK
  <2> QED BY <1>11, <2>2, ExcusesStay DEF ConsumerStops, RolesInv, RolesTypeOK
<1>12. CASE ConsumerStarts
  <2>1. RolesTypeOK'
    BY <1>12 DEF ConsumerStarts, RolesInv, RolesTypeOK
  <2> QED BY <1>12, <2>1, ExcusesStay DEF ConsumerStarts, RolesInv, RolesTypeOK
<1>13. CASE UNCHANGED rolesVars
  <2>1. RolesTypeOK'
    BY <1>13 DEF rolesVars, RolesInv, RolesTypeOK
  <2> QED BY <1>13, <2>1, ExcusesStay DEF rolesVars, RolesInv, RolesTypeOK
<1> QED
  BY <1>1, <1>2, <1>3, <1>4, <1>5, <1>6, <1>7, <1>8, <1>9, <1>10, <1>11, <1>12, <1>13
  DEF RolesNext, Step

\* The invariant holds of every behaviour.
LEMMA RolesAlwaysInv == RolesSpec => []RolesInv
<1> QED BY RolesInitInv, RolesStepInv, PTL DEF RolesSpec

\* Queue, cache, lookups and tokens keep their types.
THEOREM RolesTypesHold == RolesSpec => []RolesTypeOK
<1>1. RolesInv => RolesTypeOK
  BY DEF RolesInv
<1> QED BY <1>1, RolesAlwaysInv, PTL

\* Every entry older than a handled change was held by a lookup while the
\* change was handled.
THEOREM OverlapAlwaysToBlame == RolesSpec => []OnlyOverlapLeavesStale
<1>1. RolesInv => OnlyOverlapLeavesStale
  BY DEF RolesInv, Excused, OnlyOverlapLeavesStale
<1> QED BY <1>1, RolesAlwaysInv, PTL

\* So was every entry that gave a new token roles older than a change handled
\* before its sign-in began.
THEOREM LoginsAlwaysExcused == RolesSpec => []LoginRolesExcused
<1>1. RolesInv => LoginRolesExcused
  BY DEF RolesInv
<1> QED BY <1>1, RolesAlwaysInv, PTL
=============================================================================
