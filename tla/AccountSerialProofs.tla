------------------------- MODULE AccountSerialProofs --------------------------
(***************************************************************************)
(* Proofs about requests that do not overlap, for every set of endpoints   *)
(* and every limit: one worker serves the account, requests are still cut  *)
(* off between two calls.                                                  *)
(*                                                                         *)
(* A request has read the row, decided what to write and then makes its    *)
(* calls.  While it is alone, what it decided stays right: the row it is   *)
(* going to write is the present one with the change its endpoint is       *)
(* about (Intends), the code it found is unused still, the tokens it saw   *)
(* are all there are (Held).  The properties follow from that.             *)
(***************************************************************************)
EXTENDS AccountStoreProofs

\* Requests on the account do not overlap.
Alone == \E w : Workers = {w}

-----------------------------------------------------------------------------
(***************************************************************************)
(* The calls a request has yet to make, as a set.                          *)
(***************************************************************************)
CallsOf(t) == {t[i] : i \in DOMAIN t}

\* The calls that come before the row is written; all others come after it.
Prior == {"otp_get", "otp_delete", "history_check"}

\* An order that all plans follow, and so what is left of them.
Rank(c) ==
    CASE c = "otp_get" -> 1 [] c = "otp_delete" -> 2 [] c = "history_check" -> 3
      [] c = "update" -> 4 [] c = "history_insert" -> 5 [] c = "history_list" -> 6
      [] c = "history_prune" -> 7 [] c = "tokens_query" -> 8 [] c = "blacklist_each" -> 9
      [] c = "sessions_off" -> 10 [] c = "codes_delete" -> 11 [] c = "codes_create" -> 12
      [] c = "codes_find" -> 13 [] c = "code_save" -> 14 [] c = "user_active" -> 15
      [] c = "blacklist" -> 16 [] c = "issue" -> 17 [] c = "session_check" -> 18
      [] c = "session_create" -> 19 [] c = "otp_set" -> 20 [] c = "session_off" -> 21
      [] c = "touch" -> 22
Steady(t) == \A i, k \in DOMAIN t : i < k => Rank(t[i]) < Rank(t[k])

\* The ranks are numbers.
LEMMA RankNat == \A c \in Calls : Rank(c) \in Nat
  BY DEF Calls, Rank

\* A request that revokes all tokens or replaces the backup codes makes no
\* call on a single token or code, and once its row is written it asks nothing.
Single == {"issue", "blacklist", "user_active", "session_check", "codes_find", "code_save"}
Apart(C) ==
    /\ C \cap Single # {}
          => C \cap {"blacklist_each", "sessions_off", "codes_create"} = {}
    /\ ~({"blacklist_each", "codes_create"} \subseteq C)
    /\ C \cap {"codes_find", "code_save"} # {} => "update" \notin C
    /\ C \cap Prior # {} /\ C \cap {"blacklist_each", "codes_create", "history_insert"} # {}
          => "update" \in C

\* Joined sequences make the calls of both.
LEMMA JoinedCalls ==
    ASSUME NEW s \in Seq(Calls), NEW t \in Seq(Calls)
    PROVE  CallsOf(s \o t) = CallsOf(s) \cup CallsOf(t)
<1> DEFINE u == s \o t
<1>1. /\ DOMAIN s = 1..Len(s) /\ DOMAIN t = 1..Len(t) /\ Len(s) \in Nat /\ Len(t) \in Nat
      /\ DOMAIN u = 1..(Len(s) + Len(t))
      /\ \A i \in 1..Len(s) : u[i] = s[i]
      /\ \A j \in 1..Len(t) : u[Len(s) + j] = t[j]
  <2>1. u \in Seq(Calls)
    OBVIOUS
  <2> QED BY <2>1, JoinedAt
<1> HIDE DEF u
<1>2. ASSUME NEW i \in DOMAIN u PROVE u[i] \in CallsOf(s) \cup CallsOf(t)
  <2>1. CASE i <= Len(s)
    <3>1. i \in DOMAIN s /\ u[i] = s[i]
      BY <1>1, <2>1
    <3> QED BY <3>1 DEF CallsOf
  <2>2. CASE ~(i <= Len(s))
    <3>1. PICK j \in DOMAIN t : i = Len(s) + j
      <4>1. i - Len(s) \in DOMAIN t /\ i = Len(s) + (i - Len(s))
        BY <1>1, <2>2
      <4> QED BY <4>1
    <3>2. u[i] = t[j]
      BY <1>1, <3>1
    <3> QED BY <3>2 DEF CallsOf
  <2> QED BY <2>1, <2>2
<1>3. ASSUME NEW i \in DOMAIN s PROVE s[i] \in CallsOf(u)
  <2>1. i \in DOMAIN u /\ u[i] = s[i]
    BY <1>1
  <2> QED BY <2>1 DEF CallsOf
<1>4. ASSUME NEW j \in DOMAIN t PROVE t[j] \in CallsOf(u)
  <2>1. Len(s) + j \in DOMAIN u /\ u[Len(s) + j] = t[j]
    BY <1>1
  <2> QED BY <2>1 DEF CallsOf
<1>5. CallsOf(u) = CallsOf(s) \cup CallsOf(t)
  BY <1>2, <1>3, <1>4 DEF CallsOf
<1> QED BY <1>5 DEF u

\* Joining two steady sequences, all calls of the first ranking below those of
\* the second.
LEMMA JoinedSteady ==
    ASSUME NEW s \in Seq(Calls), NEW t \in Seq(Calls), Steady(s), Steady(t),
           \A c \in CallsOf(s), d \in CallsOf(t) : Rank(c) < Rank(d)
    PROVE  Steady(s \o t)
<1> DEFINE u == s \o t
<1>1. /\ DOMAIN s = 1..Len(s) /\ DOMAIN t = 1..Len(t) /\ Len(s) \in Nat /\ Len(t) \in Nat
      /\ DOMAIN u = 1..(Len(s) + Len(t))
      /\ \A i \in 1..Len(s) : u[i] = s[i]
      /\ \A j \in 1..Len(t) : u[Len(s) + j] = t[j]
  <2>1. u \in Seq(Calls)
    OBVIOUS
  <2> QED BY <2>1, JoinedAt
<1> HIDE DEF u
<1>2. ASSUME NEW i \in DOMAIN u
      PROVE  \/ i \in DOMAIN s /\ u[i] = s[i] /\ u[i] \in CallsOf(s)
             \/ \E j \in DOMAIN t : i = Len(s) + j /\ u[i] = t[j] /\ u[i] \in CallsOf(t)
  <2>1. CASE i <= Len(s)
    <3>1. i \in DOMAIN s /\ u[i] = s[i]
      BY <1>1, <2>1
    <3> QED BY <3>1 DEF CallsOf
  <2>2. CASE ~(i <= Len(s))
    <3>1. PICK j \in DOMAIN t : i = Len(s) + j
      <4>1. i - Len(s) \in DOMAIN t /\ i = Len(s) + (i - Len(s))
        BY <1>1, <2>2
      <4> QED BY <4>1
    <3>2. u[i] = t[j]
      BY <1>1, <3>1
    <3> QED BY <3>1, <3>2 DEF CallsOf
  <2> QED BY <2>1, <2>2
<1>3. ASSUME NEW i \in DOMAIN u, NEW k \in DOMAIN u, i < k
      PROVE  Rank(u[i]) < Rank(u[k])
  <2>1. CASE i \in DOMAIN s /\ u[i] = s[i] /\ k \in DOMAIN s /\ u[k] = s[k]
    BY <1>3, <2>1 DEF Steady
  <2>2. ASSUME NEW j \in DOMAIN t, i = Len(s) + j, u[i] = t[j],
               NEW l \in DOMAIN t, k = Len(s) + l, u[k] = t[l]
        PROVE  Rank(u[i]) < Rank(u[k])
    <3>1. j < l
      BY <1>1, <1>3, <2>2
    <3> QED BY <2>2, <3>1 DEF Steady
  <2>3. ASSUME u[i] \in CallsOf(s), u[k] \in CallsOf(t) PROVE Rank(u[i]) < Rank(u[k])
    BY <2>3
  <2>4. ASSUME k \in DOMAIN s, NEW j \in DOMAIN t, i = Len(s) + j PROVE FALSE
    BY <1>1, <1>3, <2>4
  <2> QED BY <1>2, <2>1, <2>2, <2>3, <2>4
<1>4. Steady(u)
  BY <1>3 DEF Steady
<1> QED BY <1>4 DEF u

\* The first call, and the calls that remain when it is made.
LEMMA TailCalls ==
    ASSUME NEW s \in Seq(Calls), s # <<>>, Steady(s)
    PROVE  /\ Head(s) \in CallsOf(s) /\ CallsOf(s) \subseteq Calls
           /\ CallsOf(Tail(s)) = CallsOf(s) \ {Head(s)}
           /\ Steady(Tail(s)) /\ Tail(s) \in Seq(Calls)
           /\ \A c \in CallsOf(Tail(s)) : Rank(Head(s)) < Rank(c)
           /\ "update" \in CallsOf(s) => Head(s) \in Prior \cup {"update"}
           /\ Head(s) = "update" => CallsOf(s) \cap Prior = {}
<1> DEFINE t == Tail(s)
<1>1. /\ DOMAIN s = 1..Len(s) /\ Len(s) \in Nat \ {0} /\ DOMAIN t = 1..(Len(s) - 1)
      /\ \A i \in DOMAIN t : t[i] = s[i + 1]
      /\ Head(s) = s[1] /\ 1 \in DOMAIN s /\ t \in Seq(Calls)
      /\ \A i \in DOMAIN s : s[i] \in Calls
  OBVIOUS
<1> HIDE DEF t
<1>2. \A i \in DOMAIN s : i = 1 \/ (i - 1 \in DOMAIN t /\ 1 < i)
  BY <1>1
<1>3. \A i \in DOMAIN t : i + 1 \in DOMAIN s /\ 1 < i + 1 /\ i \in Nat
  BY <1>1
<1>4. Head(s) \in CallsOf(s) /\ CallsOf(s) \subseteq Calls
  BY <1>1 DEF CallsOf
<1>5. ASSUME NEW i \in DOMAIN s, i # 1 PROVE s[i] \in CallsOf(t)
  <2>1. i - 1 \in DOMAIN t /\ t[i - 1] = s[i]
    BY <1>1, <1>2, <1>5
  <2> QED BY <2>1 DEF CallsOf
<1>6. ASSUME NEW i \in DOMAIN t
      PROVE  t[i] \in CallsOf(s) /\ Rank(Head(s)) < Rank(t[i]) /\ t[i] # Head(s)
  <2>1. i + 1 \in DOMAIN s /\ t[i] = s[i + 1] /\ 1 < i + 1
    BY <1>1, <1>3
  <2>2. Rank(s[1]) < Rank(s[i + 1])
    BY <1>1, <2>1 DEF Steady
  <2>3. Rank(s[1]) \in Nat /\ Rank(s[i + 1]) \in Nat
    BY <1>1, <2>1, RankNat
  <2>4. s[1] # s[i + 1]
    BY <2>2, <2>3
  <2> QED BY <1>1, <2>1, <2>2, <2>4 DEF CallsOf
<1>7. CallsOf(t) = CallsOf(s) \ {Head(s)}
  <2>1. ASSUME NEW c \in CallsOf(s), c # Head(s) PROVE c \in CallsOf(t)
    BY <1>1, <1>5, <2>1 DEF CallsOf
  <2>2. ASSUME NEW c \in CallsOf(t) PROVE c \in CallsOf(s) /\ c # Head(s)
    BY <1>6 DEF CallsOf
  <2> QED BY <2>1, <2>2
<1>8. Steady(t)
  <2> SUFFICES ASSUME NEW i \in DOMAIN t, NEW k \in DOMAIN t, i < k
               PROVE  Rank(t[i]) < Rank(t[k])
    BY DEF Steady
  <2>1. /\ i + 1 \in DOMAIN s /\ t[i] = s[i + 1] /\ i \in Nat
        /\ k + 1 \in DOMAIN s /\ t[k] = s[k + 1] /\ k \in Nat
    BY <1>1, <1>3
  <2>2. i + 1 < k + 1
    BY <2>1
  <2> QED BY <2>1, <2>2 DEF Steady
<1>9. \A c \in CallsOf(t) : Rank(Head(s)) < Rank(c)
  BY <1>6 DEF CallsOf
<1>10. ASSUME "update" \in CallsOf(t) PROVE Head(s) \in Prior
  <2>1. Rank(Head(s)) < Rank("update") /\ Head(s) \in Calls
    BY <1>4, <1>9, <1>10
  <2> QED BY <2>1 DEF Rank, Calls, Prior
<1>11. ASSUME Head(s) = "update", NEW c \in CallsOf(s) PROVE c \notin Prior
  <2>1. c = "update" \/ Rank("update") < Rank(c)
    BY <1>7, <1>9, <1>11
  <2> QED BY <2>1 DEF Rank, Prior
<1> QED BY <1>1, <1>4, <1>7, <1>8, <1>9, <1>10, <1>11 DEF t

\* A sequence of these calls, in a steady order.
Makes(t, C) == t \in Seq(Calls) /\ Steady(t) /\ CallsOf(t) = C

\* The parts the plans are made of.
LEMMA PartCalls ==
    /\ Makes(<<>>, {}) /\ Makes(<<"update">>, {"update"}) /\ Makes(<<"otp_set">>, {"otp_set"})
    /\ Makes(<<"blacklist">>, {"blacklist"})
    /\ Makes(<<"blacklist", "session_off">>, {"blacklist", "session_off"})
    /\ Makes(<<"codes_find", "code_save">>, {"codes_find", "code_save"})
    /\ Makes(<<"history_check", "update">>, {"history_check", "update"})
    /\ Makes(<<"user_active", "blacklist", "issue", "touch">>,
             {"user_active", "blacklist", "issue", "touch"})
    /\ Makes(Issue, {"issue", "session_check", "session_create"})
    /\ Makes(Consume, {"otp_get", "otp_delete"})
    /\ Makes(Sweep, {"tokens_query", "blacklist_each", "sessions_off"})
    /\ Makes(Record, {"history_insert", "history_list", "history_prune"})
    /\ Makes(Generate, {"codes_delete", "codes_create"})
<1> USE DEF Makes, Steady, CallsOf
<1>1. Makes(<<>>, {})
  BY PlanParts DEF Plain
<1>2. ASSUME NEW a, <<a>> \in Seq(Calls) PROVE Makes(<<a>>, {a})
  <2>1. Steady(<<a>>)
    OBVIOUS
  <2>2. \A c : c \in CallsOf(<<a>>) <=> c = a
    OBVIOUS
  <2> QED BY <1>2, <2>1, <2>2
<1>3. ASSUME NEW a, NEW b, <<a, b>> \in Seq(Calls), Rank(a) < Rank(b)
      PROVE  Makes(<<a, b>>, {a, b})
  <2>1. Steady(<<a, b>>)
    BY <1>3
  <2>2. \A c : c \in CallsOf(<<a, b>>) <=> c \in {a, b}
    OBVIOUS
  <2> QED BY <1>3, <2>1, <2>2
<1>4. ASSUME NEW a, NEW b, NEW c, <<a, b, c>> \in Seq(Calls), Rank(a) < Rank(b),
             Rank(b) < Rank(c), Rank(a) < Rank(c)
      PROVE  Makes(<<a, b, c>>, {a, b, c})
  <2>1. Steady(<<a, b, c>>)
    BY <1>4
  <2>2. \A d : d \in CallsOf(<<a, b, c>>) <=> d \in {a, b, c}
    OBVIOUS
  <2> QED BY <1>4, <2>1, <2>2
<1>5. Makes(<<"user_active", "blacklist", "issue", "touch">>,
            {"user_active", "blacklist", "issue", "touch"})
  <2> DEFINE t == <<"user_active", "blacklist", "issue", "touch">>
  <2>1. Steady(t)
    BY DEF Rank
  <2>2. \A d : d \in CallsOf(t) <=> d \in {"user_active", "blacklist", "issue", "touch"}
    OBVIOUS
  <2>3. t \in Seq(Calls)
    BY PlanParts DEF Plain
  <2> QED BY <2>1, <2>2, <2>3
<1>6. Makes(Consume, {"otp_get", "otp_delete"})
  <2>1. Steady(Consume)
    BY DEF Consume, Rank
  <2>2. \A c : c \in CallsOf(Consume) <=> c \in {"otp_get", "otp_delete"}
    BY DEF Consume
  <2>3. Consume \in Seq(Calls)
    BY PlanParts DEF Plain
  <2> QED BY <2>1, <2>2, <2>3
<1> HIDE DEF Makes, Steady, CallsOf
<1>0. /\ Rank("blacklist") < Rank("session_off") /\ Rank("codes_find") < Rank("code_save")
      /\ Rank("history_check") < Rank("update") /\ Rank("codes_delete") < Rank("codes_create")
      /\ Rank("issue") < Rank("session_check") /\ Rank("session_check") < Rank("session_create")
      /\ Rank("issue") < Rank("session_create")
      /\ Rank("tokens_query") < Rank("blacklist_each") /\ Rank("blacklist_each") < Rank("sessions_off")
      /\ Rank("tokens_query") < Rank("sessions_off")
      /\ Rank("history_insert") < Rank("history_list") /\ Rank("history_list") < Rank("history_prune")
      /\ Rank("history_insert") < Rank("history_prune")
  BY DEF Rank
<1>7. /\ Makes(<<"update">>, {"update"}) /\ Makes(<<"otp_set">>, {"otp_set"})
      /\ Makes(<<"blacklist">>, {"blacklist"})
  BY <1>2, PlanParts DEF Plain
<1>8. /\ Makes(<<"blacklist", "session_off">>, {"blacklist", "session_off"})
      /\ Makes(<<"codes_find", "code_save">>, {"codes_find", "code_save"})
  BY <1>0, <1>3, PlanParts DEF Plain
<1>9. Makes(<<"history_check", "update">>, {"history_check", "update"})
  BY <1>0, <1>3, PlanParts DEF Plain
<1>10. Makes(Generate, {"codes_delete", "codes_create"})
  BY <1>0, <1>3, PlanParts DEF Generate
<1>11. /\ Makes(Issue, {"issue", "session_check", "session_create"})
       /\ Makes(Sweep, {"tokens_query", "blacklist_each", "sessions_off"})
       /\ Makes(Record, {"history_insert", "history_list", "history_prune"})
  BY <1>0, <1>4, PlanParts DEF Plain, Issue, Sweep, Record
<1> QED BY <1>1, <1>5, <1>6, <1>7, <1>8, <1>9, <1>10, <1>11

\* Two parts joined.
LEMMA JoinedMakes ==
    ASSUME NEW s, NEW t, NEW C, NEW D, Makes(s, C), Makes(t, D),
           \A c \in C, d \in D : Rank(c) < Rank(d)
    PROVE  Makes(s \o t, C \cup D)
<1>1. s \o t \in Seq(Calls)
  BY TodoConcat DEF Makes
<1> QED BY <1>1, JoinedCalls, JoinedSteady DEF Makes

\* The calls of the plans that are joined from parts.
LEMMA PlanCalls ==
    /\ Makes(<<"update">> \o <<>>, {"update"})
    /\ Makes(<<"update">> \o <<"otp_set">>, {"update", "otp_set"})
    /\ Makes(<<"update">> \o Issue, {"update", "issue", "session_check", "session_create"})
    /\ Makes(Consume \o Issue,
             {"otp_get", "otp_delete", "issue", "session_check", "session_create"})
    /\ Makes(<<"codes_find", "code_save">> \o Issue,
             {"codes_find", "code_save", "issue", "session_check", "session_create"})
    /\ Makes(Consume \o <<"update">>, {"otp_get", "otp_delete", "update"})
    /\ Makes(SetPassword,
             {"history_check", "update", "history_insert", "history_list", "history_prune",
              "tokens_query", "blacklist_each", "sessions_off"})
    /\ Makes(Consume \o SetPassword,
             {"otp_get", "otp_delete", "history_check", "update", "history_insert",
              "history_list", "history_prune", "tokens_query", "blacklist_each", "sessions_off"})
    /\ Makes(<<"update">> \o Sweep, {"update", "tokens_query", "blacklist_each", "sessions_off"})
    /\ Makes(<<"update">> \o Generate, {"update", "codes_delete", "codes_create"})
    /\ Makes(Consume \o <<"update">> \o Generate,
             {"otp_get", "otp_delete", "update", "codes_delete", "codes_create"})
<1>0. ASSUME NEW t, NEW C, NEW D, Makes(t, C), C = D PROVE Makes(t, D)
  BY <1>0
<1> DEFINE S == {"history_check", "update", "history_insert", "history_list", "history_prune",
                 "tokens_query", "blacklist_each", "sessions_off"}
<1>1. Makes(<<"update">> \o <<>>, {"update"} \cup {})
  BY PartCalls, JoinedMakes DEF Rank
<1>2. Makes(<<"update">> \o <<"otp_set">>, {"update"} \cup {"otp_set"})
  BY PartCalls, JoinedMakes DEF Rank
<1>3. Makes(<<"update">> \o Issue, {"update"} \cup {"issue", "session_check", "session_create"})
  BY PartCalls, JoinedMakes DEF Rank
<1>4. Makes(Consume \o Issue, {"otp_get", "otp_delete"} \cup {"issue", "session_check", "session_create"})
  BY PartCalls, JoinedMakes DEF Rank
<1>5. Makes(<<"codes_find", "code_save">> \o Issue,
            {"codes_find", "code_save"} \cup {"issue", "session_check", "session_create"})
  BY PartCalls, JoinedMakes DEF Rank
<1>6. Makes(Consume \o <<"update">>, {"otp_get", "otp_delete"} \cup {"update"})
  BY PartCalls, JoinedMakes DEF Rank
<1>7. Makes(SetPassword, S)
  <2>1. Makes(<<"history_check", "update">> \o Record,
              {"history_check", "update"} \cup {"history_insert", "history_list", "history_prune"})
    BY PartCalls, JoinedMakes DEF Rank
  <2> DEFINE D == {"history_check", "update"} \cup {"history_insert", "history_list", "history_prune"}
             s == <<"history_check", "update">> \o Record
             E == {"tokens_query", "blacklist_each", "sessions_off"}
  <2>2. (\A c \in D, d \in E : Rank(c) < Rank(d)) /\ D \cup E = S
    BY DEF Rank
  <2>3. SetPassword = s \o Sweep
    BY PartCalls DEF SetPassword, Makes
  <2>4. Makes(s, D) /\ Makes(Sweep, E)
    BY <2>1, PartCalls
  <2> HIDE DEF D, s, E, S
  <2>5. Makes(s \o Sweep, D \cup E)
    BY <2>2, <2>4, JoinedMakes
  <2> QED BY <2>2, <2>3, <2>5, <1>0
<1>8. Makes(Consume \o SetPassword, {"otp_get", "otp_delete"} \cup S)
  BY <1>7, PartCalls, JoinedMakes DEF Rank
<1>9. Makes(<<"update">> \o Sweep, {"update"} \cup {"tokens_query", "blacklist_each", "sessions_off"})
  BY PartCalls, JoinedMakes DEF Rank
<1>10. Makes(<<"update">> \o Generate, {"update"} \cup {"codes_delete", "codes_create"})
  BY PartCalls, JoinedMakes DEF Rank
<1>11. Makes(Consume \o <<"update">> \o Generate,
             {"otp_get", "otp_delete"} \cup ({"update"} \cup {"codes_delete", "codes_create"}))
  <2> DEFINE u == <<"update">> \o Generate
             D == {"update"} \cup {"codes_delete", "codes_create"}
  <2>1. Consume \o <<"update">> \o Generate = Consume \o u
    BY PartCalls DEF Makes
  <2>2. Makes(u, D) /\ (\A c \in {"otp_get", "otp_delete"}, d \in D : Rank(c) < Rank(d))
    BY <1>10 DEF Rank
  <2> HIDE DEF u, D
  <2>4. Makes(Consume \o u, {"otp_get", "otp_delete"} \cup D)
    BY <2>2, PartCalls, JoinedMakes
  <2> QED BY <2>1, <2>4 DEF D
<1> HIDE DEF S
<1>12. Makes(Consume \o SetPassword,
             {"otp_get", "otp_delete", "history_check", "update", "history_insert",
              "history_list", "history_prune", "tokens_query", "blacklist_each", "sessions_off"})
  BY <1>0, <1>8 DEF S
<1>13. Makes(Consume \o <<"update">> \o Generate,
             {"otp_get", "otp_delete", "update", "codes_delete", "codes_create"})
  BY <1>0, <1>11
<1>14. /\ Makes(<<"update">> \o Sweep, {"update", "tokens_query", "blacklist_each", "sessions_off"})
       /\ Makes(<<"update">> \o Generate, {"update", "codes_delete", "codes_create"})
  BY <1>0, <1>9, <1>10
<1>15. /\ Makes(<<"update">> \o <<>>, {"update"})
       /\ Makes(<<"update">> \o <<"otp_set">>, {"update", "otp_set"})
       /\ Makes(<<"update">> \o Issue, {"update", "issue", "session_check", "session_create"})
  BY <1>0, <1>1, <1>2, <1>3
<1>16. /\ Makes(Consume \o Issue,
                {"otp_get", "otp_delete", "issue", "session_check", "session_create"})
       /\ Makes(<<"codes_find", "code_save">> \o Issue,
                {"codes_find", "code_save", "issue", "session_check", "session_create"})
       /\ Makes(Consume \o <<"update">>, {"otp_get", "otp_delete", "update"})
  BY <1>0, <1>4, <1>5, <1>6
<1> QED BY <1>7, <1>12, <1>13, <1>14, <1>15, <1>16 DEF S

-----------------------------------------------------------------------------
(***************************************************************************)
(* What a request is going to write, and what else it relies on.           *)
(***************************************************************************)

\* The row as the request's write leaves it.
Written(u, r) == RepoUpdate(u, r.entity)

\* Below, u is the row and n the row written.
\* A login, after the wrong password and after the right one, compared at a
\* moment when the account was neither suspended nor locked.
CountsAttempt(u, t, n) ==
    \E s \in 0..t :
        /\ u.is_active /\ u.locked_until <= s
        /\ LET failed == u.failed_login_attempts + 1
           IN  n = [u EXCEPT !.failed_login_attempts = failed,
                    !.locked_until = IF failed >= MaxFailedAttempts
                                     THEN s + LockoutTicks ELSE @]
ClearsAttempts(u, t, n) ==
    /\ \E s \in 0..t : u.is_active /\ u.locked_until <= s
    /\ u.is_email_verified /\ u.password_hash # Unusable
    /\ n = [u EXCEPT !.failed_login_attempts = 0, !.locked_until = 0]

\* The endpoints that write the row and nothing else.
EditsRow(u, n) ==
    \/ ~u.is_email_verified /\ n = [u EXCEPT !.is_email_verified = TRUE]
    \/ ~u.mfa_enabled /\ \E s \in Secrets : n = [u EXCEPT !.mfa_secret = s]
    \/ /\ u.mfa_enabled
       /\ n = [u EXCEPT !.mfa_enabled = FALSE, !.mfa_secret = None, !.mfa_type = None]
    \/ \E name \in Names \cup {u.name}, c \in Contacts \cup {u.contact} :
          n = [u EXCEPT !.name = name, !.contact = c]
    \/ \E active \in BOOLEAN : n = [u EXCEPT !.is_active = active]

\* Deletion and erasure.
ClosesAccount(u, n) ==
    \/ n = [u EXCEPT !.is_active = FALSE]
    \/ n = [u EXCEPT !.name = "Deleted User", !.mfa_secret = None,
                     !.is_active = FALSE, !.deleted_at = TRUE]

\* Turning a second factor on.  The phone number is looked at when the code is
\* sent; the request knows of it once it has found the code.
TurnsOn(u, r, n) ==
    /\ ~u.mfa_enabled
    /\ \E type \in MfaTypes :
          /\ n = [u EXCEPT !.mfa_enabled = TRUE, !.mfa_type = type]
          /\ type = "totp" => u.mfa_secret # None
          /\ type = "sms" => \/ u.contact # None
                             \/ "otp_get" \in CallsOf(r.todo) /\ r.ns = "mfa_sms_setup"

\* A new password, checked against the recent ones, and the one it replaces.
SetsPassword(u, recent, r, n) ==
    /\ r.new \in Passwords /\ r.old = u.password_hash
    /\ n = [u EXCEPT !.password_hash = r.new]
    /\ "history_check" \notin CallsOf(r.todo) => r.new \notin recent

Intends(u, t, recent, r) ==
    LET C == CallsOf(r.todo)
        n == Written(u, r)
    IN  /\ r.op \in PasswordOps <=> "history_insert" \in C
        /\ \/ /\ {"blacklist_each", "codes_create", "history_insert"} \cap C = {}
              /\ \/ EditsRow(u, n)
                 \/ /\ r.op = "login" /\ Prior \cap C = {}
                    /\ CountsAttempt(u, t, n) \/ ClearsAttempts(u, t, n)
           \/ {"blacklist_each", "history_insert"} \subseteq C /\ SetsPassword(u, recent, r, n)
           \/ "blacklist_each" \in C /\ "history_insert" \notin C /\ ClosesAccount(u, n)
           \/ "codes_create" \in C /\ "history_insert" \notin C /\ TurnsOn(u, r, n)

\* What holds of a request that is alone, between any two of its calls.
Held(r) ==
    LET C == CallsOf(r.todo)
    IN  /\ Steady(r.todo) /\ Apart(C)
        /\ "update" \in C => Intends(row, now, RecentHashes, r)
        /\ "issue" \in C /\ "user_active" \notin C => row.is_active \/ row.mfa_enabled
        /\ "issue" \in C /\ "update" \in C => ClearsAttempts(row, now, Written(row, r))
        /\ "code_save" \in C => row.mfa_enabled /\ ("codes_find" \in C \/ r.backup \in Unused)
        /\ C \cap {"blacklist_each", "sessions_off"} # {}
              => "tokens_query" \in C \/ r.seen = outstanding
        /\ "codes_create" \in C => "codes_delete" \in C \/ code_rows = {}
        /\ "otp_set" \in C /\ r.ns = "mfa_sms_setup" => row.contact # None
        /\ "history_insert" \in C
              => \/ "update" \in C
                 \/ replaced # <<>> /\ r.old = replaced[Len(replaced)]
        /\ "history_prune" \in C => "history_list" \in C \/ r.keep = IdsToKeep
HeldInv == \A w \in Workers : Held(req[w])

\* The request is about to count a failed login.
Counts(u, r) ==
    "update" \in CallsOf(r.todo)
        /\ r.entity.failed_login_attempts = u.failed_login_attempts + 1

\* A request that only replaces the backup codes needs a second factor that is
\* on; the tokens are not revoked unless the row is written.
Commits(C) ==
    /\ C \cap {"blacklist_each", "history_insert"} # {} => "update" \in C
    /\ "codes_create" \in C => "update" \in C \/ (row.mfa_enabled /\ row.mfa_secret # None)

\* A request that has just been read: it knows no more than the row told it.
Fresh(r) ==
    /\ Held(r) /\ r.todo \in Seq(Calls) /\ Commits(CallsOf(r.todo))
    /\ r.jti \in 0..outstanding /\ r.issued = 0 /\ r.toks = {}

-----------------------------------------------------------------------------
(***************************************************************************)
(* The handlers.                                                           *)
(***************************************************************************)

\* The repository writes this copy as it is.
Kept(r, e) == RepoUpdate(r, e) = e

\* The repository writes back the row it read with what the handler changed,
\* and drops a change of the address or of the deletion date.
LEMMA WritesBack ==
    ASSUME NEW r \in Row
    PROVE  /\ \A f, l : Kept(r, [r EXCEPT !.failed_login_attempts = f, !.locked_until = l])
           /\ \A p : Kept(r, [r EXCEPT !.password_hash = p])
           /\ \A v : Kept(r, [r EXCEPT !.is_email_verified = v])
           /\ \A s : Kept(r, [r EXCEPT !.mfa_secret = s])
           /\ \A m, t : Kept(r, [r EXCEPT !.mfa_enabled = m, !.mfa_type = t])
           /\ \A m, s, t : Kept(r, [r EXCEPT !.mfa_enabled = m, !.mfa_secret = s, !.mfa_type = t])
           /\ \A n, c : Kept(r, [r EXCEPT !.name = n, !.contact = c])
           /\ \A a : Kept(r, [r EXCEPT !.is_active = a])
           /\ \A a, d : RepoUpdate(r, [r EXCEPT !.is_active = a, !.scheduled_deletion_at = d])
                          = [r EXCEPT !.is_active = a]
           /\ RepoUpdate(r, [r EXCEPT !.email = "redacted", !.name = "Deleted User",
                                      !.mfa_secret = None, !.is_active = FALSE,
                                      !.deleted_at = TRUE])
                 = [r EXCEPT !.name = "Deleted User", !.mfa_secret = None,
                             !.is_active = FALSE, !.deleted_at = TRUE]
<1> USE DEF Row, RepoUpdate, Kept
<1>1. \A f, l : Kept(r, [r EXCEPT !.failed_login_attempts = f, !.locked_until = l])
  OBVIOUS
<1>2. \A p : Kept(r, [r EXCEPT !.password_hash = p])
  OBVIOUS
<1>3. \A v : Kept(r, [r EXCEPT !.is_email_verified = v])
  OBVIOUS
<1>4. \A s : Kept(r, [r EXCEPT !.mfa_secret = s])
  OBVIOUS
<1>5. \A m, t : Kept(r, [r EXCEPT !.mfa_enabled = m, !.mfa_type = t])
  OBVIOUS
<1>6. \A m, s, t : Kept(r, [r EXCEPT !.mfa_enabled = m, !.mfa_secret = s, !.mfa_type = t])
  OBVIOUS
<1>7. \A n, c : Kept(r, [r EXCEPT !.name = n, !.contact = c])
  OBVIOUS
<1>8. \A a : Kept(r, [r EXCEPT !.is_active = a])
  OBVIOUS
<1>9. \A a, d : RepoUpdate(r, [r EXCEPT !.is_active = a, !.scheduled_deletion_at = d])
                  = [r EXCEPT !.is_active = a]
  OBVIOUS
<1>10. RepoUpdate(r, [r EXCEPT !.email = "redacted", !.name = "Deleted User",
                               !.mfa_secret = None, !.is_active = FALSE, !.deleted_at = TRUE])
          = [r EXCEPT !.name = "Deleted User", !.mfa_secret = None,
                      !.is_active = FALSE, !.deleted_at = TRUE]
  <2> DEFINE v == [r EXCEPT !.name = "Deleted User", !.mfa_secret = None,
                            !.is_active = FALSE, !.deleted_at = TRUE]
             e == [r EXCEPT !.email = "redacted", !.name = "Deleted User",
                            !.mfa_secret = None, !.is_active = FALSE, !.deleted_at = TRUE]
  <2>1. v \in Row /\ v.email = r.email /\ v.scheduled_deletion_at = r.scheduled_deletion_at
    OBVIOUS
  <2>2. e = [v EXCEPT !.email = "redacted"]
    OBVIOUS
  <2> HIDE DEF v, e
  <2>3. RepoUpdate(r, [v EXCEPT !.email = "redacted"]) = v
    BY <2>1
  <2> QED BY <2>2, <2>3 DEF v, e
<1> HIDE DEF Row, RepoUpdate, Kept
<1> QED BY <1>1, <1>2, <1>3, <1>4, <1>5, <1>6, <1>7, <1>8, <1>9, <1>10, Zenon

\* How a plan's calls make a request hold from its start.
LEMMA Opens ==
    ASSUME NEW r, NEW C, Makes(r.todo, C), Apart(C), Commits(C),
           "update" \in C => Intends(row, now, RecentHashes, r),
           "issue" \in C => /\ "user_active" \in C \/ row.is_active \/ row.mfa_enabled
                            /\ "update" \in C => ClearsAttempts(row, now, Written(row, r)),
           "code_save" \in C => row.mfa_enabled /\ "codes_find" \in C,
           C \cap {"blacklist_each", "sessions_off"} # {} => "tokens_query" \in C,
           "codes_create" \in C => "codes_delete" \in C,
           "otp_set" \in C /\ r.ns = "mfa_sms_setup" => row.contact # None,
           "history_insert" \in C => "update" \in C,
           "history_prune" \in C => "history_list" \in C,
           r.jti \in 0..outstanding, r.issued = 0, r.toks = {}
    PROVE  Fresh(r) /\ ("update" \notin C => ~Counts(row, r))
<1>1. CallsOf(r.todo) = C /\ Steady(r.todo) /\ r.todo \in Seq(Calls)
  BY DEF Makes
<1> HIDE DEF Intends, Steady, Apart, Commits
<1>2. Held(r)
  BY <1>1 DEF Held
<1> QED BY <1>1, <1>2 DEF Fresh, Counts

\* A request that does not name a token.
Untold(r) == r.jti = 0 /\ r.issued = 0 /\ r.toks = {}

\* A request that writes the row and nothing else.
LEMMA OpensEdit ==
    ASSUME row \in Row, outstanding \in Nat, NEW r, Untold(r), r.op \notin PasswordOps,
           \/ Makes(r.todo, {"update"})
           \/ Makes(r.todo, {"otp_get", "otp_delete", "update"}),
           EditsRow(row, Written(row, r)),
           r.entity.failed_login_attempts = row.failed_login_attempts
    PROVE  Fresh(r) /\ ~Counts(row, r)
<1>1. PICK C \in {{"update"}, {"otp_get", "otp_delete", "update"}} : Makes(r.todo, C)
  OBVIOUS
<1>2. CallsOf(r.todo) = C
  BY <1>1 DEF Makes
<1>3. Intends(row, now, RecentHashes, r)
  BY <1>2 DEF Intends
<1>4. Apart(C) /\ Commits(C)
  BY DEF Apart, Single, Commits
<1> HIDE DEF Intends, Apart, Commits
<1>5. 0 \in 0..outstanding
  OBVIOUS
<1>6. Fresh(r)
  BY <1>1, <1>3, <1>4, <1>5, Opens DEF Untold
<1>7. row.failed_login_attempts \in Nat
  BY DEF Row
<1> QED BY <1>6, <1>7 DEF Counts

\* A login.
LEMMA OpensLogin ==
    ASSUME row \in Row, outstanding \in Nat, NEW r, Untold(r), r.op = "login",
           \/ Makes(r.todo, {"update"}) /\ CountsAttempt(row, now, Written(row, r))
           \/ ClearsAttempts(row, now, Written(row, r))
              /\ \/ Makes(r.todo, {"update"})
                 \/ Makes(r.todo, {"update", "otp_set"}) /\ r.ns = "mfa_login"
                 \/ Makes(r.todo, {"update", "issue", "session_check", "session_create"})
    PROVE  Fresh(r)
<1>1. PICK C \in {{"update"}, {"update", "otp_set"},
                   {"update", "issue", "session_check", "session_create"}} :
          /\ Makes(r.todo, C)
          /\ "otp_set" \in C => r.ns = "mfa_login"
          /\ "issue" \in C => ClearsAttempts(row, now, Written(row, r))
  OBVIOUS
<1>2. CallsOf(r.todo) = C
  BY <1>1 DEF Makes
<1>3. Intends(row, now, RecentHashes, r)
  BY <1>2 DEF Intends, PasswordOps, Prior
<1>4. Apart(C) /\ Commits(C)
  BY DEF Apart, Single, Commits
<1>5. "issue" \in C => row.is_active
  BY <1>1 DEF ClearsAttempts
<1> HIDE DEF Intends, Apart, Commits
<1>6. 0 \in 0..outstanding
  OBVIOUS
<1> QED BY <1>1, <1>3, <1>4, <1>5, <1>6, Opens DEF Untold

\* A request that writes the row and revokes the tokens, or gives codes.
LEMMA OpensMore ==
    ASSUME row \in Row, outstanding \in Nat, NEW r, Untold(r),
           \/ /\ Makes(r.todo, {"update", "tokens_query", "blacklist_each", "sessions_off"})
              /\ r.op \notin PasswordOps /\ ClosesAccount(row, Written(row, r))
           \/ /\ \/ Makes(r.todo, {"update", "codes_delete", "codes_create"})
                 \/ Makes(r.todo, {"otp_get", "otp_delete", "update", "codes_delete", "codes_create"})
              /\ r.op \notin PasswordOps /\ TurnsOn(row, r, Written(row, r))
           \/ /\ \/ Makes(r.todo, {"history_check", "update", "history_insert", "history_list",
                      "history_prune", "tokens_query", "blacklist_each", "sessions_off"})
                 \/ Makes(r.todo, {"otp_get", "otp_delete", "history_check", "update",
                      "history_insert", "history_list", "history_prune", "tokens_query",
                      "blacklist_each", "sessions_off"})
              /\ r.op \in PasswordOps /\ SetsPassword(row, RecentHashes, r, Written(row, r)),
           r.entity.failed_login_attempts = row.failed_login_attempts
    PROVE  Fresh(r) /\ ~Counts(row, r)
<1>0. 0 \in 0..outstanding
  OBVIOUS
<1>1. ASSUME NEW C, Makes(r.todo, C), Apart(C), Commits(C), Intends(row, now, RecentHashes, r),
             "issue" \notin C, "code_save" \notin C, "otp_set" \notin C,
             C \cap {"blacklist_each", "sessions_off"} # {} => "tokens_query" \in C,
             "codes_create" \in C => "codes_delete" \in C,
             "history_insert" \in C => "update" \in C,
             "history_prune" \in C => "history_list" \in C
      PROVE  Fresh(r)
  BY <1>0, <1>1, Opens DEF Untold
<1>2. ASSUME Makes(r.todo, {"update", "tokens_query", "blacklist_each", "sessions_off"}),
             r.op \notin PasswordOps, ClosesAccount(row, Written(row, r))
      PROVE  Fresh(r)
  <2> DEFINE C == {"update", "tokens_query", "blacklist_each", "sessions_off"}
  <2>1. CallsOf(r.todo) = C
    BY <1>2 DEF Makes
  <2>2. Intends(row, now, RecentHashes, r) /\ Apart(C) /\ Commits(C)
    BY <1>2, <2>1 DEF Intends, Apart, Single, Prior, Commits
  <2> QED BY <1>1, <1>2, <2>2
<1>3. ASSUME NEW C \in {{"update", "codes_delete", "codes_create"},
                 {"otp_get", "otp_delete", "update", "codes_delete", "codes_create"}},
             Makes(r.todo, C), r.op \notin PasswordOps, TurnsOn(row, r, Written(row, r))
      PROVE  Fresh(r)
  <2>1. CallsOf(r.todo) = C
    BY <1>3 DEF Makes
  <2>2. Intends(row, now, RecentHashes, r) /\ Apart(C) /\ Commits(C)
    BY <1>3, <2>1 DEF Intends, Apart, Single, Prior, Commits
  <2> QED BY <1>1, <1>3, <2>2
<1>4. ASSUME NEW C \in {{"history_check", "update", "history_insert", "history_list",
                      "history_prune", "tokens_query", "blacklist_each", "sessions_off"},
                 {"otp_get", "otp_delete", "history_check", "update",
                      "history_insert", "history_list", "history_prune", "tokens_query",
                      "blacklist_each", "sessions_off"}},
             Makes(r.todo, C), r.op \in PasswordOps, SetsPassword(row, RecentHashes, r, Written(row, r))
      PROVE  Fresh(r)
  <2>1. CallsOf(r.todo) = C
    BY <1>4 DEF Makes
  <2>2. Intends(row, now, RecentHashes, r) /\ Apart(C) /\ Commits(C)
    BY <1>4, <2>1 DEF Intends, Apart, Single, Prior, Commits
  <2> QED BY <1>1, <1>4, <2>2
<1>5. Fresh(r)
  BY <1>2, <1>3, <1>4
<1>6. row.failed_login_attempts \in Nat
  BY DEF Row
<1> QED BY <1>5, <1>6 DEF Counts

\* A request that does not write the row.
LEMMA OpensCalls ==
    ASSUME outstanding \in Nat, NEW r,
           (r.jti \in 0..outstanding /\ r.issued = 0 /\ r.toks = {}) \/ Untold(r),
           \/ Makes(r.todo, {})
           \/ Makes(r.todo, {"otp_set"}) /\ (r.ns = "mfa_sms_setup" => row.contact # None)
           \/ /\ \/ Makes(r.todo, {"issue", "session_check", "session_create"})
                 \/ Makes(r.todo, {"otp_get", "otp_delete", "issue", "session_check", "session_create"})
              /\ row.is_active \/ row.mfa_enabled
           \/ /\ Makes(r.todo, {"codes_find", "code_save", "issue", "session_check", "session_create"})
              /\ row.mfa_enabled
           \/ Makes(r.todo, {"user_active", "blacklist", "issue", "touch"})
           \/ Makes(r.todo, {"blacklist"}) \/ Makes(r.todo, {"blacklist", "session_off"})
           \/ Makes(r.todo, {"codes_delete", "codes_create"}) /\ row.mfa_enabled /\ row.mfa_secret # None
    PROVE  Fresh(r) /\ ~Counts(row, r)
<1>1. PICK C \in {{}, {"otp_set"}, {"issue", "session_check", "session_create"},
                   {"otp_get", "otp_delete", "issue", "session_check", "session_create"},
                   {"codes_find", "code_save", "issue", "session_check", "session_create"},
                   {"user_active", "blacklist", "issue", "touch"},
                   {"blacklist"}, {"blacklist", "session_off"},
                   {"codes_delete", "codes_create"}} :
          /\ Makes(r.todo, C)
          /\ "otp_set" \in C /\ r.ns = "mfa_sms_setup" => row.contact # None
          /\ "issue" \in C => "user_active" \in C \/ row.is_active \/ row.mfa_enabled
          /\ "code_save" \in C => row.mfa_enabled
          /\ "codes_create" \in C => row.mfa_enabled /\ row.mfa_secret # None
  OBVIOUS
<1>9. Commits(C)
  BY <1>1 DEF Commits
<1>2. Apart(C) /\ "update" \notin C /\ "history_insert" \notin C /\ "history_prune" \notin C
  BY DEF Apart, Single, Prior
<1>3. r.jti \in 0..outstanding /\ r.issued = 0 /\ r.toks = {}
  BY DEF Untold
<1> HIDE DEF Apart, Commits
<1>4. "code_save" \in C => "codes_find" \in C
  BY <1>1
<1>5. C \cap {"blacklist_each", "sessions_off"} = {} /\ ("codes_create" \in C => "codes_delete" \in C)
  BY <1>1
<1> QED BY <1>1, <1>2, <1>3, <1>4, <1>5, <1>9, Opens

\* The tables of tokens and sessions, and the requests, name tokens that have
\* been issued.
TokensInv ==
    /\ blacklisted \subseteq 0..outstanding /\ sessions \subseteq 0..outstanding
    /\ \A w \in Workers : /\ req[w].jti \in 0..outstanding /\ req[w].issued \in 0..outstanding
                          /\ req[w].toks \subseteq 1..outstanding

\* Every handler leaves a fresh request; only a wrong password leaves one that
\* counts an attempt.
LEMMA HandlerFresh ==
    ASSUME IInv, TokensInv, NEW w \in Workers, Handle(w)
    PROVE  \E r : /\ req' = [req EXCEPT ![w] = r] /\ Fresh(r)
                  /\ \/ guesses' = guesses /\ ~Counts(row, r)
                     \/ guesses' = guesses + 1 /\ Counts(row, r)
<1> DEFINE Goes == \E r : /\ req' = [req EXCEPT ![w] = r] /\ Fresh(r)
                          /\ \/ guesses' = guesses /\ ~Counts(row, r)
                             \/ guesses' = guesses + 1 /\ Counts(row, r)
<1>0. /\ row \in Row /\ now \in Nat /\ outstanding \in Nat /\ sessions \subseteq 0..outstanding
      /\ row.locked_until \in Nat /\ row.failed_login_attempts \in Nat
  <2>1. row \in Row /\ now \in Nat /\ outstanding \in Nat /\ sessions \subseteq 0..outstanding
    BY TokenAssumption DEF IInv, TypeOK, TokenTypeOK, TokensInv
  <2> QED BY <2>1 DEF Row
<1>1. ASSUME NEW r, Serve(w, r), Fresh(r),
             (guesses' = guesses /\ ~Counts(row, r)) \/ (guesses' = guesses + 1 /\ Counts(row, r))
      PROVE  Goes
  BY <1>1 DEF Serve
<1> HIDE DEF Goes
<1> SUFFICES Goes BY DEF Goes
<1>2. CASE LoginWrongPassword(w)
  <2>1. Serve(w, BeginWith("login", <<"update">>, [row EXCEPT !.failed_login_attempts = row.failed_login_attempts + 1,
             !.locked_until = IF row.failed_login_attempts + 1 >= MaxFailedAttempts
                              THEN now + LockoutTicks ELSE row.locked_until]))
    BY <1>2 DEF LoginWrongPassword
  <2>2. guesses' = guesses + 1 /\ row.is_active /\ row.locked_until <= now /\ now \in 0..now
    BY <1>2, <1>0 DEF LoginWrongPassword, Local, accountVars, Open, Authed, MayLogIn
  <2>3. PICK e : e = [row EXCEPT !.failed_login_attempts = row.failed_login_attempts + 1,
             !.locked_until = IF row.failed_login_attempts + 1 >= MaxFailedAttempts
                              THEN now + LockoutTicks ELSE row.locked_until]
    OBVIOUS
  <2>4. PICK r : r = BeginWith("login", <<"update">>, e)
    OBVIOUS
  <2>5. Serve(w, r)
    BY <2>1, <2>3, <2>4
  <2>6. r.todo = <<"update">> /\ r.entity = e /\ r.op = "login" /\ Untold(r)
    BY <2>4 DEF BeginWith, Begin, Idle, Untold
  <2>7. Makes(r.todo, {"update"})
    BY <2>6, PartCalls
  <2>8. r.entity.failed_login_attempts = row.failed_login_attempts + 1
    BY <1>0, <2>3, <2>6 DEF Row
  <2>9. Kept(row, e)
    BY <1>0, <2>3, WritesBack, Zenon
  <2>10. Written(row, r) = e
    BY <2>6, <2>9 DEF Written, Kept
  <2>11. CountsAttempt(row, now, Written(row, r))
    BY <1>0, <2>2, <2>3, <2>3, <2>6, <2>7, <2>10 DEF CountsAttempt
  <2>12. Fresh(r)
    BY <1>0, <2>6, <2>7, <2>11, OpensLogin
  <2>13. Counts(row, r)
    BY <1>0, <2>6, <2>7, <2>8 DEF Counts, Makes
  <2> QED BY <1>1, <2>2, <2>5, <2>12, <2>13
<1>3. CASE LoginRightPassword(w)
  <2>1. Serve(w, [BeginWith("login", <<"update">> \o AfterPassword(row),
                        [row EXCEPT !.failed_login_attempts = 0, !.locked_until = 0]) EXCEPT !.ns = "mfa_login"])
    BY <1>3 DEF LoginRightPassword
  <2>2. MayLogIn /\ UNCHANGED guesses /\ row.is_email_verified /\ row.password_hash \in Passwords
    BY <1>3 DEF LoginRightPassword, Local, accountVars, Open
  <2>3. row.locked_until <= now /\ now \in 0..now
    BY <2>2, <1>0 DEF MayLogIn
  <2>4. row.password_hash # Unusable
    BY <2>2, UserEntityAssumption, Zenon
  <2>5. UNCHANGED guesses /\ row.is_active /\ row.locked_until <= now /\ now \in 0..now
        /\ row.is_email_verified /\ row.password_hash # Unusable
    BY <2>2, <2>3, <2>4, Zenon DEF MayLogIn
  <2>6. PICK e : e = [row EXCEPT !.failed_login_attempts = 0, !.locked_until = 0]
    OBVIOUS
  <2>7. PICK r : r = [BeginWith("login", <<"update">> \o AfterPassword(row),
                        e) EXCEPT !.ns = "mfa_login"]
    OBVIOUS
  <2>8. Serve(w, r)
    BY <2>1, <2>6, <2>7
  <2>9. r.todo = <<"update">> \o AfterPassword(row) /\ r.entity = e /\ r.op = "login" /\ Untold(r) /\ r.ns = "mfa_login"
    BY <2>7 DEF BeginWith, Begin, Idle, Untold
  <2>10. AfterPassword(row) \in {<<>>, <<"otp_set">>, Issue}
    BY <1>0 DEF AfterPassword, MfaType, Row, MfaTypes
  <2>11. \/ Makes(r.todo, {"update"}) \/ Makes(r.todo, {"update", "otp_set"})
        \/ Makes(r.todo, {"update", "issue", "session_check", "session_create"})
    BY <2>9, <2>10, PlanCalls
  <2>12. r.entity.failed_login_attempts = 0
    BY <1>0, <2>6, <2>9 DEF Row
  <2>13. Kept(row, e)
    BY <1>0, <2>6, WritesBack, Zenon
  <2>14. Written(row, r) = e
    BY <2>9, <2>13 DEF Written, Kept
  <2>15. ClearsAttempts(row, now, Written(row, r))
    BY <1>0, <2>5, <2>6, <2>6, <2>9, <2>11, <2>14 DEF ClearsAttempts
  <2>16. Fresh(r)
    BY <1>0, <2>9, <2>11, <2>15, OpensLogin
  <2>17. ~Counts(row, r)
    BY <1>0, <2>9, <2>11, <2>12 DEF Counts, Makes
  <2> QED BY <1>1, <2>5, <2>8, <2>16, <2>17
<1>4. CASE MfaChallenge(w)
  <2>0. row.mfa_enabled /\ UNCHANGED guesses
    BY <1>4 DEF MfaChallenge, Local, accountVars
  <2>1. ASSUME NEW code, NEW r, Serve(w, r),
               r = [Begin("mfa_challenge", Consume \o Issue) EXCEPT !.ns = "mfa_login", !.code = code]
        PROVE  Goes
    <3>1. r.todo = Consume \o Issue /\ Untold(r)
      BY <2>1 DEF Begin, Idle, Untold
    <3>2. Makes(r.todo, {"otp_get", "otp_delete", "issue", "session_check", "session_create"})
      BY <3>1, PlanCalls
    <3>3. Fresh(r) /\ ~Counts(row, r)
      BY <1>0, <2>0, <3>1, <3>2, OpensCalls
    <3> QED BY <1>1, <2>0, <2>1, <3>3
  <2>2. ASSUME NEW r, Serve(w, r), r = Begin("mfa_challenge", Issue) PROVE Goes
    <3>1. r.todo = Issue /\ Untold(r)
      BY <2>2 DEF Begin, Idle, Untold
    <3>2. Makes(r.todo, {"issue", "session_check", "session_create"})
      BY <3>1, PartCalls
    <3>3. Fresh(r) /\ ~Counts(row, r)
      BY <1>0, <2>0, <3>1, <3>2, OpensCalls
    <3> QED BY <1>1, <2>0, <2>2, <3>3
  <2>3. ASSUME NEW c, NEW r, Serve(w, r),
               r = [Begin("mfa_challenge", <<"codes_find", "code_save">> \o Issue) EXCEPT !.backup = c]
        PROVE  Goes
    <3>1. r.todo = <<"codes_find", "code_save">> \o Issue /\ Untold(r)
      BY <2>3 DEF Begin, Idle, Untold
    <3>2. Makes(r.todo, {"codes_find", "code_save", "issue", "session_check", "session_create"})
      BY <3>1, PlanCalls
    <3>3. Fresh(r) /\ ~Counts(row, r)
      BY <1>0, <2>0, <3>1, <3>2, OpensCalls
    <3> QED BY <1>1, <2>0, <2>3, <3>3
  <2> QED BY <1>4, <2>1, <2>2, <2>3 DEF MfaChallenge
<1>5. CASE SocialAuth(w)
  <2>1. Serve(w, Begin("social_auth", Issue))
    BY <1>5 DEF SocialAuth
  <2>2. UNCHANGED guesses /\ row.is_active
    BY <1>5, <1>0 DEF SocialAuth, Local, accountVars, Open, Authed
  <2>3. PICK r : r = Begin("social_auth", Issue)
    OBVIOUS
  <2>4. Serve(w, r)
    BY <2>1, <2>3
  <2>5. r.todo = Issue /\ Untold(r)
    BY <2>3 DEF Begin, Idle, Untold
  <2>6. Makes(r.todo, {"issue", "session_check", "session_create"})
    BY <2>5, PartCalls
  <2>7. Fresh(r) /\ ~Counts(row, r)
    BY <1>0, <2>2, <2>5, <2>6, OpensCalls
  <2> QED BY <1>1, <2>2, <2>4, <2>7
<1>6. CASE VerifyEmail(w)
  <2>1. PICK code \in 1..minted : Serve(w, [BeginWith("verify_email", Consume \o <<"update">>, [row EXCEPT !.is_email_verified = TRUE])
             EXCEPT !.ns = "email_verify", !.code = code])
    BY <1>6 DEF VerifyEmail
  <2>2. UNCHANGED guesses /\ ~row.is_email_verified
    BY <1>6, <1>0 DEF VerifyEmail, Local, accountVars, Open, Authed
  <2>3. PICK e : e = [row EXCEPT !.is_email_verified = TRUE]
    OBVIOUS
  <2>4. PICK r : r = [BeginWith("verify_email", Consume \o <<"update">>, e)
             EXCEPT !.ns = "email_verify", !.code = code]
    OBVIOUS
  <2>5. Serve(w, r)
    BY <2>1, <2>3, <2>4
  <2>6. r.todo = Consume \o <<"update">> /\ r.entity = e /\ r.op = "verify_email" /\ Untold(r)
    BY <2>4 DEF BeginWith, Begin, Idle, Untold
  <2>7. Makes(r.todo, {"otp_get", "otp_delete", "update"})
    BY <2>6, PlanCalls
  <2>8. r.entity.failed_login_attempts = row.failed_login_attempts
    <3>1. e.failed_login_attempts = row.failed_login_attempts
      BY <1>0, <2>3 DEF Row
    <3> QED BY <2>6, <3>1
  <2>9. Kept(row, e)
    BY <1>0, <2>3, WritesBack, Zenon
  <2>10. Written(row, r) = e
    BY <2>6, <2>9 DEF Written, Kept
  <2>11. EditsRow(row, Written(row, r))
    BY <1>0, <2>2, <2>1, <2>3, <2>6, <2>7, <2>10 DEF EditsRow
  <2>12. Fresh(r) /\ ~Counts(row, r)
    BY <1>0, <2>6, <2>7, <2>8, <2>11, OpensEdit DEF PasswordOps
  <2> QED BY <1>1, <2>2, <2>5, <2>12
<1>7. CASE ResendVerificationOTP(w)
  <2>1. Serve(w, [Begin("resend_verification", <<"otp_set">>) EXCEPT !.ns = "email_verify"])
    BY <1>7 DEF ResendVerificationOTP
  <2>2. UNCHANGED guesses
    BY <1>7, <1>0 DEF ResendVerificationOTP, Local, accountVars, Open, Authed
  <2>3. PICK r : r = [Begin("resend_verification", <<"otp_set">>) EXCEPT !.ns = "email_verify"]
    OBVIOUS
  <2>4. Serve(w, r)
    BY <2>1, <2>3
  <2>5. r.todo = <<"otp_set">> /\ Untold(r) /\ r.ns = "email_verify"
    BY <2>3 DEF Begin, Idle, Untold
  <2>6. Makes(r.todo, {"otp_set"})
    BY <2>5, PartCalls
  <2>7. Fresh(r) /\ ~Counts(row, r)
    BY <1>0, <2>2, <2>5, <2>6, OpensCalls
  <2> QED BY <1>1, <2>2, <2>4, <2>7
<1>8. CASE RequestPasswordReset(w)
  <2>1. Serve(w, [Begin("request_reset", <<"otp_set">>) EXCEPT !.ns = "password_reset"])
    BY <1>8 DEF RequestPasswordReset
  <2>2. UNCHANGED guesses
    BY <1>8, <1>0 DEF RequestPasswordReset, Local, accountVars, Open, Authed
  <2>3. PICK r : r = [Begin("request_reset", <<"otp_set">>) EXCEPT !.ns = "password_reset"]
    OBVIOUS
  <2>4. Serve(w, r)
    BY <2>1, <2>3
  <2>5. r.todo = <<"otp_set">> /\ Untold(r) /\ r.ns = "password_reset"
    BY <2>3 DEF Begin, Idle, Untold
  <2>6. Makes(r.todo, {"otp_set"})
    BY <2>5, PartCalls
  <2>7. Fresh(r) /\ ~Counts(row, r)
    BY <1>0, <2>2, <2>5, <2>6, OpensCalls
  <2> QED BY <1>1, <2>2, <2>4, <2>7
<1>9. CASE ConfirmPasswordReset(w)
  <2>1. PICK code \in 1..minted, new \in Passwords : Serve(w, [BeginWith("confirm_reset", Consume \o SetPassword, [row EXCEPT !.password_hash = new])
             EXCEPT !.ns = "password_reset", !.code = code, !.old = row.password_hash, !.new = new])
    BY <1>9 DEF ConfirmPasswordReset
  <2>2. UNCHANGED guesses
    BY <1>9, <1>0 DEF ConfirmPasswordReset, Local, accountVars, Open, Authed
  <2>3. PICK e : e = [row EXCEPT !.password_hash = new]
    OBVIOUS
  <2>4. PICK r : r = [BeginWith("confirm_reset", Consume \o SetPassword, e)
             EXCEPT !.ns = "password_reset", !.code = code, !.old = row.password_hash, !.new = new]
    OBVIOUS
  <2>5. Serve(w, r)
    BY <2>1, <2>3, <2>4
  <2>6. r.todo = Consume \o SetPassword /\ r.entity = e /\ r.op = "confirm_reset" /\ Untold(r) /\ r.old = row.password_hash /\ r.new = new
    BY <2>4 DEF BeginWith, Begin, Idle, Untold
  <2>7. Makes(r.todo, {"otp_get", "otp_delete", "history_check", "update", "history_insert",
                    "history_list", "history_prune", "tokens_query", "blacklist_each", "sessions_off"})
    BY <2>6, PlanCalls
  <2>8. r.entity.failed_login_attempts = row.failed_login_attempts
    <3>1. e.failed_login_attempts = row.failed_login_attempts
      BY <1>0, <2>3 DEF Row
    <3> QED BY <2>6, <3>1
  <2>9. Kept(row, e)
    BY <1>0, <2>3, WritesBack, Zenon
  <2>10. Written(row, r) = e
    BY <2>6, <2>9 DEF Written, Kept
  <2>11. SetsPassword(row, RecentHashes, r, Written(row, r))
    BY <1>0, <2>2, <2>1, <2>3, <2>6, <2>7, <2>10 DEF SetsPassword, Makes
  <2>12. Fresh(r) /\ ~Counts(row, r)
    BY <1>0, <2>6, <2>7, <2>8, <2>11, OpensMore DEF PasswordOps
  <2> QED BY <1>1, <2>2, <2>5, <2>12
<1>10. CASE ChangePassword(w)
  <2>1. PICK new \in Passwords : Serve(w, [BeginWith("change_password", SetPassword, [row EXCEPT !.password_hash = new])
             EXCEPT !.old = row.password_hash, !.new = new])
    BY <1>10 DEF ChangePassword
  <2>2. UNCHANGED guesses
    BY <1>10, <1>0 DEF ChangePassword, Local, accountVars, Open, Authed
  <2>3. PICK e : e = [row EXCEPT !.password_hash = new]
    OBVIOUS
  <2>4. PICK r : r = [BeginWith("change_password", SetPassword, e)
             EXCEPT !.old = row.password_hash, !.new = new]
    OBVIOUS
  <2>5. Serve(w, r)
    BY <2>1, <2>3, <2>4
  <2>6. r.todo = SetPassword /\ r.entity = e /\ r.op = "change_password" /\ Untold(r) /\ r.old = row.password_hash /\ r.new = new
    BY <2>4 DEF BeginWith, Begin, Idle, Untold
  <2>7. Makes(r.todo, {"history_check", "update", "history_insert", "history_list",
                    "history_prune", "tokens_query", "blacklist_each", "sessions_off"})
    BY <2>6, PlanCalls
  <2>8. r.entity.failed_login_attempts = row.failed_login_attempts
    <3>1. e.failed_login_attempts = row.failed_login_attempts
      BY <1>0, <2>3 DEF Row
    <3> QED BY <2>6, <3>1
  <2>9. Kept(row, e)
    BY <1>0, <2>3, WritesBack, Zenon
  <2>10. Written(row, r) = e
    BY <2>6, <2>9 DEF Written, Kept
  <2>11. SetsPassword(row, RecentHashes, r, Written(row, r))
    BY <1>0, <2>2, <2>1, <2>3, <2>6, <2>7, <2>10 DEF SetsPassword, Makes
  <2>12. Fresh(r) /\ ~Counts(row, r)
    BY <1>0, <2>6, <2>7, <2>8, <2>11, OpensMore DEF PasswordOps
  <2> QED BY <1>1, <2>2, <2>5, <2>12
<1>11. CASE SetupMFA(w)
  <2>1. PICK s \in FreshSecrets : Serve(w, BeginWith("setup_mfa", <<"update">>, [row EXCEPT !.mfa_secret = s]))
    BY <1>11 DEF SetupMFA
  <2>2. UNCHANGED guesses /\ ~row.mfa_enabled
    BY <1>11, <1>0 DEF SetupMFA, Local, accountVars, Open, Authed
  <2>3. PICK e : e = [row EXCEPT !.mfa_secret = s]
    OBVIOUS
  <2>4. PICK r : r = BeginWith("setup_mfa", <<"update">>, e)
    OBVIOUS
  <2>5. Serve(w, r)
    BY <2>1, <2>3, <2>4
  <2>6. r.todo = <<"update">> /\ r.entity = e /\ r.op = "setup_mfa" /\ Untold(r)
    BY <2>4 DEF BeginWith, Begin, Idle, Untold
  <2>7. Makes(r.todo, {"update"})
    BY <2>6, PartCalls
  <2>8. r.entity.failed_login_attempts = row.failed_login_attempts
    <3>1. e.failed_login_attempts = row.failed_login_attempts
      BY <1>0, <2>3 DEF Row
    <3> QED BY <2>6, <3>1
  <2>9. Kept(row, e)
    BY <1>0, <2>3, WritesBack, Zenon
  <2>10. Written(row, r) = e
    BY <2>6, <2>9 DEF Written, Kept
  <2>11. EditsRow(row, Written(row, r))
    BY <1>0, <2>2, <2>1, <2>3, <2>6, <2>7, <2>10 DEF EditsRow, FreshSecrets
  <2>12. Fresh(r) /\ ~Counts(row, r)
    BY <1>0, <2>6, <2>7, <2>8, <2>11, OpensEdit DEF PasswordOps
  <2> QED BY <1>1, <2>2, <2>5, <2>12
<1>12. CASE EnableMFA(w)
  <2>1. Serve(w, BeginWith("enable_mfa", <<"update">> \o Generate, [row EXCEPT !.mfa_enabled = TRUE, !.mfa_type = "totp"]))
    BY <1>12 DEF EnableMFA, Enabled
  <2>2. UNCHANGED guesses /\ ~row.mfa_enabled /\ row.mfa_secret # None
    BY <1>12, <1>0 DEF EnableMFA, Local, accountVars, Open, Authed
  <2>3. PICK e : e = [row EXCEPT !.mfa_enabled = TRUE, !.mfa_type = "totp"]
    OBVIOUS
  <2>4. PICK r : r = BeginWith("enable_mfa", <<"update">> \o Generate, e)
    OBVIOUS
  <2>5. Serve(w, r)
    BY <2>1, <2>3, <2>4
  <2>6. r.todo = <<"update">> \o Generate /\ r.entity = e /\ r.op = "enable_mfa" /\ Untold(r)
    BY <2>4 DEF BeginWith, Begin, Idle, Untold
  <2>7. Makes(r.todo, {"update", "codes_delete", "codes_create"})
    BY <2>6, PlanCalls
  <2>8. r.entity.failed_login_attempts = row.failed_login_attempts
    BY <1>0, <2>3, <2>6 DEF Row, Enabled
  <2>9. Kept(row, e)
    BY <1>0, <2>3, WritesBack, Zenon DEF Enabled
  <2>10. Written(row, r) = e
    BY <2>6, <2>9 DEF Written, Kept
  <2>11. TurnsOn(row, r, Written(row, r))
    BY <1>0, <2>2, <2>3, <2>3, <2>6, <2>7, <2>10 DEF TurnsOn, MfaTypes
  <2>12. Fresh(r) /\ ~Counts(row, r)
    BY <1>0, <2>6, <2>7, <2>8, <2>11, OpensMore DEF PasswordOps
  <2> QED BY <1>1, <2>2, <2>5, <2>12
<1>13. CASE DisableMFA(w)
  <2>1. Serve(w, BeginWith("disable_mfa", <<"update">>, [row EXCEPT !.mfa_enabled = FALSE, !.mfa_secret = None, !.mfa_type = None]))
    BY <1>13 DEF DisableMFA
  <2>2. UNCHANGED guesses /\ row.mfa_enabled
    BY <1>13, <1>0 DEF DisableMFA, Local, accountVars, Open, Authed
  <2>3. PICK e : e = [row EXCEPT !.mfa_enabled = FALSE, !.mfa_secret = None, !.mfa_type = None]
    OBVIOUS
  <2>4. PICK r : r = BeginWith("disable_mfa", <<"update">>, e)
    OBVIOUS
  <2>5. Serve(w, r)
    BY <2>1, <2>3, <2>4
  <2>6. r.todo = <<"update">> /\ r.entity = e /\ r.op = "disable_mfa" /\ Untold(r)
    BY <2>4 DEF BeginWith, Begin, Idle, Untold
  <2>7. Makes(r.todo, {"update"})
    BY <2>6, PartCalls
  <2>8. r.entity.failed_login_attempts = row.failed_login_attempts
    <3>1. e.failed_login_attempts = row.failed_login_attempts
      BY <1>0, <2>3 DEF Row
    <3> QED BY <2>6, <3>1
  <2>9. Kept(row, e)
    BY <1>0, <2>3, WritesBack, Zenon
  <2>10. Written(row, r) = e
    BY <2>6, <2>9 DEF Written, Kept
  <2>11. EditsRow(row, Written(row, r))
    BY <1>0, <2>2, <2>3, <2>3, <2>6, <2>7, <2>10 DEF EditsRow
  <2>12. Fresh(r) /\ ~Counts(row, r)
    BY <1>0, <2>6, <2>7, <2>8, <2>11, OpensEdit DEF PasswordOps
  <2> QED BY <1>1, <2>2, <2>5, <2>12
<1>14. CASE SetupSMSMFA(w)
  <2>1. Serve(w, [Begin("setup_sms_mfa", <<"otp_set">>) EXCEPT !.ns = "mfa_sms_setup"])
    BY <1>14 DEF SetupSMSMFA
  <2>2. UNCHANGED guesses /\ row.contact # None
    BY <1>14, <1>0 DEF SetupSMSMFA, Local, accountVars, Open, Authed
  <2>3. PICK r : r = [Begin("setup_sms_mfa", <<"otp_set">>) EXCEPT !.ns = "mfa_sms_setup"]
    OBVIOUS
  <2>4. Serve(w, r)
    BY <2>1, <2>3
  <2>5. r.todo = <<"otp_set">> /\ Untold(r)
    BY <2>3 DEF Begin, Idle, Untold
  <2>6. Makes(r.todo, {"otp_set"})
    BY <2>5, PartCalls
  <2>7. Fresh(r) /\ ~Counts(row, r)
    BY <1>0, <2>2, <2>5, <2>6, OpensCalls
  <2> QED BY <1>1, <2>2, <2>4, <2>7
<1>15. CASE EnableSMSMFA(w)
  <2>1. PICK code \in 1..minted : Serve(w, [BeginWith("enable_sms_mfa", Consume \o <<"update">> \o Generate, [row EXCEPT !.mfa_enabled = TRUE, !.mfa_type = "sms"])
             EXCEPT !.ns = "mfa_sms_setup", !.code = code])
    BY <1>15 DEF EnableSMSMFA, Enabled
  <2>2. UNCHANGED guesses /\ ~row.mfa_enabled
    BY <1>15, <1>0 DEF EnableSMSMFA, Local, accountVars, Open, Authed
  <2>3. PICK e : e = [row EXCEPT !.mfa_enabled = TRUE, !.mfa_type = "sms"]
    OBVIOUS
  <2>4. PICK r : r = [BeginWith("enable_sms_mfa", Consume \o <<"update">> \o Generate, e)
             EXCEPT !.ns = "mfa_sms_setup", !.code = code]
    OBVIOUS
  <2>5. Serve(w, r)
    BY <2>1, <2>3, <2>4
  <2>6. r.todo = Consume \o <<"update">> \o Generate /\ r.entity = e /\ r.op = "enable_sms_mfa" /\ Untold(r) /\ r.ns = "mfa_sms_setup"
    BY <2>4 DEF BeginWith, Begin, Idle, Untold
  <2>7. Makes(r.todo, {"otp_get", "otp_delete", "update", "codes_delete", "codes_create"})
    BY <2>6, PlanCalls
  <2>8. r.entity.failed_login_attempts = row.failed_login_attempts
    BY <1>0, <2>3, <2>6 DEF Row, Enabled
  <2>9. Kept(row, e)
    BY <1>0, <2>3, WritesBack, Zenon DEF Enabled
  <2>10. Written(row, r) = e
    BY <2>6, <2>9 DEF Written, Kept
  <2>11. TurnsOn(row, r, Written(row, r))
    BY <1>0, <2>2, <2>1, <2>3, <2>6, <2>7, <2>10 DEF TurnsOn, MfaTypes, Makes
  <2>12. Fresh(r) /\ ~Counts(row, r)
    BY <1>0, <2>6, <2>7, <2>8, <2>11, OpensMore DEF PasswordOps
  <2> QED BY <1>1, <2>2, <2>5, <2>12
<1>16. CASE EnableEmailMFA(w)
  <2>1. PICK code \in 1..minted : Serve(w, [BeginWith("enable_email_mfa", Consume \o <<"update">> \o Generate, [row EXCEPT !.mfa_enabled = TRUE, !.mfa_type = "email"])
             EXCEPT !.ns = "mfa_email_setup", !.code = code])
    BY <1>16 DEF EnableEmailMFA, Enabled
  <2>2. UNCHANGED guesses /\ ~row.mfa_enabled
    BY <1>16, <1>0 DEF EnableEmailMFA, Local, accountVars, Open, Authed
  <2>3. PICK e : e = [row EXCEPT !.mfa_enabled = TRUE, !.mfa_type = "email"]
    OBVIOUS
  <2>4. PICK r : r = [BeginWith("enable_email_mfa", Consume \o <<"update">> \o Generate, e)
             EXCEPT !.ns = "mfa_email_setup", !.code = code]
    OBVIOUS
  <2>5. Serve(w, r)
    BY <2>1, <2>3, <2>4
  <2>6. r.todo = Consume \o <<"update">> \o Generate /\ r.entity = e /\ r.op = "enable_email_mfa" /\ Untold(r) /\ r.ns = "mfa_email_setup"
    BY <2>4 DEF BeginWith, Begin, Idle, Untold
  <2>7. Makes(r.todo, {"otp_get", "otp_delete", "update", "codes_delete", "codes_create"})
    BY <2>6, PlanCalls
  <2>8. r.entity.failed_login_attempts = row.failed_login_attempts
    BY <1>0, <2>3, <2>6 DEF Row, Enabled
  <2>9. Kept(row, e)
    BY <1>0, <2>3, WritesBack, Zenon DEF Enabled
  <2>10. Written(row, r) = e
    BY <2>6, <2>9 DEF Written, Kept
  <2>11. TurnsOn(row, r, Written(row, r))
    BY <1>0, <2>2, <2>1, <2>3, <2>6, <2>7, <2>10 DEF TurnsOn, MfaTypes, Makes
  <2>12. Fresh(r) /\ ~Counts(row, r)
    BY <1>0, <2>6, <2>7, <2>8, <2>11, OpensMore DEF PasswordOps
  <2> QED BY <1>1, <2>2, <2>5, <2>12
<1>17. CASE SetupEmailMFA(w)
  <2>1. Serve(w, [Begin("setup_email_mfa", <<"otp_set">>) EXCEPT !.ns = "mfa_email_setup"])
    BY <1>17 DEF SetupEmailMFA
  <2>2. UNCHANGED guesses
    BY <1>17, <1>0 DEF SetupEmailMFA, Local, accountVars, Open, Authed
  <2>3. PICK r : r = [Begin("setup_email_mfa", <<"otp_set">>) EXCEPT !.ns = "mfa_email_setup"]
    OBVIOUS
  <2>4. Serve(w, r)
    BY <2>1, <2>3
  <2>5. r.todo = <<"otp_set">> /\ Untold(r) /\ r.ns = "mfa_email_setup"
    BY <2>3 DEF Begin, Idle, Untold
  <2>6. Makes(r.todo, {"otp_set"})
    BY <2>5, PartCalls
  <2>7. Fresh(r) /\ ~Counts(row, r)
    BY <1>0, <2>2, <2>5, <2>6, OpensCalls
  <2> QED BY <1>1, <2>2, <2>4, <2>7
<1>18. CASE RegenerateBackupCodes(w)
  <2>1. Serve(w, Begin("regenerate_codes", Generate))
    BY <1>18 DEF RegenerateBackupCodes
  <2>2. UNCHANGED guesses /\ row.mfa_enabled /\ row.mfa_secret # None
    BY <1>18, <1>0 DEF RegenerateBackupCodes, Local, accountVars, Open, Authed
  <2>3. PICK r : r = Begin("regenerate_codes", Generate)
    OBVIOUS
  <2>4. Serve(w, r)
    BY <2>1, <2>3
  <2>5. r.todo = Generate /\ Untold(r)
    BY <2>3 DEF Begin, Idle, Untold
  <2>6. Makes(r.todo, {"codes_delete", "codes_create"})
    BY <2>5, PartCalls
  <2>7. Fresh(r) /\ ~Counts(row, r)
    BY <1>0, <2>2, <2>5, <2>6, OpensCalls
  <2> QED BY <1>1, <2>2, <2>4, <2>7
<1>19. CASE UpdateProfile(w)
  <2>1. PICK n \in Names \cup {row.name}, c \in Contacts \cup {row.contact} : Serve(w, BeginWith("update_profile", <<"update">>, [row EXCEPT !.name = n, !.contact = c]))
    BY <1>19 DEF UpdateProfile
  <2>2. UNCHANGED guesses
    BY <1>19, <1>0 DEF UpdateProfile, Local, accountVars, Open, Authed
  <2>3. PICK e : e = [row EXCEPT !.name = n, !.contact = c]
    OBVIOUS
  <2>4. PICK r : r = BeginWith("update_profile", <<"update">>, e)
    OBVIOUS
  <2>5. Serve(w, r)
    BY <2>1, <2>3, <2>4
  <2>6. r.todo = <<"update">> /\ r.entity = e /\ r.op = "update_profile" /\ Untold(r)
    BY <2>4 DEF BeginWith, Begin, Idle, Untold
  <2>7. Makes(r.todo, {"update"})
    BY <2>6, PartCalls
  <2>8. r.entity.failed_login_attempts = row.failed_login_attempts
    <3>1. e.failed_login_attempts = row.failed_login_attempts
      BY <1>0, <2>3 DEF Row
    <3> QED BY <2>6, <3>1
  <2>9. Kept(row, e)
    BY <1>0, <2>3, WritesBack, Zenon
  <2>10. Written(row, r) = e
    BY <2>6, <2>9 DEF Written, Kept
  <2>11. EditsRow(row, Written(row, r))
    BY <1>0, <2>2, <2>1, <2>3, <2>6, <2>7, <2>10 DEF EditsRow
  <2>12. Fresh(r) /\ ~Counts(row, r)
    BY <1>0, <2>6, <2>7, <2>8, <2>11, OpensEdit DEF PasswordOps
  <2> QED BY <1>1, <2>2, <2>5, <2>12
<1>20. CASE DeleteAccount(w)
  <2>1. Serve(w, BeginWith("delete_account", <<"update">> \o Sweep, [row EXCEPT !.is_active = FALSE, !.scheduled_deletion_at = TRUE]))
    BY <1>20 DEF DeleteAccount
  <2>2. UNCHANGED guesses
    BY <1>20, <1>0 DEF DeleteAccount, Local, accountVars, Open, Authed
  <2>3. PICK e : e = [row EXCEPT !.is_active = FALSE, !.scheduled_deletion_at = TRUE]
    OBVIOUS
  <2>4. PICK r : r = BeginWith("delete_account", <<"update">> \o Sweep, e)
    OBVIOUS
  <2>5. Serve(w, r)
    BY <2>1, <2>3, <2>4
  <2>6. r.todo = <<"update">> \o Sweep /\ r.entity = e /\ r.op = "delete_account" /\ Untold(r)
    BY <2>4 DEF BeginWith, Begin, Idle, Untold
  <2>7. Makes(r.todo, {"update", "tokens_query", "blacklist_each", "sessions_off"})
    BY <2>6, PlanCalls
  <2>8. r.entity.failed_login_attempts = row.failed_login_attempts
    <3>1. e.failed_login_attempts = row.failed_login_attempts
      BY <1>0, <2>3 DEF Row
    <3> QED BY <2>6, <3>1
  <2>9. RepoUpdate(row, e) = [row EXCEPT !.is_active = FALSE]
    BY <1>0, <2>3, WritesBack, Zenon
  <2>10. Written(row, r) = [row EXCEPT !.is_active = FALSE]
    BY <2>6, <2>9 DEF Written
  <2>11. ClosesAccount(row, Written(row, r))
    BY <1>0, <2>2, <2>3, <2>3, <2>6, <2>7, <2>10 DEF ClosesAccount
  <2>12. Fresh(r) /\ ~Counts(row, r)
    BY <1>0, <2>6, <2>7, <2>8, <2>11, OpensMore DEF PasswordOps
  <2> QED BY <1>1, <2>2, <2>5, <2>12
<1>21. CASE GDPRErasure(w)
  <2>1. Serve(w, BeginWith("erase", <<"update">> \o Sweep, [row EXCEPT !.email = "redacted", !.name = "Deleted User",
             !.mfa_secret = None, !.is_active = FALSE, !.deleted_at = TRUE]))
    BY <1>21 DEF GDPRErasure
  <2>2. UNCHANGED guesses
    BY <1>21, <1>0 DEF GDPRErasure, Local, accountVars, Open, Authed
  <2>3. PICK e : e = [row EXCEPT !.email = "redacted", !.name = "Deleted User",
             !.mfa_secret = None, !.is_active = FALSE, !.deleted_at = TRUE]
    OBVIOUS
  <2>4. PICK r : r = BeginWith("erase", <<"update">> \o Sweep, e)
    OBVIOUS
  <2>5. Serve(w, r)
    BY <2>1, <2>3, <2>4
  <2>6. r.todo = <<"update">> \o Sweep /\ r.entity = e /\ r.op = "erase" /\ Untold(r)
    BY <2>4 DEF BeginWith, Begin, Idle, Untold
  <2>7. Makes(r.todo, {"update", "tokens_query", "blacklist_each", "sessions_off"})
    BY <2>6, PlanCalls
  <2>8. r.entity.failed_login_attempts = row.failed_login_attempts
    <3>1. e.failed_login_attempts = row.failed_login_attempts
      BY <1>0, <2>3 DEF Row
    <3> QED BY <2>6, <3>1
  <2>9. RepoUpdate(row, e) = [row EXCEPT !.name = "Deleted User", !.mfa_secret = None,
             !.is_active = FALSE, !.deleted_at = TRUE]
    BY <1>0, <2>3, WritesBack, Zenon
  <2>10. Written(row, r) = [row EXCEPT !.name = "Deleted User", !.mfa_secret = None,
             !.is_active = FALSE, !.deleted_at = TRUE]
    BY <2>6, <2>9 DEF Written
  <2>11. ClosesAccount(row, Written(row, r))
    BY <1>0, <2>2, <2>3, <2>3, <2>6, <2>7, <2>10 DEF ClosesAccount
  <2>12. Fresh(r) /\ ~Counts(row, r)
    BY <1>0, <2>6, <2>7, <2>8, <2>11, OpensMore DEF PasswordOps
  <2> QED BY <1>1, <2>2, <2>5, <2>12
<1>22. CASE SuspendUser(w)
  <2>1. Serve(w, BeginWith("suspend", <<"update">>, [row EXCEPT !.is_active = FALSE]))
    BY <1>22 DEF SuspendUser
  <2>2. UNCHANGED guesses
    BY <1>22, <1>0 DEF SuspendUser, Local, accountVars, Open, Authed
  <2>3. PICK e : e = [row EXCEPT !.is_active = FALSE]
    OBVIOUS
  <2>4. PICK r : r = BeginWith("suspend", <<"update">>, e)
    OBVIOUS
  <2>5. Serve(w, r)
    BY <2>1, <2>3, <2>4
  <2>6. r.todo = <<"update">> /\ r.entity = e /\ r.op = "suspend" /\ Untold(r)
    BY <2>4 DEF BeginWith, Begin, Idle, Untold
  <2>7. Makes(r.todo, {"update"})
    BY <2>6, PartCalls
  <2>8. r.entity.failed_login_attempts = row.failed_login_attempts
    <3>1. e.failed_login_attempts = row.failed_login_attempts
      BY <1>0, <2>3 DEF Row
    <3> QED BY <2>6, <3>1
  <2>9. Kept(row, e)
    BY <1>0, <2>3, WritesBack, Zenon
  <2>10. Written(row, r) = e
    BY <2>6, <2>9 DEF Written, Kept
  <2>11. EditsRow(row, Written(row, r))
    BY <1>0, <2>2, <2>3, <2>3, <2>6, <2>7, <2>10 DEF EditsRow
  <2>12. Fresh(r) /\ ~Counts(row, r)
    BY <1>0, <2>6, <2>7, <2>8, <2>11, OpensEdit DEF PasswordOps
  <2> QED BY <1>1, <2>2, <2>5, <2>12
<1>23. CASE ActivateUser(w)
  <2>1. Serve(w, BeginWith("activate", <<"update">>, [row EXCEPT !.is_active = TRUE]))
    BY <1>23 DEF ActivateUser
  <2>2. UNCHANGED guesses
    BY <1>23, <1>0 DEF ActivateUser, Local, accountVars, Open, Authed
  <2>3. PICK e : e = [row EXCEPT !.is_active = TRUE]
    OBVIOUS
  <2>4. PICK r : r = BeginWith("activate", <<"update">>, e)
    OBVIOUS
  <2>5. Serve(w, r)
    BY <2>1, <2>3, <2>4
  <2>6. r.todo = <<"update">> /\ r.entity = e /\ r.op = "activate" /\ Untold(r)
    BY <2>4 DEF BeginWith, Begin, Idle, Untold
  <2>7. Makes(r.todo, {"update"})
    BY <2>6, PartCalls
  <2>8. r.entity.failed_login_attempts = row.failed_login_attempts
    <3>1. e.failed_login_attempts = row.failed_login_attempts
      BY <1>0, <2>3 DEF Row
    <3> QED BY <2>6, <3>1
  <2>9. Kept(row, e)
    BY <1>0, <2>3, WritesBack, Zenon
  <2>10. Written(row, r) = e
    BY <2>6, <2>9 DEF Written, Kept
  <2>11. EditsRow(row, Written(row, r))
    BY <1>0, <2>2, <2>3, <2>3, <2>6, <2>7, <2>10 DEF EditsRow
  <2>12. Fresh(r) /\ ~Counts(row, r)
    BY <1>0, <2>6, <2>7, <2>8, <2>11, OpensEdit DEF PasswordOps
  <2> QED BY <1>1, <2>2, <2>5, <2>12
<1>24. CASE Refresh(w)
  <2>1. PICK t \in Live : Serve(w, [Begin("refresh", <<"user_active", "blacklist", "issue", "touch">>) EXCEPT !.jti = t])
    BY <1>24 DEF Refresh
  <2>2. UNCHANGED guesses /\ Live \subseteq 0..outstanding
    BY <1>24, <1>0 DEF Refresh, Local, accountVars, Open, Authed, Live, Outstanding
  <2>3. PICK r : r = [Begin("refresh", <<"user_active", "blacklist", "issue", "touch">>) EXCEPT !.jti = t]
    OBVIOUS
  <2>4. Serve(w, r)
    BY <2>1, <2>3
  <2>5. r.todo = <<"user_active", "blacklist", "issue", "touch">> /\ r.issued = 0 /\ r.toks = {} /\ r.jti = t
    BY <2>3 DEF Begin, Idle, Untold
  <2>6. Makes(r.todo, {"user_active", "blacklist", "issue", "touch"})
    BY <2>5, PartCalls
  <2>7. r.jti \in 0..outstanding
    BY <1>0, <2>2, <2>1, <2>5
  <2>8. Fresh(r) /\ ~Counts(row, r)
    BY <1>0, <2>2, <2>5, <2>7, <2>6, OpensCalls
  <2> QED BY <1>1, <2>2, <2>4, <2>8
<1>25. CASE Logout(w)
  <2>1. PICK t \in Live : Serve(w, [Begin("logout", <<"blacklist", "session_off">>) EXCEPT !.jti = t])
    BY <1>25 DEF Logout
  <2>2. UNCHANGED guesses /\ Live \subseteq 0..outstanding
    BY <1>25, <1>0 DEF Logout, Local, accountVars, Open, Authed, Live, Outstanding
  <2>3. PICK r : r = [Begin("logout", <<"blacklist", "session_off">>) EXCEPT !.jti = t]
    OBVIOUS
  <2>4. Serve(w, r)
    BY <2>1, <2>3
  <2>5. r.todo = <<"blacklist", "session_off">> /\ r.issued = 0 /\ r.toks = {} /\ r.jti = t
    BY <2>3 DEF Begin, Idle, Untold
  <2>6. Makes(r.todo, {"blacklist", "session_off"})
    BY <2>5, PartCalls
  <2>7. r.jti \in 0..outstanding
    BY <1>0, <2>2, <2>1, <2>5
  <2>8. Fresh(r) /\ ~Counts(row, r)
    BY <1>0, <2>2, <2>5, <2>7, <2>6, OpensCalls
  <2> QED BY <1>1, <2>2, <2>4, <2>8
<1>26. CASE RevokeSession(w)
  <2>1. PICK t \in sessions : Serve(w, [Begin("revoke_session", <<"blacklist">>) EXCEPT !.jti = t])
    BY <1>26 DEF RevokeSession
  <2>2. UNCHANGED guesses
    BY <1>26, <1>0 DEF RevokeSession, Local, accountVars, Open, Authed
  <2>3. PICK r : r = [Begin("revoke_session", <<"blacklist">>) EXCEPT !.jti = t]
    OBVIOUS
  <2>4. Serve(w, r)
    BY <2>1, <2>3
  <2>5. r.todo = <<"blacklist">> /\ r.issued = 0 /\ r.toks = {} /\ r.jti = t
    BY <2>3 DEF Begin, Idle, Untold
  <2>6. Makes(r.todo, {"blacklist"})
    BY <2>5, PartCalls
  <2>7. r.jti \in 0..outstanding
    BY <1>0, <2>2, <2>1, <2>5
  <2>8. Fresh(r) /\ ~Counts(row, r)
    BY <1>0, <2>2, <2>5, <2>7, <2>6, OpensCalls
  <2> QED BY <1>1, <2>2, <2>4, <2>8
<1>27. CASE Authenticate(w) \/ EndUnchanged(w)
  <2>1. ASSUME NEW r, r \in {Idle, Begin("authenticated", <<>>)} PROVE Fresh(r) /\ ~Counts(row, r)
    <3>1. r.todo = <<>> /\ Untold(r)
      <4>1. CASE r = Idle
        BY <4>1 DEF Idle, Untold
      <4>2. CASE r = Begin("authenticated", <<>>)
        BY <4>2 DEF Begin, Idle, Untold
      <4> QED BY <2>1, <4>1, <4>2
    <3>2. Makes(r.todo, {})
      BY <3>1, PartCalls
    <3> QED BY <1>0, <3>1, <3>2, OpensCalls
  <2>2. (Serve(w, Idle) \/ Serve(w, Begin("authenticated", <<>>))) /\ UNCHANGED guesses
    BY <1>27 DEF Authenticate, EndUnchanged, Fail, Local, accountVars
  <2> QED BY <1>1, <2>1, <2>2
<1> QED BY <1>2, <1>3, <1>4, <1>5, <1>6, <1>7, <1>8, <1>9, <1>10, <1>11, <1>12, <1>13, <1>14, <1>15, <1>16, <1>17, <1>18, <1>19, <1>20, <1>21, <1>22, <1>23, <1>24, <1>25, <1>26, <1>27 DEF Handle

-----------------------------------------------------------------------------
(***************************************************************************)
(* The calls.                                                              *)
(***************************************************************************)

\* What a check that lets its request through has found.
Passed(r) ==
    /\ Head(r.todo) = "otp_get" => Matches(r.ns, r.code)
    /\ Head(r.todo) = "history_check" => r.new \notin RecentHashes
    /\ Head(r.todo) = "user_active" => row.is_active
    /\ Head(r.todo) = "codes_find" => r.backup \in Unused
    /\ Head(r.todo) = "code_save" => Saveable(r.backup)

\* Request r, its first call made, is n: it keeps what it knows, but for what
\* the call is there to tell it.
Moved(r, n) ==
    /\ n.todo = Tail(r.todo)
    /\ n.todo = <<>> => n = Idle
    /\ n.todo # <<>> =>
          /\ n.op = r.op /\ n.old = r.old /\ n.new = r.new /\ n.ns = r.ns
          /\ n.code = r.code /\ n.jti = r.jti /\ n.backup = r.backup
          /\ Head(r.todo) # "update" => n.entity = r.entity
          /\ n.issued = IF Head(r.todo) = "issue" THEN outstanding + 1 ELSE r.issued
          /\ IF Head(r.todo) = "tokens_query"
             THEN n.seen = outstanding /\ n.toks = Outstanding
             ELSE n.seen = r.seen /\ n.toks = r.toks
          /\ Head(r.todo) = "history_list" => n.keep = IdsToKeep
          /\ Head(r.todo) \notin {"history_list", "history_prune"} => n.keep = r.keep
Onward(w) ==
    \E n : /\ req' = [req EXCEPT ![w] = n]
           /\ Moved(req[w], n) /\ Passed(req[w])

\* A call ends its request at a check, stays in the loop, or goes on.
LEMMA CallMoves ==
    ASSUME IInv, NEW w \in Workers, Call(w)
    PROVE  /\ req[w].todo # <<>>
           /\ \/ Fail(w) /\ Head(req[w].todo) \in Checks
              \/ Loops(w)
              \/ Onward(w)
<1> DEFINE r == req[w]
           h == Head(req[w].todo)
<1>0. r \in Request /\ req \in [Workers -> Request]
  BY DEF IInv, TypeOK
<1>1. Idle.todo = <<>>
  BY DEF Idle
<1>2. ASSUME NEW q, ProceedWith(w, q), Passed(r), q \in Request,
             q.todo = r.todo /\ q.op = r.op /\ q.old = r.old /\ q.new = r.new /\ q.ns = r.ns,
             q.code = r.code /\ q.jti = r.jti /\ q.backup = r.backup,
             h # "update" => q.entity = r.entity,
             q.issued = IF h = "issue" THEN outstanding + 1 ELSE r.issued,
             IF h = "tokens_query" THEN q.seen = outstanding /\ q.toks = Outstanding
                                   ELSE q.seen = r.seen /\ q.toks = r.toks,
             h = "history_list" => q.keep = IdsToKeep,
             h \notin {"history_list", "history_prune"} => q.keep = r.keep
      PROVE  Onward(w)
  <2>1. req' = [req EXCEPT ![w] = After(q)]
    BY <1>2 DEF ProceedWith
  <2>2. CASE Tail(q.todo) = <<>>
    <3>1. After(q) = Idle
      BY <2>2 DEF After
    <3>2. Moved(r, Idle)
      BY <1>1, <1>2, <2>2 DEF Moved
    <3> QED BY <1>2, <2>1, <3>1, <3>2 DEF Onward
  <2>3. CASE Tail(q.todo) # <<>>
    <3>1. PICK n : n = [q EXCEPT !.todo = Tail(q.todo)]
      OBVIOUS
    <3>2. After(q) = n
      BY <2>3, <3>1 DEF After
    <3>3. /\ n.todo = Tail(q.todo) /\ n.op = q.op /\ n.old = q.old /\ n.new = q.new
          /\ n.ns = q.ns /\ n.code = q.code /\ n.jti = q.jti /\ n.backup = q.backup
          /\ n.entity = q.entity /\ n.issued = q.issued /\ n.seen = q.seen
          /\ n.toks = q.toks /\ n.keep = q.keep
      BY <1>2, <3>1 DEF Request
    <3>4. Moved(r, n)
      BY <1>2, <2>3, <3>3 DEF Moved
    <3> QED BY <1>2, <2>1, <3>2, <3>4 DEF Onward
  <2> QED BY <2>2, <2>3
<1>3. ASSUME Proceed(w), Passed(r), h \notin {"update", "issue", "tokens_query", "history_list"}
      PROVE  Onward(w)
  BY <1>0, <1>2, <1>3 DEF Proceed
<1>4. CASE OtpDelete(w) \/ OtpSet(w) \/ HistoryInsert(w) \/ SessionCreate(w)
           \/ BlacklistToken(w) \/ SessionOff(w) \/ Touch(w) \/ SessionsOff(w)
           \/ CodesDelete(w) \/ CodesCreate(w)
  <2>1. /\ r.todo # <<>> /\ Proceed(w)
        /\ h \in {"otp_delete", "otp_set", "history_insert", "session_create", "blacklist",
                  "session_off", "touch", "sessions_off", "codes_delete", "codes_create"}
    BY <1>4 DEF AtCall, OtpDelete, OtpSet, HistoryInsert, SessionCreate, BlacklistToken,
       SessionOff, Touch, SessionsOff, CodesDelete, CodesCreate
  <2>2. Passed(r)
    BY <2>1 DEF Passed
  <2> QED BY <1>3, <2>1, <2>2
<1>5. CASE OtpGet(w) \/ HistoryCheck(w) \/ CheckUserActive(w) \/ SessionCheck(w)
           \/ CodesFind(w) \/ CodeSave(w)
  <2>1. /\ r.todo # <<>> /\ h \in Checks
        /\ Fail(w) \/ (Proceed(w) /\ Passed(r))
    BY <1>5 DEF AtCall, Checks, Passed, OtpGet, HistoryCheck, CheckUserActive, SessionCheck,
       CodesFind, CodeSave
  <2>2. h \notin {"update", "issue", "tokens_query", "history_list"}
    BY <2>1 DEF Checks
  <2> QED BY <1>3, <2>1, <2>2
<1>6. CASE UpdateUser(w)
  <2>1. PICK q : q = [req[w] EXCEPT !.entity = NoRow]
    OBVIOUS
  <2>2. /\ q \in Request /\ q.todo = r.todo /\ q.op = r.op /\ q.old = r.old /\ q.new = r.new
        /\ q.ns = r.ns /\ q.code = r.code /\ q.jti = r.jti /\ q.backup = r.backup
        /\ q.issued = r.issued /\ q.seen = r.seen /\ q.toks = r.toks /\ q.keep = r.keep
    BY <1>0, <2>1, NoRowSafe DEF Request
  <2>3. ProceedWith(w, q) /\ r.todo # <<>> /\ h = "update"
    BY <1>6, <2>1 DEF UpdateUser, AtCall
  <2>4. Passed(r)
    BY <2>3 DEF Passed
  <2> QED BY <1>2, <2>2, <2>3, <2>4
<1>7. CASE HistoryList(w)
  <2>1. PICK q : q = [req[w] EXCEPT !.keep = IdsToKeep]
    OBVIOUS
  <2>0. IdsToKeep \in SUBSET (1..MaxRecords)
    BY DEF IInv, TypeOK, HistoryTypeOK, IdsToKeep, MostRecent
  <2>2. /\ q \in Request /\ q.todo = r.todo /\ q.op = r.op /\ q.old = r.old /\ q.new = r.new
        /\ q.ns = r.ns /\ q.code = r.code /\ q.jti = r.jti /\ q.backup = r.backup
        /\ q.issued = r.issued /\ q.seen = r.seen /\ q.toks = r.toks /\ q.entity = r.entity
        /\ q.keep = IdsToKeep
    BY <1>0, <2>0, <2>1 DEF Request
  <2>3. ProceedWith(w, q) /\ r.todo # <<>> /\ h = "history_list"
    BY <1>7, <2>1 DEF HistoryList, AtCall
  <2>4. Passed(r)
    BY <2>3 DEF Passed
  <2> QED BY <1>2, <2>2, <2>3, <2>4
<1>8. CASE HistoryPrune(w)
  <2>1. PICK q : q = [req[w] EXCEPT !.keep = {}]
    OBVIOUS
  <2>2. /\ q \in Request /\ q.todo = r.todo /\ q.op = r.op /\ q.old = r.old /\ q.new = r.new
        /\ q.ns = r.ns /\ q.code = r.code /\ q.jti = r.jti /\ q.backup = r.backup
        /\ q.issued = r.issued /\ q.seen = r.seen /\ q.toks = r.toks /\ q.entity = r.entity
    BY <1>0, <2>1 DEF Request
  <2>3. ProceedWith(w, q) /\ r.todo # <<>> /\ h = "history_prune"
    BY <1>8, <2>1 DEF HistoryPrune, AtCall
  <2>4. Passed(r)
    BY <2>3 DEF Passed
  <2> QED BY <1>2, <2>2, <2>3, <2>4
<1>9. CASE IssueToken(w)
  <2>1. PICK q : q = [req[w] EXCEPT !.issued = outstanding + 1]
    OBVIOUS
  <2>0. outstanding + 1 \in 0..MaxTokens
    BY <1>9, TokenAssumption DEF IssueToken, RecordOutstanding, IInv, TypeOK, TokenTypeOK
  <2>2. /\ q \in Request /\ q.todo = r.todo /\ q.op = r.op /\ q.old = r.old /\ q.new = r.new
        /\ q.ns = r.ns /\ q.code = r.code /\ q.jti = r.jti /\ q.backup = r.backup
        /\ q.issued = outstanding + 1 /\ q.seen = r.seen /\ q.toks = r.toks
        /\ q.entity = r.entity /\ q.keep = r.keep
    BY <1>0, <2>0, <2>1 DEF Request
  <2>3. ProceedWith(w, q) /\ r.todo # <<>> /\ h = "issue"
    BY <1>9, <2>1 DEF IssueToken, AtCall
  <2>4. Passed(r)
    BY <2>3 DEF Passed
  <2> QED BY <1>2, <2>2, <2>3, <2>4
<1>10. CASE TokensQuery(w)
  <2>1. PICK q : q = [req[w] EXCEPT !.seen = outstanding, !.toks = Outstanding]
    OBVIOUS
  <2>0. outstanding \in 0..MaxTokens /\ Outstanding \in SUBSET (1..MaxTokens)
    BY TokenAssumption DEF IInv, TypeOK, TokenTypeOK, Outstanding
  <2>2. /\ q \in Request /\ q.todo = r.todo /\ q.op = r.op /\ q.old = r.old /\ q.new = r.new
        /\ q.ns = r.ns /\ q.code = r.code /\ q.jti = r.jti /\ q.backup = r.backup
        /\ q.issued = r.issued /\ q.seen = outstanding /\ q.toks = Outstanding
        /\ q.entity = r.entity /\ q.keep = r.keep
    BY <1>0, <2>0, <2>1 DEF Request
  <2>3. ProceedWith(w, q) /\ r.todo # <<>> /\ h = "tokens_query"
    BY <1>10, <2>1 DEF TokensQuery, AtCall
  <2>4. Passed(r)
    BY <2>3 DEF Passed
  <2> QED BY <1>2, <2>2, <2>3, <2>4
<1>11. CASE BlacklistEach(w)
  <2>1. r.todo # <<>> /\ h = "blacklist_each" /\ (Proceed(w) \/ Loops(w))
    BY <1>11 DEF BlacklistEach, Loops, AtCall
  <2>2. Passed(r)
    BY <2>1 DEF Passed
  <2> QED BY <1>3, <2>1, <2>2
<1> QED BY <1>4, <1>5, <1>6, <1>7, <1>8, <1>9, <1>10, <1>11 DEF Call

\* What each call leaves alone, and what it writes.
LEMMA CallWrites ==
    ASSUME NEW w \in Workers, Call(w)
    PROVE  LET h == Head(req[w].todo)
           IN  /\ h # "update" => UNCHANGED <<row, guesses, replaced>>
               /\ h \notin {"otp_get", "otp_delete", "otp_set"} => UNCHANGED otp
               /\ h # "issue" => UNCHANGED outstanding
               /\ h \notin {"blacklist", "blacklist_each"} => UNCHANGED blacklisted
               /\ h \notin {"session_create", "session_off", "sessions_off"} => UNCHANGED sessions
               /\ h \notin {"history_insert", "history_prune"} => UNCHANGED <<history, recorded>>
               /\ h \notin {"codes_delete", "codes_create", "code_save"} => UNCHANGED <<code_rows, used, redeemed>>
               /\ h # "codes_create" => UNCHANGED sets
               /\ UNCHANGED <<now, confirmed>>
<1> USE DEF Call, AtCall
<1> DEFINE h == Head(req[w].todo)
<1>1. h # "update" => UNCHANGED <<row, guesses>>
  BY DEF accountVars, UpdateUser, OtpGet, OtpDelete, OtpSet, HistoryCheck, HistoryInsert,
     HistoryList, HistoryPrune, CheckUserActive, IssueToken, SessionCheck, SessionCreate,
     BlacklistToken, SessionOff, Touch, TokensQuery, BlacklistEach, SessionsOff,
     CodesDelete, CodesCreate, CodesFind, CodeSave
<1>2. UNCHANGED <<now, confirmed>>
  BY DEF accountVars, UpdateUser, OtpGet, OtpDelete, OtpSet, HistoryCheck, HistoryInsert,
     HistoryList, HistoryPrune, CheckUserActive, IssueToken, SessionCheck, SessionCreate,
     BlacklistToken, SessionOff, Touch, TokensQuery, BlacklistEach, SessionsOff,
     CodesDelete, CodesCreate, CodesFind, CodeSave
<1>3. h \notin {"otp_get", "otp_delete", "otp_set"} => UNCHANGED otp
  BY DEF otpVars, UpdateUser, OtpGet, OtpDelete, OtpSet, HistoryCheck, HistoryInsert,
     HistoryList, HistoryPrune, CheckUserActive, IssueToken, SessionCheck, SessionCreate,
     BlacklistToken, SessionOff, Touch, TokensQuery, BlacklistEach, SessionsOff,
     CodesDelete, CodesCreate, CodesFind, CodeSave
<1>4. /\ h # "issue" => UNCHANGED outstanding
      /\ h \notin {"blacklist", "blacklist_each"} => UNCHANGED blacklisted
      /\ h \notin {"session_create", "session_off", "sessions_off"} => UNCHANGED sessions
  BY DEF tokenVars, RecordOutstanding, CreateSession, DeactivateSession, DeactivateAllSessions,
     TouchSession, Blacklist, UpdateUser, OtpGet, OtpDelete, OtpSet, HistoryCheck, HistoryInsert,
     HistoryList, HistoryPrune, CheckUserActive, IssueToken, SessionCheck, SessionCreate,
     BlacklistToken, SessionOff, Touch, TokensQuery, BlacklistEach, SessionsOff,
     CodesDelete, CodesCreate, CodesFind, CodeSave
<1>5. /\ h # "update" => UNCHANGED replaced
      /\ h \notin {"history_insert", "history_prune"} => UNCHANGED <<history, recorded>>
  BY DEF historyVars, InsertHash, PruneExcept, UpdateUser, OtpGet, OtpDelete, OtpSet, HistoryCheck,
     HistoryInsert, HistoryList, HistoryPrune, CheckUserActive, IssueToken, SessionCheck,
     SessionCreate, BlacklistToken, SessionOff, Touch, TokensQuery, BlacklistEach, SessionsOff,
     CodesDelete, CodesCreate, CodesFind, CodeSave
<1>6. /\ h \notin {"codes_delete", "codes_create", "code_save"} => UNCHANGED <<code_rows, used, redeemed>>
      /\ h # "codes_create" => UNCHANGED sets
  BY DEF backupVars, DeleteCodes, CreateCodes, MarkUsed, UpdateUser, OtpGet, OtpDelete, OtpSet,
     HistoryCheck, HistoryInsert, HistoryList, HistoryPrune, CheckUserActive, IssueToken, SessionCheck,
     SessionCreate, BlacklistToken, SessionOff, Touch, TokensQuery, BlacklistEach, SessionsOff,
     CodesDelete, CodesCreate, CodesFind, CodeSave
<1> QED BY <1>1, <1>2, <1>3, <1>4, <1>5, <1>6

\* A call that is made is not one that is cut off.
LEMMA CallUncut == ASSUME NEW w \in Workers, Call(w) PROVE interrupted' = interrupted
  BY DEF Call, UpdateUser, OtpGet, OtpDelete, OtpSet, HistoryCheck, HistoryInsert,
     HistoryList, HistoryPrune, CheckUserActive, IssueToken, SessionCheck, SessionCreate,
     BlacklistToken, SessionOff, Touch, TokensQuery, BlacklistEach, SessionsOff,
     CodesDelete, CodesCreate, CodesFind, CodeSave, Fail, Serve, Proceed, ProceedWith, faultVars

\* Which action a call is, for the other calls the proofs look at.
LEMMA CallIsAlso ==
    ASSUME NEW w \in Workers, Call(w)
    PROVE  LET h == Head(req[w].todo)
           IN  /\ h = "update" => UpdateUser(w)
               /\ h = "otp_set" => OtpSet(w)
               /\ h = "issue" => IssueToken(w)
               /\ h = "session_create" => SessionCreate(w)
               /\ h = "blacklist" => BlacklistToken(w)
               /\ h = "session_off" => SessionOff(w)
               /\ h = "sessions_off" => SessionsOff(w)
               /\ h = "code_save" => CodeSave(w)
  BY DEF Call, AtCall, UpdateUser, OtpGet, OtpDelete, OtpSet, HistoryCheck, HistoryInsert,
     HistoryList, HistoryPrune, CheckUserActive, IssueToken, SessionCheck, SessionCreate,
     BlacklistToken, SessionOff, Touch, TokensQuery, BlacklistEach, SessionsOff,
     CodesDelete, CodesCreate, CodesFind, CodeSave

\* What a write may do to the row it was decided on.
LEMMA WrittenRow ==
    ASSUME NEW u \in Row, NEW t \in Nat, NEW recent, NEW r, Intends(u, t, recent, r)
    PROVE  LET n == Written(u, r)
               C == CallsOf(r.todo)
           IN  /\ u.contact # None => n.contact # None
               /\ "history_insert" \notin C => n.password_hash = u.password_hash
               /\ "history_insert" \in C => SetsPassword(u, recent, r, n)
               /\ u.locked_until > t => n.locked_until = u.locked_until
               /\ \/ n.failed_login_attempts = u.failed_login_attempts
                  \/ n.failed_login_attempts = u.failed_login_attempts + 1
                  \/ n.failed_login_attempts = 0 /\ r.op = "login"
               /\ n.mfa_enabled /\ n.mfa_type = "sms"
                     => \/ u.mfa_enabled /\ u.mfa_type = "sms" /\ n.contact = u.contact
                        \/ n.contact # None
                        \/ "otp_get" \in C /\ r.ns = "mfa_sms_setup"
<1> DEFINE C == CallsOf(r.todo)
<1>1. PICK n : n = Written(u, r)
  OBVIOUS
<1>2. /\ u.locked_until \in Nat /\ u.failed_login_attempts \in Nat
      /\ u.contact \in Contacts \cup {None} /\ u.mfa_enabled \in BOOLEAN
  BY DEF Row
<1> DEFINE Keeps == /\ n.contact = u.contact \/ n.contact # None
                    /\ n.mfa_enabled /\ n.mfa_type = "sms"
                          => \/ u.mfa_enabled /\ u.mfa_type = "sms"
                                /\ (n.contact = u.contact \/ n.contact # None)
                             \/ n.contact # None
                             \/ "otp_get" \in C /\ r.ns = "mfa_sms_setup"
           Hash == n.password_hash = u.password_hash
           Lock == u.locked_until > t => n.locked_until = u.locked_until
           Same == n.failed_login_attempts = u.failed_login_attempts
           More == n.failed_login_attempts = u.failed_login_attempts + 1
           None0 == n.failed_login_attempts = 0
<1>3. ASSUME EditsRow(u, n) PROVE Keeps /\ Hash /\ Lock /\ Same
  <2>1. CASE n = [u EXCEPT !.is_email_verified = TRUE]
    BY <2>1 DEF Row
  <2>2. ASSUME NEW s, n = [u EXCEPT !.mfa_secret = s] PROVE Keeps /\ Hash /\ Lock /\ Same
    BY <2>2 DEF Row
  <2>3. CASE n = [u EXCEPT !.mfa_enabled = FALSE, !.mfa_secret = None, !.mfa_type = None]
    BY <2>3 DEF Row
  <2>4. ASSUME NEW name, NEW c \in Contacts \cup {u.contact}, n = [u EXCEPT !.name = name, !.contact = c]
        PROVE  Keeps /\ Hash /\ Lock /\ Same
    <3>1. /\ n.contact = c /\ n.mfa_enabled = u.mfa_enabled /\ n.mfa_type = u.mfa_type /\ Hash /\ Same
          /\ n.locked_until = u.locked_until
      BY <2>4 DEF Row
    <3>2. c = u.contact \/ c # None
      BY UserEntityAssumption
    <3> QED BY <3>1, <3>2
  <2>5. ASSUME NEW a, n = [u EXCEPT !.is_active = a] PROVE Keeps /\ Hash /\ Lock /\ Same
    BY <2>5 DEF Row
  <2> HIDE DEF Keeps, Hash, Lock, Same
  <2> QED BY <1>3, <2>1, <2>2, <2>3, <2>4, <2>5 DEF EditsRow
<1>4. ASSUME CountsAttempt(u, t, n) PROVE Keeps /\ Hash /\ Lock /\ More
  <2>0. PICK s \in 0..t : /\ u.locked_until <= s
                         /\ \E l : n = [u EXCEPT !.failed_login_attempts = u.failed_login_attempts + 1,
                                                 !.locked_until = l]
    BY <1>4 DEF CountsAttempt
  <2>1. PICK l : n = [u EXCEPT !.failed_login_attempts = u.failed_login_attempts + 1,
                               !.locked_until = l]
    BY <2>0
  <2>2. Keeps /\ Hash /\ More
    BY <2>1 DEF Row
  <2>3. ~(u.locked_until > t)
    BY <1>2, <2>0
  <2> QED BY <2>2, <2>3
<1>5. ASSUME ClearsAttempts(u, t, n) PROVE Keeps /\ Hash /\ Lock /\ None0
  <2>1. PICK s \in 0..t : u.locked_until <= s
    BY <1>5 DEF ClearsAttempts
  <2>2. Keeps /\ Hash /\ None0
    BY <1>5 DEF ClearsAttempts, Row
  <2>3. ~(u.locked_until > t)
    BY <1>2, <2>1
  <2> QED BY <2>2, <2>3
<1>6. ASSUME SetsPassword(u, recent, r, n) PROVE Keeps /\ Lock /\ Same
  BY <1>6 DEF SetsPassword, Row
<1>7. ASSUME ClosesAccount(u, n) PROVE Keeps /\ Hash /\ Lock /\ Same
  BY <1>7 DEF ClosesAccount, Row
<1>8. ASSUME TurnsOn(u, r, n) PROVE Keeps /\ Hash /\ Lock /\ Same
  <2>1. PICK type \in MfaTypes : /\ n = [u EXCEPT !.mfa_enabled = TRUE, !.mfa_type = type]
                                 /\ type = "sms" => \/ u.contact # None
                                                    \/ "otp_get" \in C /\ r.ns = "mfa_sms_setup"
    BY <1>8 DEF TurnsOn
  <2>2. /\ n.contact = u.contact /\ n.mfa_type = type /\ Hash /\ Same
        /\ n.locked_until = u.locked_until
    BY <2>1 DEF Row
  <2> QED BY <2>1, <2>2
<1>9. \/ "history_insert" \notin C /\ EditsRow(u, n)
      \/ "history_insert" \notin C /\ r.op = "login" /\ (CountsAttempt(u, t, n) \/ ClearsAttempts(u, t, n))
      \/ "history_insert" \in C /\ SetsPassword(u, recent, r, n)
      \/ "history_insert" \notin C /\ ClosesAccount(u, n)
      \/ "history_insert" \notin C /\ TurnsOn(u, r, n)
  BY <1>1 DEF Intends
<1> DEFINE All == /\ Keeps /\ Lock
                  /\ Same \/ More \/ (None0 /\ r.op = "login")
                  /\ "history_insert" \notin C => Hash
                  /\ "history_insert" \in C => SetsPassword(u, recent, r, n)
<1>10. All
  <2> HIDE DEF Keeps, Hash, Lock, Same, More, None0, C
  <2> QED BY <1>3, <1>4, <1>5, <1>6, <1>7, <1>8, <1>9
<1> QED BY <1>1, <1>10

\* Calls that come together.
LEMMA PairCalls ==
    ASSUME NEW t, Linked(t)
    PROVE  /\ "history_insert" \in CallsOf(t) => "history_list" \in CallsOf(t)
           /\ "codes_delete" \in CallsOf(t) => "codes_create" \in CallsOf(t)
           /\ "blacklist_each" \in CallsOf(t) => "sessions_off" \in CallsOf(t)
  BY DEF Linked, Pair, CallsOf

\* The last of the hashes replaced.
LEMMA ReplacedLast ==
    ASSUME replaced \in Seq(Hashes), NEW h \in Hashes
    PROVE  Replaced(h) # <<>> /\ Replaced(h)[Len(Replaced(h))] = h
<1>1. PICK all : all = Append(replaced, h)
  OBVIOUS
<1>2. /\ all \in Seq(Hashes) /\ Len(all) = Len(replaced) + 1 /\ all[Len(all)] = h
      /\ Len(replaced) \in Nat /\ all # <<>>
  BY <1>1
<1>3. CASE Len(all) <= HistoryLimit
  BY <1>1, <1>2, <1>3 DEF Replaced
<1>4. CASE ~(Len(all) <= HistoryLimit)
  <2>1. Replaced(h) = Tail(all)
    BY <1>1, <1>4 DEF Replaced
  <2>2. Len(replaced) > 0
    BY <1>2, <1>4, HistoryAssumption
  <2>3. /\ Tail(all) \in Seq(Hashes) /\ Len(Tail(all)) = Len(replaced)
        /\ Tail(all)[Len(replaced)] = all[Len(replaced) + 1]
    BY <1>2, <2>2
  <2> QED BY <1>2, <2>1, <2>2, <2>3
<1> QED BY <1>3, <1>4

\* A number or an e-mail address to send a code to.
ContactInv == (otp["mfa_sms_setup"] # 0 => row.contact # None) /\ SmsHasContact

\* A request that goes on holds.
LEMMA OnwardHolds ==
    ASSUME IInv, OrderlyInv, HeldInv, ContactInv, NEW w \in Workers, Call(w),
           NEW n, req' = [req EXCEPT ![w] = n], Moved(req[w], n), Passed(req[w]),
           req[w].todo # <<>>
    PROVE  Held(n)'
<1>1. PICK r : r = req[w]
  OBVIOUS
<1>2. PICK h : h = Head(r.todo)
  OBVIOUS
<1>3. PICK C : C = CallsOf(r.todo)
  OBVIOUS
<1>4. PICK D : D = CallsOf(n.todo)
  OBVIOUS
<1>5. r \in Request /\ r.todo \in Seq(Calls) /\ r.todo # <<>> /\ Held(r) /\ Linked(r.todo)
  BY <1>1 DEF IInv, TypeOK, HeldInv, OrderlyInv, Orderly, Ordered, Request
<1>6. n.todo = Tail(r.todo) /\ Steady(r.todo)
  BY <1>1, <1>5 DEF Moved, Held
<1>7. /\ h \in C /\ D = C \ {h} /\ Steady(n.todo)
      /\ \A c \in D : Rank(h) < Rank(c)
      /\ "update" \in C => h \in Prior \cup {"update"}
      /\ h = "update" => C \cap Prior = {}
  BY <1>2, <1>3, <1>4, <1>5, <1>6, TailCalls
<1>8. Passed(r) /\ Moved(r, n)
  BY <1>1
<1>9. /\ h # "update" => row' = row /\ replaced' = replaced
      /\ h # "issue" => outstanding' = outstanding
      /\ h \notin {"history_insert", "history_prune"} => history' = history
      /\ h \notin {"codes_delete", "codes_create", "code_save"} => code_rows' = code_rows /\ used' = used
      /\ now' = now
  BY <1>1, <1>2, CallWrites
<1>10. /\ h = "update" => UpdateUser(w)
       /\ h = "codes_delete" => code_rows' = {}
  <2>1. h = "codes_delete" => CodesDelete(w)
    <3>1. h = "codes_delete" => AtCall(w, "codes_delete")
      BY <1>1, <1>2, <1>5 DEF AtCall
    <3> QED BY <3>1, CallIs
  <2>2. h = "update" => UpdateUser(w)
    BY <1>1, <1>2, CallIsAlso
  <2> QED BY <2>1, <2>2 DEF CodesDelete, DeleteCodes
<1>11. /\ h \notin {"history_insert", "history_prune"} =>
             RecentHashes' = RecentHashes /\ IdsToKeep' = IdsToKeep
       /\ h \notin {"codes_delete", "codes_create", "code_save"} => Unused' = Unused
  BY <1>9 DEF RecentHashes, IdsToKeep, Unused
<1>12. ASSUME NEW c \in D PROVE n.todo # <<>>
  BY <1>4, <1>12 DEF CallsOf
<1>13. Apart(C) /\ ("history_insert" \in C => "history_list" \in C)
       /\ ("codes_delete" \in C => "codes_create" \in C)
  BY <1>3, <1>5, PairCalls DEF Held
<1>14. ~(Rank("history_list") < Rank("history_insert"))
       /\ ~(Rank("codes_delete") < Rank("history_insert"))
       /\ ~(Rank("history_prune") < Rank("history_list"))
  BY DEF Rank
<1>15. Apart(D)
  <2>1. C \cap Single # {} => C \cap {"blacklist_each", "sessions_off", "codes_create"} = {}
    BY <1>13 DEF Apart
  <2>2. ~({"blacklist_each", "codes_create"} \subseteq C)
    BY <1>13 DEF Apart
  <2>3. C \cap {"codes_find", "code_save"} # {} => "update" \notin C
    BY <1>13 DEF Apart
  <2>4. D \cap Prior # {} /\ D \cap {"blacklist_each", "codes_create", "history_insert"} # {}
           => "update" \in D
    <3> SUFFICES ASSUME D \cap Prior # {},
                        D \cap {"blacklist_each", "codes_create", "history_insert"} # {}
                 PROVE  "update" \in D
      OBVIOUS
    <3>1. C \cap Prior # {} /\ C \cap {"blacklist_each", "codes_create", "history_insert"} # {}
      BY <1>7
    <3>2. "update" \in C
      BY <1>13, <3>1 DEF Apart
    <3> QED BY <1>7, <3>1, <3>2
  <2> QED BY <1>7, <2>1, <2>2, <2>3, <2>4 DEF Apart
<1>16. Row = Row /\ row \in Row /\ now \in Nat /\ replaced \in Seq(Hashes)
  BY DEF IInv, TypeOK, HistoryTypeOK, Hashes
<1>17. "update" \in C => Intends(row, now, RecentHashes, r)
  BY <1>3, <1>5 DEF Held
<1>18. h = "update" => row' = Written(row, r)
  BY <1>1, <1>10 DEF UpdateUser, Written
<1>19. Written(row, r) = RepoUpdate(row, r.entity)
  BY DEF Written
<1>20. ASSUME "update" \in D
       PROVE  /\ h \in Prior /\ row' = row /\ now' = now /\ RecentHashes' = RecentHashes
              /\ n.entity = r.entity /\ n.op = r.op /\ n.old = r.old /\ n.new = r.new /\ n.ns = r.ns
              /\ Written(row, n) = Written(row, r)
  <2>1. h \in Prior
    BY <1>7, <1>20
  <2>2. n.todo # <<>>
    BY <1>12, <1>20
  <2>3. /\ n.entity = r.entity /\ n.op = r.op /\ n.old = r.old /\ n.new = r.new /\ n.ns = r.ns
    BY <1>2, <1>8, <2>1, <2>2 DEF Moved, Prior
  <2> QED BY <1>9, <1>11, <2>1, <2>3 DEF Prior, Written
<1>21. ASSUME "update" \in D PROVE Intends(row', now', RecentHashes', n)
  <2>1. PICK u : u = Written(row, r)
    OBVIOUS
  <2>2. /\ "blacklist_each" \in C <=> "blacklist_each" \in D
        /\ "codes_create" \in C <=> "codes_create" \in D
        /\ "history_insert" \in C <=> "history_insert" \in D
    BY <1>7, <1>20, <1>21 DEF Prior
  <2>3. ASSUME SetsPassword(row, RecentHashes, r, u) PROVE SetsPassword(row, RecentHashes, n, u)
    <3>1. "history_check" \notin D => r.new \notin RecentHashes
      <4>1. CASE h = "history_check"
        BY <1>2, <1>8, <4>1 DEF Passed
      <4>2. CASE h # "history_check"
        BY <1>3, <1>7, <2>3, <4>2 DEF SetsPassword
      <4> QED BY <4>1, <4>2
    <3> QED BY <1>4, <1>20, <1>21, <2>3, <3>1 DEF SetsPassword
  <2>4. ASSUME TurnsOn(row, r, u) PROVE TurnsOn(row, n, u)
    <3>1. "otp_get" \in C /\ r.ns = "mfa_sms_setup" =>
             row.contact # None \/ ("otp_get" \in D /\ n.ns = "mfa_sms_setup")
      <4>1. CASE h = "otp_get"
        BY <1>2, <1>8, <4>1 DEF Passed, Matches, ContactInv
      <4>2. CASE h # "otp_get"
        BY <1>7, <1>20, <1>21, <4>2
      <4> QED BY <4>1, <4>2
    <3> QED BY <1>3, <1>4, <2>4, <3>1 DEF TurnsOn
  <2>5. Intends(row, now, RecentHashes, r)
    BY <1>7, <1>17, <1>21
  <2>6. /\ r.op \in PasswordOps <=> "history_insert" \in C
        /\ \/ /\ {"blacklist_each", "codes_create", "history_insert"} \cap C = {}
              /\ \/ EditsRow(row, u)
                 \/ /\ r.op = "login" /\ Prior \cap C = {}
                    /\ CountsAttempt(row, now, u) \/ ClearsAttempts(row, now, u)
           \/ {"blacklist_each", "history_insert"} \subseteq C /\ SetsPassword(row, RecentHashes, r, u)
           \/ "blacklist_each" \in C /\ "history_insert" \notin C /\ ClosesAccount(row, u)
           \/ "codes_create" \in C /\ "history_insert" \notin C /\ TurnsOn(row, r, u)
    BY <1>3, <2>1, <2>5 DEF Intends
  <2>7. /\ n.op \in PasswordOps <=> "history_insert" \in D
        /\ \/ /\ {"blacklist_each", "codes_create", "history_insert"} \cap D = {}
              /\ \/ EditsRow(row, u)
                 \/ /\ n.op = "login" /\ Prior \cap D = {}
                    /\ CountsAttempt(row, now, u) \/ ClearsAttempts(row, now, u)
           \/ {"blacklist_each", "history_insert"} \subseteq D /\ SetsPassword(row, RecentHashes, n, u)
           \/ "blacklist_each" \in D /\ "history_insert" \notin D /\ ClosesAccount(row, u)
           \/ "codes_create" \in D /\ "history_insert" \notin D /\ TurnsOn(row, n, u)
    <3> HIDE DEF SetsPassword, TurnsOn, EditsRow, CountsAttempt, ClearsAttempts, ClosesAccount
    <3> QED BY <1>7, <1>20, <1>21, <2>2, <2>3, <2>4, <2>6
  <2>8. Intends(row, now, RecentHashes, n)
    BY <1>4, <1>20, <1>21, <2>1, <2>7 DEF Intends
  <2> QED BY <1>20, <1>21, <2>8
<1>22. ASSUME "issue" \in C, "update" \in C PROVE ClearsAttempts(row, now, Written(row, r))
  BY <1>3, <1>5, <1>22 DEF Held
<1>23. "issue" \in D /\ "user_active" \notin D => row'.is_active \/ row'.mfa_enabled
  <2> SUFFICES ASSUME "issue" \in D, "user_active" \notin D PROVE row'.is_active \/ row'.mfa_enabled
    OBVIOUS
  <2>1. CASE h = "update"
    <3>1. ClearsAttempts(row, now, row')
      BY <1>7, <1>18, <1>22, <2>1
    <3>2. row'.is_active
      BY <1>16, <3>1 DEF ClearsAttempts, Row
    <3> QED BY <3>2
  <2>2. CASE h # "update"
    <3>1. "user_active" \notin C => row.is_active \/ row.mfa_enabled
      BY <1>3, <1>5, <1>7 DEF Held
    <3>2. "user_active" \in C => row.is_active
      BY <1>2, <1>7, <1>8 DEF Passed
    <3> QED BY <1>9, <2>2, <3>1, <3>2
  <2> QED BY <2>1, <2>2
<1>24. "issue" \in D /\ "update" \in D => ClearsAttempts(row', now', Written(row', n))
  BY <1>7, <1>20, <1>22
<1>25. "code_save" \in D => row'.mfa_enabled /\ ("codes_find" \in D \/ n.backup \in Unused')
  <2> SUFFICES ASSUME "code_save" \in D
               PROVE  row'.mfa_enabled /\ ("codes_find" \in D \/ n.backup \in Unused')
    OBVIOUS
  <2>1. h \notin {"update", "codes_delete", "codes_create", "code_save"}
    BY <1>7, <1>13 DEF Apart, Single
  <2>2. n.backup = r.backup
    BY <1>8, <1>12 DEF Moved
  <2>3. row.mfa_enabled /\ ("codes_find" \in C \/ r.backup \in Unused)
    BY <1>3, <1>5, <1>7 DEF Held
  <2>4. h = "codes_find" => r.backup \in Unused
    BY <1>2, <1>8 DEF Passed
  <2> QED BY <1>7, <1>9, <1>11, <2>1, <2>2, <2>3, <2>4
<1>26. D \cap {"blacklist_each", "sessions_off"} # {}
          => "tokens_query" \in D \/ n.seen = outstanding'
  <2> SUFFICES ASSUME D \cap {"blacklist_each", "sessions_off"} # {}
               PROVE  "tokens_query" \in D \/ n.seen = outstanding'
    OBVIOUS
  <2>1. h # "issue"
    BY <1>7, <1>13 DEF Apart, Single
  <2>2. IF h = "tokens_query" THEN n.seen = outstanding ELSE n.seen = r.seen
    BY <1>2, <1>8, <1>12 DEF Moved
  <2>3. "tokens_query" \in C \/ r.seen = outstanding
    BY <1>3, <1>5, <1>7 DEF Held
  <2> QED BY <1>7, <1>9, <2>1, <2>2, <2>3
<1>27. "codes_create" \in D => "codes_delete" \in D \/ code_rows' = {}
  <2> SUFFICES ASSUME "codes_create" \in D PROVE "codes_delete" \in D \/ code_rows' = {}
    OBVIOUS
  <2>1. h \notin {"code_save", "codes_create"}
    BY <1>7, <1>13 DEF Apart, Single
  <2>2. "codes_delete" \in C \/ code_rows = {}
    BY <1>3, <1>5, <1>7 DEF Held
  <2> QED BY <1>7, <1>9, <1>10, <2>1, <2>2
<1>28. "otp_set" \in D /\ n.ns = "mfa_sms_setup" => row'.contact # None
  <2> SUFFICES ASSUME "otp_set" \in D, n.ns = "mfa_sms_setup" PROVE row'.contact # None
    OBVIOUS
  <2>1. n.ns = r.ns
    BY <1>8, <1>12 DEF Moved
  <2>2. row.contact # None
    BY <1>3, <1>5, <1>7, <2>1 DEF Held
  <2>3. CASE h = "update"
    <3>1. PICK recent : recent = RecentHashes
      OBVIOUS
    <3>2. Intends(row, now, recent, r)
      BY <1>7, <1>17, <2>3, <3>1
    <3> QED BY <1>16, <1>18, <2>2, <2>3, <3>2, WrittenRow
  <2> QED BY <1>9, <2>2, <2>3
<1>29. "history_insert" \in D
          => "update" \in D \/ (replaced' # <<>> /\ n.old = replaced'[Len(replaced')])
  <2> SUFFICES ASSUME "history_insert" \in D
               PROVE  "update" \in D \/ (replaced' # <<>> /\ n.old = replaced'[Len(replaced')])
    OBVIOUS
  <2>1. n.old = r.old
    BY <1>8, <1>12 DEF Moved
  <2>2. "update" \in C \/ (replaced # <<>> /\ r.old = replaced[Len(replaced)])
    BY <1>3, <1>5, <1>7 DEF Held
  <2>3. CASE h = "update"
    <3>1. r.op \in PasswordOps /\ SetsPassword(row, RecentHashes, r, Written(row, r))
      BY <1>3, <1>7, <1>17, <2>3 DEF Intends
    <3>2. r.old = row.password_hash /\ row.password_hash \in Hashes
      BY <1>16, <3>1 DEF SetsPassword, Row, Hashes
    <3>3. replaced' = Replaced(row.password_hash)
      BY <1>1, <1>10, <2>3, <3>1 DEF UpdateUser
    <3> QED BY <1>16, <2>1, <3>2, <3>3, ReplacedLast
  <2>4. CASE h # "update"
    BY <1>7, <1>9, <2>1, <2>2, <2>4
  <2> QED BY <2>3, <2>4
<1>30. "history_prune" \in D => "history_list" \in D \/ n.keep = IdsToKeep'
  <2> SUFFICES ASSUME "history_prune" \in D, "history_list" \notin D PROVE n.keep = IdsToKeep'
    OBVIOUS
  <2>1. h # "history_insert"
    BY <1>7, <1>13
  <2>2. h # "history_prune"
    BY <1>7
  <2>3. CASE h = "history_list"
    BY <1>2, <1>8, <1>11, <1>12, <2>1, <2>2, <2>3 DEF Moved
  <2>4. CASE h # "history_list"
    <3>1. r.keep = IdsToKeep
      BY <1>3, <1>5, <1>7, <2>4 DEF Held
    <3> QED BY <1>2, <1>8, <1>11, <1>12, <2>1, <2>2, <2>4, <3>1 DEF Moved
  <2> QED BY <2>3, <2>4
<1> QED BY <1>4, <1>7, <1>15, <1>21, <1>23, <1>24, <1>25, <1>26, <1>27, <1>28, <1>29, <1>30 DEF Held

\* A request that has no call left to make relies on nothing.
LEMMA DoneHolds == ASSUME NEW r, r.todo = <<>> PROVE Held(r) /\ Held(r)'
<1>1. CallsOf(r.todo) = {} /\ Steady(r.todo)
  BY DEF CallsOf, Steady
<1>2. Apart({})
  BY DEF Apart
<1> HIDE DEF Steady, Apart
<1>3. Held(r)
  BY <1>1, <1>2 DEF Held
<1>4. Held(r)'
  BY <1>1, <1>2 DEF Held
<1> QED BY <1>3, <1>4

\* What was intended at one moment is intended at a later one.
LEMMA IntendsLater ==
    ASSUME NEW u, NEW s \in Nat, NEW t \in Nat, s <= t, NEW recent, NEW r, Intends(u, s, recent, r)
    PROVE  Intends(u, t, recent, r)
<1>1. \A x : x \in 0..s => x \in 0..t
  OBVIOUS
<1>2. \A n : CountsAttempt(u, s, n) => CountsAttempt(u, t, n)
  BY <1>1 DEF CountsAttempt
<1>3. \A n : ClearsAttempts(u, s, n) => ClearsAttempts(u, t, n)
  BY <1>1 DEF ClearsAttempts
<1> QED BY <1>2, <1>3 DEF Intends

\* While nothing a request relies on changes, and time passes, it holds.
LEMMA HeldSame ==
    ASSUME NEW r, Held(r), now \in Nat, now' \in Nat, now <= now',
           UNCHANGED <<row, outstanding, code_rows, used, history, replaced>>
    PROVE  Held(r)'
<1>1. RecentHashes' = RecentHashes /\ IdsToKeep' = IdsToKeep /\ Unused' = Unused
  BY DEF RecentHashes, IdsToKeep, Unused
<1>2. "update" \in CallsOf(r.todo) => Intends(row', now', RecentHashes', r)
  <2> SUFFICES ASSUME "update" \in CallsOf(r.todo) PROVE Intends(row', now', RecentHashes', r)
    OBVIOUS
  <2>1. PICK recent : recent = RecentHashes
    OBVIOUS
  <2>2. PICK u : u = row
    OBVIOUS
  <2>3. Intends(u, now, recent, r)
    BY <2>1, <2>2 DEF Held
  <2>4. Intends(u, now', recent, r)
    BY <2>3, IntendsLater
  <2> QED BY <1>1, <2>1, <2>2, <2>4
<1>3. ASSUME NEW u, NEW n, ClearsAttempts(u, now, n) PROVE ClearsAttempts(u, now', n)
  <2>1. \A x : x \in 0..now => x \in 0..now'
    OBVIOUS
  <2> QED BY <1>3, <2>1 DEF ClearsAttempts
<1>4. "issue" \in CallsOf(r.todo) /\ "update" \in CallsOf(r.todo)
         => ClearsAttempts(row', now', Written(row', r))
  BY <1>3 DEF Held
<1> QED BY <1>1, <1>2, <1>4 DEF Held

\* Two requests that differ in nothing a handler decided.
LEMMA HeldAlike ==
    ASSUME NEW r, NEW n, Held(r),
           n.todo = r.todo /\ n.op = r.op /\ n.old = r.old /\ n.new = r.new /\ n.ns = r.ns,
           n.entity = r.entity /\ n.backup = r.backup /\ n.seen = r.seen /\ n.keep = r.keep
    PROVE  Held(n)
<1>1. \A u : Written(u, n) = Written(u, r)
  BY DEF Written
<1>2. \A u, t, recent : Intends(u, t, recent, r) => Intends(u, t, recent, n)
  <2>1. \A u, x : TurnsOn(u, r, x) => TurnsOn(u, n, x)
    BY DEF TurnsOn
  <2>2. \A u, recent, x : SetsPassword(u, recent, r, x) => SetsPassword(u, recent, n, x)
    BY DEF SetsPassword
  <2> QED BY <1>1, <2>1, <2>2 DEF Intends
<1>3. "update" \in CallsOf(r.todo) => Intends(row, now, RecentHashes, n)
  BY <1>2 DEF Held
<1> QED BY <1>1, <1>3 DEF Held

-----------------------------------------------------------------------------
(***************************************************************************)
(* The steps.                                                              *)
(***************************************************************************)

\* The steps there are when requests do not overlap.
LEMMA StepAlone ==
    ASSUME NEW w, Workers = {w}, [Next]_vars
    PROVE  \/ Handle(w) \/ Call(w) \/ Interrupt(w)
           \/ (\E ns \in Namespaces : OtpExpire(ns)) \/ Tick \/ UNCHANGED vars
  BY DEF Next

\* Handlers take no time and list no new session.
LEMMA HandlerNow ==
    ASSUME NEW w \in Workers, Handle(w)
    PROVE  now' = now /\ sessions' \subseteq sessions
  BY DEF Handle, Local, Serve, Fail, accountVars, tokenVars, Authenticate, EndUnchanged,
       LoginWrongPassword, LoginRightPassword, MfaChallenge, SocialAuth, VerifyEmail,
       ResendVerificationOTP, RequestPasswordReset, ConfirmPasswordReset, ChangePassword,
       SetupMFA, EnableMFA, DisableMFA, SetupSMSMFA, EnableSMSMFA, SetupEmailMFA,
       EnableEmailMFA, RegenerateBackupCodes, UpdateProfile, DeleteAccount, GDPRErasure,
       SuspendUser, ActivateUser, Refresh, Logout, RevokeSession, DeactivateSession

\* The request with w's worker put in its place.
LEMMA Placed ==
    ASSUME IInv, NEW w \in Workers, NEW n, req' = [req EXCEPT ![w] = n]
    PROVE  req'[w] = n
  BY DEF IInv, TypeOK

\* What a worker alone with its request relies on stays true.
LEMMA StepHeld ==
    ASSUME IInv, OrderlyInv, HeldInv, ContactInv, TokensInv, NEW w, Workers = {w}, [Next]_vars
    PROVE  HeldInv'
<1>0. w \in Workers /\ now \in Nat
  BY DEF IInv, TypeOK
<1> SUFFICES Held(req[w])'
  BY DEF HeldInv
<1>1. ASSUME NEW n, req' = [req EXCEPT ![w] = n], Held(n)' PROVE Held(req[w])'
  <2>1. req'[w] = n
    BY <1>0, <1>1, Placed
  <2> QED BY <1>1, <2>1 DEF Held
<1>2. ASSUME NEW n, req'[w] = n, Held(n), now' \in Nat, now <= now',
             UNCHANGED <<row, outstanding, code_rows, used, history, replaced>>
      PROVE  Held(req[w])'
  <2>1. Held(n)'
    BY <1>0, <1>2, HeldSame
  <2> QED BY <1>2, <2>1 DEF Held
<1>3. PICK r : r = req[w]
  OBVIOUS
<1>4. Held(r)
  BY <1>0, <1>3 DEF HeldInv
<1>5. Idle.todo = <<>>
  BY DEF Idle
<1>6. CASE Handle(w)
  <2>1. PICK n : req' = [req EXCEPT ![w] = n] /\ Fresh(n)
    BY <1>0, <1>6, HandlerFresh
  <2>2. UNCHANGED <<row, outstanding, code_rows, used, history, replaced, now>>
    BY <1>0, <1>6, HandlerLeaves, HandlerNow DEF historyVars, backupVars
  <2>3. req'[w] = n
    BY <1>0, <2>1, Placed
  <2> QED BY <1>0, <1>2, <2>1, <2>2, <2>3 DEF Fresh
<1>7. CASE Call(w)
  <2>1. r.todo # <<>> /\ (Fail(w) \/ Loops(w) \/ Onward(w))
    BY <1>0, <1>3, <1>7, CallMoves
  <2>2. CASE Fail(w)
    BY <1>1, <1>5, <2>2, DoneHolds DEF Fail, Serve
  <2>3. CASE Onward(w)
    <3>1. PICK n : req' = [req EXCEPT ![w] = n] /\ Moved(req[w], n) /\ Passed(req[w])
      BY <2>3 DEF Onward
    <3>2. Held(n)'
      BY <1>0, <1>3, <1>7, <2>1, <3>1, OnwardHolds
    <3> QED BY <1>1, <3>1, <3>2
  <2>4. CASE Loops(w)
    <3>1. PICK t : req' = [req EXCEPT ![w] = [req[w] EXCEPT !.toks = @ \ {t}]]
      BY <2>4 DEF Loops, Serve
    <3>2. PICK n : n = [r EXCEPT !.toks = @ \ {t}]
      OBVIOUS
    <3>3. req'[w] = n
      BY <1>0, <1>3, <3>1, <3>2, Placed
    <3>4. /\ n.todo = r.todo /\ n.op = r.op /\ n.old = r.old /\ n.new = r.new /\ n.ns = r.ns
          /\ n.entity = r.entity /\ n.backup = r.backup /\ n.seen = r.seen /\ n.keep = r.keep
      BY <1>0, <1>3, <3>2 DEF IInv, TypeOK, Request
    <3>5. Held(n)
      BY <1>4, <3>4, HeldAlike
    <3>6. UNCHANGED <<row, outstanding, code_rows, used, history, replaced, now>>
      <4>1. Head(req[w].todo) = "blacklist_each"
        BY <2>4 DEF Loops, AtCall
      <4> QED BY <1>0, <1>7, <4>1, CallWrites
    <3> QED BY <1>0, <1>2, <3>3, <3>5, <3>6
  <2> QED BY <2>1, <2>2, <2>3, <2>4
<1>8. CASE Interrupt(w)
  BY <1>1, <1>5, <1>8, DoneHolds DEF Interrupt
<1>9. CASE \E ns \in Namespaces : OtpExpire(ns)
  <2>1. UNCHANGED <<row, outstanding, code_rows, used, history, replaced, now, req>>
    BY <1>9 DEF OtpExpire, accountVars, tokenVars, historyVars, backupVars
  <2> QED BY <1>0, <1>2, <1>3, <1>4, <2>1
<1>10. CASE Tick
  <2>1. UNCHANGED <<row, outstanding, code_rows, used, history, replaced, req>> /\ now' = now + 1
    BY <1>10 DEF Tick, tokenVars, historyVars, backupVars
  <2>2. now' \in Nat /\ now <= now'
    BY <1>0, <2>1
  <2> QED BY <1>2, <1>3, <1>4, <2>1, <2>2
<1>11. CASE UNCHANGED vars
  <2>1. UNCHANGED <<row, outstanding, code_rows, used, history, replaced, now, req>>
    BY <1>11 DEF vars, accountVars, tokenVars, historyVars, backupVars
  <2> QED BY <1>0, <1>2, <1>3, <1>4, <2>1
<1> QED BY <1>6, <1>7, <1>8, <1>9, <1>10, <1>11, StepAlone

\* A handler runs between two requests.
LEMMA HandlerRests == ASSUME NEW w \in Workers, Handle(w) PROVE req[w].op \in AtRest
  BY DEF Handle, AtRest, Open, Authed, Authenticate, EndUnchanged,
       LoginWrongPassword, LoginRightPassword, MfaChallenge, SocialAuth, VerifyEmail,
       ResendVerificationOTP, RequestPasswordReset, ConfirmPasswordReset, ChangePassword,
       SetupMFA, EnableMFA, DisableMFA, SetupSMSMFA, EnableSMSMFA, SetupEmailMFA,
       EnableEmailMFA, RegenerateBackupCodes, UpdateProfile, DeleteAccount, GDPRErasure,
       SuspendUser, ActivateUser, Refresh, Logout, RevokeSession

\* The tables and the request name tokens that have been issued, still.
LEMMA StepTokens ==
    ASSUME IInv, HeldInv, TokensInv, NEW w, Workers = {w}, [Next]_vars
    PROVE  TokensInv'
<1> DEFINE Named(r) == /\ r.jti \in 0..outstanding' /\ r.issued \in 0..outstanding'
                       /\ r.toks \subseteq 1..outstanding'
<1>0. w \in Workers /\ outstanding \in Nat
  BY TokenAssumption DEF IInv, TypeOK, TokenTypeOK
<1>1. PICK r : r = req[w]
  OBVIOUS
<1>2. /\ r.jti \in 0..outstanding /\ r.issued \in 0..outstanding /\ r.toks \subseteq 1..outstanding
      /\ blacklisted \subseteq 0..outstanding /\ sessions \subseteq 0..outstanding
  BY <1>0, <1>1 DEF TokensInv
<1>3. ASSUME blacklisted' \subseteq 0..outstanding', sessions' \subseteq 0..outstanding',
             Named(req'[w])
      PROVE  TokensInv'
  BY <1>3 DEF TokensInv
<1>4. ASSUME NEW n, req' = [req EXCEPT ![w] = n], Named(n) PROVE Named(req'[w])
  BY <1>0, <1>4, Placed
<1>5. outstanding' = outstanding => Named(Idle) /\ Named(r)
  <2>1. Idle.jti = 0 /\ Idle.issued = 0 /\ Idle.toks = {}
    BY DEF Idle
  <2> QED BY <1>0, <1>2, <2>1
<1>6. CASE Handle(w)
  <2>1. PICK n : req' = [req EXCEPT ![w] = n] /\ Fresh(n)
    BY <1>0, <1>6, HandlerFresh
  <2>2. UNCHANGED <<outstanding, blacklisted>> /\ sessions' \subseteq sessions
    BY <1>0, <1>6, HandlerLeaves, HandlerNow
  <2>3. Named(n)
    BY <1>0, <2>1, <2>2 DEF Fresh
  <2>4. Named(req'[w])
    BY <1>4, <2>1, <2>3
  <2> HIDE DEF Named
  <2> QED BY <1>2, <1>3, <2>2, <2>4
<1>7. CASE Call(w)
  <2>1. PICK h : h = Head(r.todo)
    OBVIOUS
  <2>2. /\ h # "issue" => outstanding' = outstanding
        /\ h \notin {"blacklist", "blacklist_each"} => blacklisted' = blacklisted
        /\ h \notin {"session_create", "session_off", "sessions_off"} => sessions' = sessions
    BY <1>0, <1>1, <1>7, <2>1, CallWrites
  <2>3. r.todo # <<>> /\ ((Fail(w) /\ h \in Checks) \/ Loops(w) \/ Onward(w))
    BY <1>0, <1>1, <1>7, <2>1, CallMoves
  <2>4. h = "issue" => outstanding' = outstanding + 1
    BY <1>0, <1>1, <1>7, <2>1, CallIsAlso DEF IssueToken, RecordOutstanding
  <2>5. outstanding' \in Nat /\ outstanding <= outstanding'
    BY <1>0, <2>2, <2>4
  <2>6. blacklisted' \subseteq 0..outstanding
    <3>1. CASE h = "blacklist"
      <4>1. BlacklistToken(w)
        BY <1>0, <1>1, <1>7, <2>1, <3>1, CallIsAlso
      <4> QED BY <1>1, <1>2, <4>1 DEF BlacklistToken, Blacklist
    <3>2. CASE h = "blacklist_each"
      <4>1. BlacklistEach(w)
        BY <1>0, <1>1, <1>7, <2>1, <2>3, <3>2, CallIs DEF AtCall
      <4>2. 1..outstanding \subseteq 0..outstanding
        BY <1>0
      <4> QED BY <1>1, <1>2, <4>1, <4>2 DEF BlacklistEach, Blacklist, tokenVars
    <3> QED BY <1>2, <2>2, <3>1, <3>2
  <2>7. sessions' \subseteq 0..outstanding
    <3>1. CASE h = "session_create"
      BY <1>0, <1>1, <1>2, <1>7, <2>1, <3>1, CallIsAlso DEF SessionCreate, CreateSession
    <3>2. CASE h = "session_off"
      BY <1>0, <1>1, <1>2, <1>7, <2>1, <3>2, CallIsAlso DEF SessionOff, DeactivateSession
    <3>3. CASE h = "sessions_off"
      BY <1>0, <1>1, <1>2, <1>7, <2>1, <3>3, CallIsAlso DEF SessionsOff, DeactivateAllSessions
    <3> QED BY <1>2, <2>2, <3>1, <3>2, <3>3
  <2>8. 0..outstanding \subseteq 0..outstanding' /\ 1..outstanding \subseteq 1..outstanding'
    BY <1>0, <2>5
  <2>9. Named(req'[w])
    <3>1. CASE Fail(w) /\ h \in Checks
      <4>1. outstanding' = outstanding
        BY <2>2, <3>1 DEF Checks
      <4> QED BY <1>4, <1>5, <3>1, <4>1 DEF Fail, Serve
    <3>2. CASE Loops(w)
      <4>1. PICK t : req' = [req EXCEPT ![w] = [req[w] EXCEPT !.toks = @ \ {t}]]
        BY <3>2 DEF Loops, Serve
      <4>2. PICK n : n = [r EXCEPT !.toks = @ \ {t}]
        OBVIOUS
      <4>3. n.jti = r.jti /\ n.issued = r.issued /\ n.toks \subseteq r.toks
        BY <1>0, <1>1, <4>2 DEF IInv, TypeOK, Request
      <4>4. Named(n)
        BY <1>2, <2>8, <4>3
      <4> QED BY <1>1, <1>4, <4>1, <4>2, <4>4
    <3>3. CASE Onward(w)
      <4>1. PICK n : req' = [req EXCEPT ![w] = n] /\ Moved(r, n)
        BY <1>1, <3>3 DEF Onward
      <4>2. CASE n.todo = <<>>
        <5>1. n = Idle
          BY <4>1, <4>2 DEF Moved
        <5>2. 0 \in 0..outstanding'
          BY <2>5
        <5>3. Idle.jti = 0 /\ Idle.issued = 0 /\ Idle.toks = {}
          BY DEF Idle
        <5>4. Named(n)
          BY <5>1, <5>2, <5>3
        <5> QED BY <1>4, <4>1, <5>4
      <4>3. CASE n.todo # <<>>
        <5>1. /\ n.jti = r.jti
              /\ n.issued = IF h = "issue" THEN outstanding + 1 ELSE r.issued
              /\ IF h = "tokens_query" THEN n.toks = Outstanding ELSE n.toks = r.toks
          BY <2>1, <4>1, <4>3 DEF Moved
        <5>2. n.issued \in 0..outstanding'
          BY <1>0, <1>2, <2>4, <2>8, <5>1
        <5>3. n.toks \subseteq 1..outstanding'
          BY <1>2, <2>8, <5>1 DEF Outstanding
        <5>4. Named(n)
          BY <1>2, <2>8, <5>1, <5>2, <5>3
        <5> QED BY <1>4, <4>1, <5>4
      <4> QED BY <4>2, <4>3
    <3> QED BY <2>3, <3>1, <3>2, <3>3
  <2> HIDE DEF Named
  <2> QED BY <1>3, <2>6, <2>7, <2>8, <2>9
<1>8. CASE Interrupt(w)
  <2>1. UNCHANGED <<outstanding, blacklisted, sessions>> /\ req' = [req EXCEPT ![w] = Idle]
    BY <1>8 DEF Interrupt, tokenVars
  <2> QED BY <1>2, <1>3, <1>4, <1>5, <2>1
<1>9. CASE (\E ns \in Namespaces : OtpExpire(ns)) \/ Tick \/ UNCHANGED vars
  <2>1. UNCHANGED <<outstanding, blacklisted, sessions, req>>
    BY <1>9 DEF OtpExpire, Tick, vars, tokenVars
  <2> QED BY <1>1, <1>2, <1>3, <1>5, <2>1
<1> QED BY <1>6, <1>7, <1>8, <1>9, StepAlone

-----------------------------------------------------------------------------
(***************************************************************************)
(* Backup codes.                                                           *)
(***************************************************************************)

\* The codes stored are one set of those generated, and what can be redeemed
\* has not been.
SetsInv ==
    /\ code_rows \subseteq (1..sets) \X (1..CodesPerUser)
    /\ \A c, d \in code_rows : c[1] = d[1]
    /\ \A c \in AllCodes : redeemed[c] <= 1 /\ ((c \in Unused \/ c[1] > sets) => redeemed[c] = 0)

\* Calls and handlers keep the stored codes one set, each good for once.
LEMMA StepSets ==
    ASSUME IInv, HeldInv, SetsInv, NEW w, Workers = {w}, [Next]_vars
    PROVE  SetsInv'
<1>0. /\ w \in Workers /\ sets \in Nat /\ code_rows \subseteq AllCodes /\ used \subseteq code_rows
      /\ redeemed \in [AllCodes -> Nat]
  BY BackupAssumption DEF IInv, TypeOK, BackupTypeOK
<1>1. CASE UNCHANGED <<code_rows, used, sets, redeemed>>
  BY <1>1 DEF SetsInv, Unused
<1>2. CASE Handle(w) \/ Interrupt(w) \/ (\E ns \in Namespaces : OtpExpire(ns)) \/ Tick
           \/ UNCHANGED vars
  <2>1. UNCHANGED backupVars
    BY <1>0, <1>2, HandlerLeaves DEF Interrupt, OtpExpire, Tick, vars
  <2> QED BY <1>1, <2>1 DEF backupVars
<1>3. CASE Call(w)
  <2>1. PICK r, h : r = req[w] /\ h = Head(r.todo)
    OBVIOUS
  <2>2. /\ r.todo # <<>> /\ r.todo \in Seq(Calls) /\ Held(r)
    BY <1>0, <1>3, <2>1, CallMoves DEF IInv, TypeOK, Request, HeldInv
  <2>3. /\ h \notin {"codes_delete", "codes_create", "code_save"} => UNCHANGED <<code_rows, used, redeemed>>
        /\ h # "codes_create" => UNCHANGED sets
    BY <1>0, <1>3, <2>1, CallWrites
  <2>4. h \in CallsOf(r.todo) /\ (\A c \in CallsOf(r.todo) : c = h \/ Rank(h) < Rank(c))
    <3>1. Steady(r.todo)
      BY <2>2 DEF Held
    <3> QED BY <2>1, <2>2, <3>1, TailCalls
  <2>5. CASE h = "codes_delete"
    <3>1. CodesDelete(w)
      BY <1>0, <1>3, <2>1, <2>2, <2>5, CallIs DEF AtCall
    <3>2. code_rows' = {} /\ used' = {} /\ sets' = sets /\ redeemed' = redeemed
      BY <3>1 DEF CodesDelete, DeleteCodes
    <3> QED BY <3>2 DEF SetsInv, Unused
  <2>6. CASE h = "codes_create"
    <3>1. CodesCreate(w)
      BY <1>0, <1>3, <2>1, <2>2, <2>6, CallIs DEF AtCall
    <3>2. "codes_delete" \notin CallsOf(r.todo)
      BY <2>4, <2>6 DEF Rank
    <3>3. code_rows = {} /\ used = {}
      BY <1>0, <2>2, <2>4, <2>6, <3>2 DEF Held
    <3>4. /\ code_rows' = {sets + 1} \X (1..CodesPerUser) /\ used' = {} /\ sets' = sets + 1
          /\ redeemed' = redeemed
      BY <3>1, <3>3 DEF CodesCreate, CreateCodes
    <3>5. sets + 1 \in 1..(sets + 1)
      BY <1>0
    <3>6. code_rows' \subseteq (1..sets') \X (1..CodesPerUser) /\ (\A c, d \in code_rows' : c[1] = d[1])
      BY <3>4, <3>5
    <3>7. ASSUME NEW c \in AllCodes
          PROVE  redeemed'[c] <= 1 /\ ((c \in Unused' \/ c[1] > sets') => redeemed'[c] = 0)
      <4>1. c \in Unused' \/ c[1] > sets' => c[1] > sets
        <5>1. c[1] \in Nat
          BY DEF AllCodes
        <5>2. c \in Unused' => c[1] = sets + 1
          BY <3>4 DEF Unused
        <5> QED BY <1>0, <3>4, <5>1, <5>2
      <4> QED BY <3>4, <4>1 DEF SetsInv
    <3> QED BY <3>6, <3>7 DEF SetsInv
  <2>7. CASE h = "code_save"
    <3>1. CodeSave(w)
      BY <1>0, <1>3, <2>1, <2>7, CallIsAlso
    <3>2. "codes_find" \notin CallsOf(r.todo)
      BY <2>4, <2>7 DEF Rank
    <3>3. PICK b : b = r.backup
      OBVIOUS
    <3>4. b \in Unused
      BY <2>2, <2>4, <2>7, <3>2, <3>3 DEF Held
    <3>5. /\ used' = used \cup {b} /\ redeemed' = [redeemed EXCEPT ![b] = @ + 1]
          /\ code_rows' = code_rows /\ sets' = sets
      BY <2>1, <3>1, <3>3, <3>4 DEF CodeSave, Saveable, MarkUsed, Unused
    <3>6. b \in AllCodes /\ b[1] \in 1..sets /\ redeemed[b] = 0
      BY <1>0, <3>4 DEF Unused, SetsInv
    <3>7. ASSUME NEW c \in AllCodes
          PROVE  redeemed'[c] <= 1 /\ ((c \in Unused' \/ c[1] > sets') => redeemed'[c] = 0)
      <4>1. CASE c = b
        BY <1>0, <3>5, <3>6, <4>1 DEF Unused
      <4>2. CASE c # b
        <5>1. redeemed'[c] = redeemed[c] /\ (c \in Unused' => c \in Unused)
          BY <1>0, <3>5, <4>2 DEF Unused
        <5> QED BY <3>5, <5>1 DEF SetsInv
      <4> QED BY <4>1, <4>2
    <3> QED BY <3>5, <3>7 DEF SetsInv
  <2> QED BY <1>1, <2>3, <2>5, <2>6, <2>7
<1> QED BY <1>2, <1>3, StepAlone

-----------------------------------------------------------------------------
(***************************************************************************)
(* The phone number, and the count of failed logins.                       *)
(***************************************************************************)

\* What an alone request's write of the row is.
LEMMA UpdateWrites ==
    ASSUME IInv, HeldInv, NEW w \in Workers, UpdateUser(w)
    PROVE  /\ Intends(row, now, RecentHashes, req[w]) /\ row' = Written(row, req[w])
           /\ CallsOf(req[w].todo) \cap Prior = {} /\ "update" \in CallsOf(req[w].todo)
<1>1. /\ req[w].todo # <<>> /\ Head(req[w].todo) = "update" /\ req[w].todo \in Seq(Calls)
      /\ Held(req[w])
  BY DEF IInv, TypeOK, Request, HeldInv, UpdateUser, AtCall
<1>2. Steady(req[w].todo)
  BY <1>1 DEF Held
<1>3. "update" \in CallsOf(req[w].todo) /\ CallsOf(req[w].todo) \cap Prior = {}
  BY <1>1, <1>2, TailCalls
<1> QED BY <1>1, <1>3 DEF Held, UpdateUser, Written

\* Codes go to a number, and the second factor has one.
LEMMA StepContact ==
    ASSUME IInv, HeldInv, ContactInv, NEW w, Workers = {w}, [Next]_vars
    PROVE  ContactInv'
<1> DEFINE ns == "mfa_sms_setup"
<1>0. w \in Workers /\ row \in Row /\ otp \in [Namespaces -> 0..MaxCodes] /\ now \in Nat /\ ns \in Namespaces
  BY DEF IInv, TypeOK, OtpTypeOK, Namespaces
<1>1. ASSUME row' = row, otp'[ns] = otp[ns] \/ otp'[ns] = 0 PROVE ContactInv'
  BY <1>1 DEF ContactInv, SmsHasContact
<1>2. CASE Handle(w) \/ Interrupt(w) \/ Tick \/ UNCHANGED vars
  <2>1. row' = row /\ otp' = otp
    BY <1>0, <1>2, HandlerLeaves DEF Interrupt, Tick, vars, accountVars, otpVars
  <2> QED BY <1>1, <2>1
<1>3. CASE \E x \in Namespaces : OtpExpire(x)
  <2>1. PICK x \in Namespaces : row' = row /\ otp' = [otp EXCEPT ![x] = 0]
    BY <1>3 DEF OtpExpire, Expire, accountVars
  <2> QED BY <1>0, <1>1, <2>1
<1>4. CASE Call(w)
  <2>1. PICK r, h : r = req[w] /\ h = Head(r.todo)
    OBVIOUS
  <2>2. /\ r.todo # <<>> /\ r.todo \in Seq(Calls) /\ Held(r) /\ r.ns \in Namespaces
    BY <1>0, <1>4, <2>1, CallMoves DEF IInv, TypeOK, Request, HeldInv
  <2>3. /\ h # "update" => row' = row
        /\ h \notin {"otp_get", "otp_delete", "otp_set"} => otp' = otp
    BY <1>0, <1>4, <2>1, CallWrites
  <2>4. CASE h = "update"
    <3>1. UpdateUser(w)
      BY <1>0, <1>4, <2>1, <2>4, CallIsAlso
    <3>2. PICK recent : recent = RecentHashes
      OBVIOUS
    <3>3. /\ Intends(row, now, recent, r) /\ row' = Written(row, r)
          /\ CallsOf(r.todo) \cap Prior = {}
      BY <1>0, <2>1, <3>1, <3>2, UpdateWrites
    <3>4. /\ row.contact # None => row'.contact # None
          /\ row'.mfa_enabled /\ row'.mfa_type = "sms"
                     => \/ row.mfa_enabled /\ row.mfa_type = "sms"
                        \/ row'.contact # None
                        \/ "otp_get" \in CallsOf(r.todo) /\ r.ns = "mfa_sms_setup"
      BY <1>0, <3>3, WrittenRow
    <3>5. "otp_get" \notin CallsOf(r.todo)
      BY <3>3 DEF Prior
    <3> QED BY <2>3, <2>4, <3>4, <3>5 DEF ContactInv, SmsHasContact
  <2>5. CASE h = "otp_get"
    <3>1. OtpGet(w)
      BY <1>0, <1>4, <2>1, <2>2, <2>5, CallIs DEF AtCall
    <3>2. otp' = otp
      BY <3>1 DEF OtpGet, Accept, otpVars
    <3> QED BY <1>1, <2>3, <2>5, <3>2
  <2>6. CASE h = "otp_delete"
    <3>1. OtpDelete(w)
      BY <1>0, <1>4, <2>1, <2>2, <2>6, CallIs DEF AtCall
    <3>2. otp' = [otp EXCEPT ![r.ns] = 0]
      BY <2>1, <3>1 DEF OtpDelete, Delete
    <3>3. otp'[ns] = otp[ns] \/ otp'[ns] = 0
      BY <1>0, <2>2, <3>2
    <3> QED BY <1>1, <2>3, <2>6, <3>3
  <2>7. CASE h = "otp_set"
    <3>1. OtpSet(w)
      BY <1>0, <1>4, <2>1, <2>7, CallIsAlso
    <3>2. otp' = [otp EXCEPT ![r.ns] = minted + 1]
      BY <2>1, <3>1 DEF OtpSet, Setex
    <3>3. CASE r.ns = ns
      <4>1. "otp_set" \in CallsOf(r.todo)
        BY <2>1, <2>2, <2>7, TailCalls DEF Held
      <4>2. row.contact # None
        BY <2>2, <3>3, <4>1 DEF Held
      <4> QED BY <2>3, <2>7, <4>2 DEF ContactInv, SmsHasContact
    <3>4. CASE r.ns # ns
      <4>1. otp'[ns] = otp[ns]
        BY <1>0, <2>2, <3>2, <3>4
      <4> QED BY <1>1, <2>3, <2>7, <4>1
    <3> QED BY <3>3, <3>4
  <2> QED BY <1>1, <2>3, <2>4, <2>5, <2>6, <2>7
<1> QED BY <1>2, <1>3, <1>4, StepAlone

\* A request is about to count a failed login.
Counting == \E w \in Workers : Counts(row, req[w])

\* Every wrong password is counted, is about to be, or was cut off.
GuessInv == guesses <= row.failed_login_attempts + interrupted + (IF Counting THEN 1 ELSE 0)

\* A request that counts a failed login writes the row with its next call.
LEMMA CountsNext ==
    ASSUME IInv, HeldInv, NEW w \in Workers, Counts(row, req[w])
    PROVE  req[w].todo # <<>> /\ Head(req[w].todo) = "update"
<1>1. PICK r, u, C : r = req[w] /\ u = row /\ C = CallsOf(r.todo)
  OBVIOUS
<1>2. PICK recent, n : recent = RecentHashes /\ n = Written(u, r)
  OBVIOUS
<1>3. /\ "update" \in C /\ r.entity.failed_login_attempts = u.failed_login_attempts + 1
      /\ r.todo \in Seq(Calls) /\ r \in Request /\ u \in Row /\ now \in Nat /\ r.entity \in Row
  BY <1>1 DEF Counts, IInv, TypeOK, Request
<1>4. r.todo # <<>>
  BY <1>1, <1>3 DEF CallsOf
<1>5. Steady(r.todo) /\ Intends(u, now, recent, r)
  BY <1>1, <1>2, <1>3 DEF HeldInv, Held
<1>6. n.failed_login_attempts = u.failed_login_attempts + 1
  BY <1>2, <1>3 DEF Written, RepoUpdate, Row
<1>7. u.failed_login_attempts \in Nat
  BY <1>3 DEF Row
<1>8. ~EditsRow(u, n) /\ ~ClosesAccount(u, n) /\ ~TurnsOn(u, r, n) /\ ~SetsPassword(u, recent, r, n)
  <2>1. n.failed_login_attempts # u.failed_login_attempts
    BY <1>6, <1>7
  <2>2. ~EditsRow(u, n)
    BY <1>3, <2>1 DEF EditsRow, Row
  <2>3. ~ClosesAccount(u, n)
    BY <1>3, <2>1 DEF ClosesAccount, Row
  <2>4. ~TurnsOn(u, r, n)
    BY <1>3, <2>1 DEF TurnsOn, Row
  <2>5. ~SetsPassword(u, recent, r, n)
    BY <1>3, <2>1 DEF SetsPassword, Row
  <2> QED BY <2>2, <2>3, <2>4, <2>5
<1>9. Prior \cap C = {}
  BY <1>1, <1>2, <1>5, <1>8 DEF Intends
<1>10. Head(r.todo) = "update"
  <2>1. "update" \in C => Head(r.todo) \in Prior \cup {"update"}
    BY <1>1, <1>3, <1>4, <1>5, TailCalls
  <2>2. Head(r.todo) \in C
    BY <1>1, <1>3, <1>4, <1>5, TailCalls
  <2> QED BY <1>3, <1>9, <2>1, <2>2
<1> QED BY <1>1, <1>4, <1>10

\* A wrong password is counted with the next write, and only a login that
\* succeeds clears the count.
LEMMA StepGuess ==
    ASSUME IInv, OrderlyInv, HeldInv, TokensInv, GuessInv, NEW w, Workers = {w}, [Next]_vars
    PROVE  GuessInv'
<1> DEFINE Now == Counts(row, req[w])
           Then == Counts(row', req'[w])
           f == row.failed_login_attempts
<1>0. /\ w \in Workers /\ row \in Row /\ f \in Nat /\ guesses \in Nat /\ interrupted \in Nat
      /\ now \in Nat /\ req[w] \in Request
  <2>1. /\ w \in Workers /\ row \in Row /\ guesses \in Nat /\ interrupted \in Nat /\ now \in Nat
        /\ req[w] \in Request
    BY DEF IInv, TypeOK, FaultTypeOK
  <2> QED BY <2>1 DEF Row
<1>1. guesses <= f + interrupted + (IF Now THEN 1 ELSE 0)
  BY <1>0 DEF GuessInv, Counting
<1>2. ASSUME guesses' <= row'.failed_login_attempts + interrupted' + (IF Then THEN 1 ELSE 0)
      PROVE  GuessInv'
  BY <1>0, <1>2 DEF GuessInv, Counting, Counts
<1>3. ASSUME row' = row, guesses' = guesses, interrupted' = interrupted, Now => Then
      PROVE  GuessInv'
  <2> HIDE DEF Now, Then
  <2> QED BY <1>0, <1>1, <1>2, <1>3
<1>4. CASE Handle(w)
  <2>1. PICK n : /\ req' = [req EXCEPT ![w] = n]
                 /\ \/ guesses' = guesses /\ ~Counts(row, n)
                    \/ guesses' = guesses + 1 /\ Counts(row, n)
    BY <1>0, <1>4, HandlerFresh
  <2>2. row' = row /\ interrupted' = interrupted
    BY <1>0, <1>4, HandlerLeaves DEF faultVars
  <2>3. ~Now
    <3>1. req[w].todo = <<>>
      BY <1>0, <1>4, HandlerRests DEF OrderlyInv, Orderly
    <3> QED BY <3>1 DEF Counts, CallsOf
  <2>4. Then <=> Counts(row, n)
    <3>1. req'[w] = n
      BY <1>0, <2>1, Placed
    <3> QED BY <2>2, <3>1
  <2> HIDE DEF Now, Then
  <2> QED BY <1>0, <1>1, <1>2, <2>1, <2>2, <2>3, <2>4
<1>5. CASE Interrupt(w)
  <2>1. row' = row /\ interrupted' = interrupted + 1 /\ guesses' = guesses
    BY <1>5 DEF Interrupt, accountVars
  <2> HIDE DEF Now, Then
  <2> QED BY <1>0, <1>1, <1>2, <2>1
<1>6. CASE (\E ns \in Namespaces : OtpExpire(ns)) \/ Tick \/ UNCHANGED vars
  <2>1. UNCHANGED <<row, interrupted, guesses, req>>
    BY <1>6 DEF OtpExpire, Tick, vars, accountVars, faultVars
  <2> QED BY <1>3, <2>1
<1>7. CASE Call(w)
  <2>1. PICK r, h : r = req[w] /\ h = Head(r.todo)
    OBVIOUS
  <2>2. r.todo # <<>> /\ ((Fail(w) /\ h \in Checks) \/ Loops(w) \/ Onward(w))
    BY <1>0, <1>7, <2>1, CallMoves
  <2>3. interrupted' = interrupted
    BY <1>0, <1>7, CallUncut
  <2>4. CASE h # "update"
    <3>1. row' = row /\ guesses' = guesses
      BY <1>0, <1>7, <2>1, <2>4, CallWrites
    <3>2. ~Now
      BY <1>0, <2>1, <2>4, CountsNext
    <3> QED BY <1>3, <2>3, <3>1, <3>2
  <2>5. CASE h = "update"
    <3>1. UpdateUser(w)
      BY <1>0, <1>7, <2>1, <2>5, CallIsAlso
    <3>2. PICK recent, e : recent = RecentHashes /\ e = r.entity
      OBVIOUS
    <3>3. /\ Intends(row, now, recent, r) /\ row' = Written(row, r)
          /\ "update" \in CallsOf(r.todo)
      BY <1>0, <2>1, <3>1, <3>2, UpdateWrites
    <3>4. row'.failed_login_attempts = e.failed_login_attempts
      <4>1. e \in Row
        BY <1>0, <2>1, <3>2 DEF Request
      <4> QED BY <3>2, <3>3, <4>1 DEF Written, RepoUpdate, Row
    <3>5. \/ row'.failed_login_attempts = f
          \/ row'.failed_login_attempts = f + 1
          \/ row'.failed_login_attempts = 0 /\ r.op = "login"
      BY <1>0, <3>3, WrittenRow
    <3>6. guesses' = IF r.op = "login" /\ e.failed_login_attempts = 0 THEN 0 ELSE guesses
      BY <2>1, <3>1, <3>2 DEF UpdateUser
    <3>7. Now => row'.failed_login_attempts = f + 1
      BY <2>1, <3>2, <3>4 DEF Counts
    <3> DEFINE f1 == row'.failed_login_attempts
    <3>8. CASE f1 = 0 /\ r.op = "login"
      <4>1. guesses' = 0
        BY <3>4, <3>6, <3>8
      <4> HIDE DEF Now, Then
      <4> QED BY <1>0, <1>2, <2>3, <3>8, <4>1
    <3>9. CASE ~(f1 = 0 /\ r.op = "login")
      <4>1. guesses' = guesses
        BY <3>4, <3>6, <3>9
      <4> HIDE DEF Now, Then
      <4> QED BY <1>0, <1>1, <1>2, <2>3, <3>5, <3>7, <3>9, <4>1
    <3> QED BY <3>8, <3>9
  <2> QED BY <2>4, <2>5
<1> QED BY <1>4, <1>5, <1>6, <1>7, StepAlone

-----------------------------------------------------------------------------
(***************************************************************************)
(* The invariant of requests that do not overlap, and the theorems.        *)
(***************************************************************************)
SerialInv ==
    /\ IInv /\ OrderlyInv /\ SweepComplete
    /\ HeldInv /\ TokensInv /\ SetsInv /\ ContactInv /\ GuessInv

\* It holds of an account that has just been created.
LEMMA InitSerial == Init => SerialInv
<1> SUFFICES ASSUME Init PROVE SerialInv
  OBVIOUS
<1>0. Idle.todo = <<>> /\ Idle.jti = 0 /\ Idle.issued = 0 /\ Idle.toks = {}
  BY DEF Idle
<1>1. \A w \in Workers : req[w] = Idle
  BY DEF Init
<1>2. IInv /\ OrderlyInv
  BY <1>1, InitIInv, StartsOrderly DEF OrderlyInv
<1>3. HeldInv
  BY <1>0, <1>1, DoneHolds DEF HeldInv
<1>4. TokensInv
  <2>1. outstanding \in Nat /\ blacklisted = {} /\ sessions = 1..outstanding
    BY TokenAssumption DEF Init, TokenInit
  <2> QED BY <1>0, <1>1, <2>1 DEF TokensInv
<1>5. SetsInv
  <2>1. code_rows = {} /\ (\A c \in AllCodes : redeemed[c] = 0)
    BY DEF Init, BackupInit
  <2> QED BY <2>1 DEF SetsInv
<1>6. ContactInv
  <2>1. row \in InitialRows /\ otp["mfa_sms_setup"] = 0
    BY DEF Init, OtpInit, Namespaces
  <2>2. row.mfa_enabled = FALSE
    BY <2>1 DEF InitialRows, NewRows, NewRow
  <2> QED BY <2>1, <2>2 DEF ContactInv, SmsHasContact
<1>7. GuessInv
  <2>1. row \in InitialRows /\ guesses = 0 /\ interrupted = 0
    BY DEF Init
  <2>2. row.failed_login_attempts = 0
    BY <2>1 DEF InitialRows, NewRows, NewRow
  <2> QED BY <2>1, <2>2 DEF GuessInv
<1>8. SweepComplete
  BY <1>0, <1>1 DEF SweepComplete, AtCall
<1> QED BY <1>2, <1>3, <1>4, <1>5, <1>6, <1>7, <1>8 DEF SerialInv

\* Every step of a single worker keeps it.
LEMMA StepSerial == ASSUME Alone, SerialInv, [Next]_vars PROVE SerialInv'
<1>1. PICK w : Workers = {w}
  BY DEF Alone
<1>2. /\ IInv /\ OrderlyInv /\ SweepComplete
      /\ HeldInv /\ TokensInv /\ SetsInv /\ ContactInv /\ GuessInv
  BY DEF SerialInv
<1>3. IInv' /\ OrderlyInv' /\ SweepComplete'
  BY <1>2, StepIInv, StepOrderly, StepSweeps
<1>4. HeldInv' /\ TokensInv' /\ SetsInv' /\ ContactInv' /\ GuessInv'
  BY <1>1, <1>2, StepHeld, StepTokens, StepSets, StepContact, StepGuess
<1> QED BY <1>3, <1>4 DEF SerialInv

\* What a request decided when it read the row stays right until it writes it,
\* for every set of endpoints and every limit.
THEOREM SerialInvariant == ASSUME Alone PROVE Spec => []SerialInv
<1>1. SerialInv /\ [Next]_vars => SerialInv'
  BY StepSerial
<1> QED BY <1>1, InitSerial, PTL DEF Spec

\* Guessing passwords locks the account: after MaxFailedAttempts wrong ones it
\* has been locked, whatever other endpoints wrote the row between them, and
\* each request cut off gives at most one more guess (login.py:80).
THEOREM FailuresLock == ASSUME Alone PROVE Spec => []LockoutAfterMax
<1>1. SerialInv => LockoutAfterMax
  <2> SUFFICES ASSUME SerialInv, Quiet, guesses >= MaxFailedAttempts + interrupted
               PROVE  row.locked_until # 0
    BY DEF LockoutAfterMax
  <2>1. /\ row \in Row /\ guesses \in Nat /\ interrupted \in Nat /\ LimitHasLock(row) /\ GuessInv
    BY DEF SerialInv, IInv, TypeOK, FaultTypeOK, Safe, RowConsistent
  <2>2. row.failed_login_attempts \in Nat
    BY <2>1 DEF Row
  <2>3. ~Counting
    BY DEF Quiet, Counting, Counts, CallsOf
  <2>4. guesses <= row.failed_login_attempts + interrupted
    BY <2>1, <2>2, <2>3 DEF GuessInv
  <2>5. row.failed_login_attempts >= MaxFailedAttempts
    BY <2>1, <2>2, <2>4, AccountAssumption
  <2> QED BY <2>1, <2>5 DEF LimitHasLock
<1> QED BY <1>1, SerialInvariant, PTL

\* No order of phone number changes, set-ups and cut-off requests turns SMS on
\* for an account without a number (enable_sms_mfa.py:50).
THEOREM SmsAlwaysHasContact == ASSUME Alone PROVE Spec => []SmsHasContact
<1>1. SerialInv => SmsHasContact
  BY DEF SerialInv, ContactInv
<1> QED BY <1>1, SerialInvariant, PTL

\* A backup code signs in once, also across regenerations and requests that
\* are cut off between finding the code and marking it.
THEOREM BackupCodesSingleUse == ASSUME Alone PROVE Spec => []BackupSingleUse
<1>1. SerialInv => BackupSingleUse
  BY DEF SerialInv, SetsInv, BackupSingleUse
<1> QED BY <1>1, SerialInvariant, PTL

\* The backup codes that work are always those of one set.
THEOREM CodesOfOneSet == ASSUME Alone PROVE Spec => []OneSetOfCodes
<1>1. SerialInv => OneSetOfCodes
  BY DEF SerialInv, SetsInv, OneSetOfCodes, Unused
<1> QED BY <1>1, SerialInvariant, PTL

\* No endpoint lifts or moves a lock that has not expired: the row a request
\* read before the lock is not written back over it.
THEOREM LocksHeld == ASSUME Alone PROVE Spec => LockHeld
<1>1. SerialInv /\ [Next]_vars => [row.locked_until > now => row'.locked_until = row.locked_until]_row
  <2> SUFFICES ASSUME SerialInv, [Next]_vars, row.locked_until > now
               PROVE  row'.locked_until = row.locked_until
    OBVIOUS
  <2>1. PICK w : Workers = {w}
    BY DEF Alone
  <2>2. w \in Workers /\ row \in Row /\ now \in Nat /\ IInv /\ HeldInv
    BY <2>1 DEF SerialInv, IInv, TypeOK
  <2>3. CASE Handle(w) \/ Interrupt(w) \/ (\E ns \in Namespaces : OtpExpire(ns)) \/ Tick
             \/ UNCHANGED vars
    BY <2>2, <2>3, HandlerLeaves DEF Interrupt, OtpExpire, Tick, vars, accountVars
  <2>4. CASE Call(w)
    <3>1. CASE Head(req[w].todo) # "update"
      BY <2>2, <2>4, <3>1, CallWrites
    <3>2. CASE Head(req[w].todo) = "update"
      <4>1. UpdateUser(w)
        BY <2>2, <2>4, <3>2, CallIsAlso
      <4>2. PICK recent, r : recent = RecentHashes /\ r = req[w]
        OBVIOUS
      <4>3. Intends(row, now, recent, r) /\ row' = Written(row, r)
        BY <2>2, <4>1, <4>2, UpdateWrites
      <4> QED BY <2>2, <4>3, WrittenRow
    <3> QED BY <3>1, <3>2
  <2> QED BY <2>1, <2>3, <2>4, StepAlone
<1> QED BY <1>1, SerialInvariant, PTL DEF Spec, LockHeld

\* A request that ends all sessions ends every one: between its query and its
\* last call no token is issued that it does not know of (token_service.py:73).
THEOREM AllAreRevoked == ASSUME Alone PROVE Spec => AllRevokedWhenDone
<1> DEFINE Revokes == \A w \in Workers :
                AtCall(w, "sessions_off") /\ Calling(w) => Live' = {} /\ sessions' = {}
<1>1. SerialInv /\ [Next]_vars => [Revokes]_vars
  <2> SUFFICES ASSUME SerialInv, [Next]_vars, NEW w \in Workers,
                      AtCall(w, "sessions_off"), Calling(w)
               PROVE  Live' = {} /\ sessions' = {}
    OBVIOUS
  <2>1. Workers = {w}
    BY DEF Alone
  <2>2. PICK r : r = req[w]
    OBVIOUS
  <2>3. /\ r.todo # <<>> /\ Head(r.todo) = "sessions_off" /\ r.todo \in Seq(Calls)
        /\ Held(r) /\ req' # req /\ interrupted' = interrupted /\ interrupted \in Nat
    BY <2>2 DEF AtCall, Calling, SerialInv, HeldInv, IInv, TypeOK, FaultTypeOK, Request
  <2>4. ~Handle(w)
    <3>1. req[w].op \notin AtRest
      BY <2>2, <2>3 DEF SerialInv, OrderlyInv, Orderly
    <3> QED BY <3>1, HandlerRests
  <2>5. ~Interrupt(w)
    BY <2>3 DEF Interrupt
  <2>6. ~((\E ns \in Namespaces : OtpExpire(ns)) \/ Tick \/ UNCHANGED vars)
    BY <2>3 DEF OtpExpire, Tick, vars
  <2>7. Call(w)
    BY <2>1, <2>4, <2>5, <2>6, StepAlone
  <2>8. SessionsOff(w)
    BY <2>2, <2>3, <2>7, CallIsAlso
  <2>9. sessions' = {} /\ outstanding' = outstanding /\ blacklisted' = blacklisted
    BY <2>8 DEF SessionsOff, DeactivateAllSessions
  <2>10. r.seen = outstanding
    <3>1. Steady(r.todo)
      BY <2>3 DEF Held
    <3>2. /\ "sessions_off" \in CallsOf(r.todo)
          /\ \A c \in CallsOf(r.todo) : c = "sessions_off" \/ Rank("sessions_off") < Rank(c)
      BY <2>3, <3>1, TailCalls
    <3>3. "tokens_query" \notin CallsOf(r.todo)
      BY <3>2 DEF Rank
    <3> QED BY <2>3, <3>2, <3>3 DEF Held
  <2>11. 1..outstanding \subseteq blacklisted
    BY <2>2, <2>10 DEF SerialInv, SweepComplete
  <2> QED BY <2>9, <2>11 DEF Live, Outstanding
<1> QED BY <1>1, SerialInvariant, PTL DEF Spec, AllRevokedWhenDone
=============================================================================
