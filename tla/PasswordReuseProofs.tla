-------------------------- MODULE PasswordReuseProofs --------------------------
(***************************************************************************)
(* A password that was replaced does not come back while it is one of the  *)
(* last HistoryLimit, for every limit and every set of endpoints; requests *)
(* do not overlap, and may be cut off anywhere.                            *)
(*                                                                         *)
(* The password is written first and recorded afterwards, in three         *)
(* statements.  A request cut off in between leaves a hash without a row,  *)
(* or more rows than the limit; the rows and the hashes replaced part ways *)
(* from then on.  What stays true is that each hash can be told apart by a *)
(* number (Numbers): the one of its row, or one of a request cut off.      *)
(***************************************************************************)
EXTENDS AccountSerialProofs, Integers

-----------------------------------------------------------------------------
(***************************************************************************)
(* The invariant.                                                          *)
(***************************************************************************)

\* The password has been written and the row of the history has not.
Pending == \E w \in Workers : LET C == CallsOf(req[w].todo)
                              IN  "history_insert" \in C /\ "update" \notin C

\* Each hash replaced has a number: one that was recorded has the number of
\* its row, and all later rows are those of hashes replaced later.
Numbers(h, hashes, rows) ==
    /\ \A i, j \in DOMAIN hashes : h[i] = h[j] => i = j
    /\ \A i \in DOMAIN hashes :
          h[i] > 0 => /\ [id |-> h[i], hash |-> hashes[i]] \in rows
                      /\ \A r \in rows : r.id > h[i]
                            => \E j \in DOMAIN hashes : j > i /\ h[j] = r.id

\* The others have numbers from 0 downward, one for each request cut off, and
\* the next one if a request is still about to record.
TraceInv ==
    /\ Len(replaced) <= HistoryLimit
    /\ \E h \in [DOMAIN replaced -> Int] :
          /\ Numbers(h, replaced, history)
          /\ \A i \in DOMAIN replaced :
                h[i] > -interrupted \/ (i = Len(replaced) /\ h[i] = -interrupted)
          /\ IF Pending THEN replaced # <<>> /\ h[Len(replaced)] = -interrupted
             ELSE \A i \in DOMAIN replaced : h[i] > -interrupted

-----------------------------------------------------------------------------
(***************************************************************************)
(* What the numbers tell.                                                  *)
(***************************************************************************)

\* A recorded hash is one of those a new password is compared with: the rows
\* after it belong to hashes replaced after it, fewer than the limit.
LEMMA RecordedIsRecent ==
    ASSUME IInv, IdsInv, Len(replaced) <= HistoryLimit, NEW h \in [DOMAIN replaced -> Int],
           Numbers(h, replaced, history), NEW i \in DOMAIN replaced, h[i] > 0
    PROVE  [id |-> h[i], hash |-> replaced[i]] \in MostRecent(history, HistoryLimit)
<1>0. /\ Len(replaced) \in Nat /\ DOMAIN replaced = 1..Len(replaced) /\ HistoryLimit \in Nat
      /\ i \in Nat /\ i >= 1 /\ i <= Len(replaced)
  BY HistoryAssumption DEF IInv, TypeOK, HistoryTypeOK
<1>1. PICK r : r = [id |-> h[i], hash |-> replaced[i]]
  OBVIOUS
<1>2. r \in history /\ r.id = h[i]
  BY <1>1 DEF Numbers
<1> DEFINE later == (i + 1)..Len(replaced)
           g == [s \in LaterThan(h[i]) |-> CHOOSE j \in later : h[j] = s.id]
<1>3. IsFiniteSet(later) /\ Cardinality(later) = Len(replaced) - i
  <2>1. i + 1 \in Int /\ Len(replaced) \in Int
    BY <1>0
  <2>2. IsFiniteSet(later)
    BY <2>1, FS_Interval
  <2>3. Cardinality(later) = IF i + 1 > Len(replaced) THEN 0 ELSE Len(replaced) - (i + 1) + 1
    BY <2>1, FS_Interval
  <2> QED BY <1>0, <2>2, <2>3
<1>4. ASSUME NEW s \in LaterThan(h[i])
      PROVE  g[s] \in later /\ h[g[s]] = s.id
  <2>1. s \in history /\ s.id > h[i]
    BY <1>4 DEF LaterThan
  <2>2. PICK j \in DOMAIN replaced : j > i /\ h[j] = s.id
    BY <2>1 DEF Numbers
  <2>3. j \in later
    BY <1>0, <2>2
  <2> QED BY <2>2, <2>3
<1>5. \A s, t \in LaterThan(h[i]) : s.id = t.id => s = t
  BY DEF LaterThan, IdsInv
<1>6. g \in Injection(LaterThan(h[i]), later)
  <2> DEFINE pick(s) == CHOOSE j \in later : h[j] = s.id
  <2>1. \A s \in LaterThan(h[i]) : g[s] = pick(s)
    OBVIOUS
  <2> HIDE DEF pick, later
  <2>2. g \in [LaterThan(h[i]) -> later]
    BY <1>4
  <2>3. \A s, t \in LaterThan(h[i]) : g[s] = g[t] => s = t
    BY <1>4, <1>5
  <2> HIDE DEF g
  <2> QED BY <2>2, <2>3 DEF Injection, IsInjective
<1> HIDE DEF g, later
<1>7. Cardinality(LaterThan(h[i])) < HistoryLimit
  <2>1. Cardinality(LaterThan(h[i])) <= Cardinality(later)
    BY <1>3, <1>6, FS_Injection
  <2>2. Cardinality(LaterThan(h[i])) \in Nat
    BY LaterFinite
  <2> QED BY <1>0, <1>3, <2>1, <2>2
<1> QED BY <1>1, <1>2, <1>7 DEF MostRecent, LaterThan

\* So a password that is none of them was replaced unrecorded only.
LEMMA ReuseIsUnrecorded ==
    ASSUME IInv, IdsInv, TraceInv, ~Pending, NEW p, p \notin RecentHashes
    PROVE  Cardinality({i \in DOMAIN replaced : replaced[i] = p}) <= interrupted
<1> DEFINE S == {i \in DOMAIN replaced : replaced[i] = p}
<1>0. interrupted \in Nat
  BY DEF IInv, TypeOK, FaultTypeOK
<1>1. PICK h \in [DOMAIN replaced -> Int] :
             /\ Numbers(h, replaced, history)
             /\ \A i \in DOMAIN replaced : h[i] > -interrupted
  BY DEF TraceInv
<1>2. ASSUME NEW i \in S PROVE ~(h[i] > 0)
  <2> SUFFICES ASSUME h[i] > 0 PROVE FALSE
    OBVIOUS
  <2>1. [id |-> h[i], hash |-> replaced[i]] \in MostRecent(history, HistoryLimit)
    BY <1>1, RecordedIsRecent DEF TraceInv
  <2>2. replaced[i] \in RecentHashes
    BY <2>1 DEF RecentHashes
  <2> QED BY <2>2
<1> DEFINE f == [i \in S |-> -h[i]]
           lost == 0..(interrupted - 1)
<1>3. f \in Injection(S, lost)
  <2>1. ASSUME NEW i \in S PROVE -h[i] \in lost
    <3>1. h[i] \in Int /\ h[i] > -interrupted /\ ~(h[i] > 0)
      BY <1>1, <1>2
    <3> QED BY <1>0, <3>1
  <2>2. ASSUME NEW i \in S, NEW j \in S, -h[i] = -h[j] PROVE i = j
    <3>1. h[i] \in Int /\ h[j] \in Int /\ (h[i] = h[j] => i = j)
      BY <1>1 DEF Numbers
    <3> QED BY <2>2, <3>1
  <2> QED BY <2>1, <2>2 DEF Injection, IsInjective
<1>4. IsFiniteSet(lost) /\ Cardinality(lost) = interrupted
  <2>1. 0 \in Int /\ interrupted - 1 \in Int
    BY <1>0
  <2>2. IsFiniteSet(lost)
    BY <2>1, FS_Interval
  <2>3. Cardinality(lost) = IF 0 > interrupted - 1 THEN 0 ELSE (interrupted - 1) - 0 + 1
    BY <2>1, FS_Interval
  <2> QED BY <1>0, <2>2, <2>3
<1> HIDE DEF f, lost
<1>5. Cardinality(S) <= Cardinality(lost)
  BY <1>3, <1>4, FS_Injection
<1> QED BY <1>4, <1>5

-----------------------------------------------------------------------------
(***************************************************************************)
(* The steps.                                                              *)
(***************************************************************************)

\* A hash that is replaced comes last; the others keep their order, and the
\* oldest is dropped at the limit.
LEMMA ReplacedList ==
    ASSUME replaced \in Seq(Hashes), Len(replaced) <= HistoryLimit, NEW x \in Hashes
    PROVE  \E off \in {0, 1} :
             LET n == Len(replaced) + 1 - off
             IN  /\ Len(Replaced(x)) = n /\ n <= HistoryLimit /\ n >= 1
                 /\ Replaced(x) \in Seq(Hashes)
                 /\ Replaced(x)[n] = x
                 /\ \A i \in 1..(n - 1) : Replaced(x)[i] = replaced[i + off]
<1>1. PICK all : all = Append(replaced, x)
  OBVIOUS
<1>2. /\ all \in Seq(Hashes) /\ Len(all) = Len(replaced) + 1 /\ all[Len(replaced) + 1] = x
      /\ Len(replaced) \in Nat /\ all # <<>>
      /\ \A i \in 1..Len(replaced) : all[i] = replaced[i]
  BY <1>1
<1>3. CASE Len(all) <= HistoryLimit
  <2>1. Replaced(x) = all
    BY <1>1, <1>3 DEF Replaced
  <2>2. Len(replaced) + 1 - 0 = Len(replaced) + 1 /\ Len(replaced) + 1 >= 1
        /\ (Len(replaced) + 1) - 1 = Len(replaced)
    BY <1>2
  <2>3. \A i \in 1..Len(replaced) : all[i] = replaced[i + 0]
    BY <1>2
  <2> QED BY <1>2, <1>3, <2>1, <2>2, <2>3
<1>4. CASE ~(Len(all) <= HistoryLimit)
  <2>1. Replaced(x) = Tail(all)
    BY <1>1, <1>4 DEF Replaced
  <2>2. Len(replaced) > 0 /\ Len(replaced) <= HistoryLimit
    BY <1>2, <1>4, HistoryAssumption
  <2>3. /\ Tail(all) \in Seq(Hashes) /\ Len(Tail(all)) = Len(replaced)
        /\ Tail(all)[Len(replaced)] = x
        /\ \A i \in 1..(Len(replaced) - 1) : Tail(all)[i] = all[i + 1]
    BY <1>2, <2>2
  <2>4. \A i \in 1..(Len(replaced) - 1) : Tail(all)[i] = replaced[i + 1]
    BY <1>2, <2>3
  <2>5. Len(replaced) + 1 - 1 = Len(replaced) /\ Len(replaced) >= 1
    BY <1>2, <2>2
  <2> QED BY <2>1, <2>2, <2>3, <2>4, <2>5
<1> QED BY <1>3, <1>4

\* Steps that have nothing to do with passwords.
LEMMA TraceSame ==
    ASSUME TraceInv, UNCHANGED <<replaced, history, interrupted>>, Pending' <=> Pending
    PROVE  TraceInv'
  BY DEF TraceInv, Numbers

\* A request cut off before it records leaves its number behind.
LEMMA TraceCut ==
    ASSUME IInv, TraceInv, UNCHANGED <<replaced, history>>,
           interrupted' = interrupted + 1, ~Pending'
    PROVE  TraceInv'
<1>0. interrupted \in Nat
  BY DEF IInv, TypeOK, FaultTypeOK
<1>1. PICK h \in [DOMAIN replaced -> Int] :
             /\ Numbers(h, replaced, history)
             /\ \A i \in DOMAIN replaced :
                   h[i] > -interrupted \/ (i = Len(replaced) /\ h[i] = -interrupted)
  BY DEF TraceInv
<1>2. \A i \in DOMAIN replaced : h[i] > -(interrupted + 1)
  BY <1>0, <1>1
<1>3. Numbers(h, replaced', history')
  BY <1>1
<1> QED BY <1>1, <1>2, <1>3 DEF TraceInv

\* The password is written: the hash replaced has no row yet.
LEMMA TraceWrite ==
    ASSUME IInv, TraceInv, ~Pending, Pending', UNCHANGED <<history, interrupted>>,
           NEW x \in Hashes, replaced' = Replaced(x)
    PROVE  TraceInv'
<1>0. interrupted \in Nat /\ replaced \in Seq(Hashes) /\ Len(replaced) <= HistoryLimit
      /\ Len(replaced) \in Nat /\ DOMAIN replaced = 1..Len(replaced)
  BY DEF IInv, TypeOK, FaultTypeOK, HistoryTypeOK, Hashes, TraceInv
<1>1. PICK h \in [DOMAIN replaced -> Int] :
             /\ Numbers(h, replaced, history)
             /\ \A i \in DOMAIN replaced : h[i] > -interrupted
  BY DEF TraceInv
<1>2. PICK off \in {0, 1} :
             LET n == Len(replaced) + 1 - off
             IN  /\ Len(replaced') = n /\ n <= HistoryLimit /\ n >= 1
                 /\ replaced' \in Seq(Hashes)
                 /\ replaced'[n] = x
                 /\ \A i \in 1..(n - 1) : replaced'[i] = replaced[i + off]
  BY <1>0, ReplacedList
<1>3. PICK n : n = Len(replaced) + 1 - off
  OBVIOUS
<1>4. /\ n \in Nat /\ n >= 1 /\ n <= HistoryLimit /\ Len(replaced') = n
      /\ DOMAIN replaced' = 1..n /\ replaced' # <<>>
      /\ \A i \in 1..n : i # n => /\ i + off \in DOMAIN replaced
                                  /\ replaced'[i] = replaced[i + off]
  BY <1>0, <1>2, <1>3
<1>5. \A j \in DOMAIN replaced : j > off => j - off \in 1..n /\ j - off # n /\ (j - off) + off = j
  BY <1>0, <1>2, <1>3
<1>6. PICK k : k = [i \in 1..n |-> IF i = n THEN -interrupted ELSE h[i + off]]
  OBVIOUS
<1>7. /\ k[n] = -interrupted /\ k \in [1..n -> Int]
      /\ \A i \in 1..n : i # n => k[i] = h[i + off] /\ k[i] > -interrupted
  <2>1. -interrupted \in Int /\ n \in 1..n
    BY <1>0, <1>4
  <2>2. ASSUME NEW i \in 1..n, i # n
        PROVE  k[i] = h[i + off] /\ h[i + off] \in Int /\ h[i + off] > -interrupted
    BY <1>1, <1>4, <1>6, <2>2
  <2>3. k[n] = -interrupted
    BY <1>6, <2>1
  <2>4. \A i \in 1..n : k[i] \in Int
    BY <2>1, <2>2, <2>3
  <2>5. k = [i \in 1..n |-> k[i]]
    BY <1>6
  <2> QED BY <2>2, <2>3, <2>4, <2>5
<1>8. \A i, j \in 1..n : k[i] = k[j] => i = j
  <2> SUFFICES ASSUME NEW i \in 1..n, NEW j \in 1..n, k[i] = k[j] PROVE i = j
    OBVIOUS
  <2>1. CASE i # n /\ j # n
    <3>1. h[i + off] = h[j + off] /\ i + off \in DOMAIN replaced /\ j + off \in DOMAIN replaced
      BY <1>4, <1>7, <2>1
    <3>2. i + off = j + off
      BY <1>1, <3>1 DEF Numbers
    <3> QED BY <1>2, <1>4, <3>2
  <2>2. CASE i = n \/ j = n
    BY <1>0, <1>7, <2>2
  <2> QED BY <2>1, <2>2
<1>9. ASSUME NEW i \in 1..n, k[i] > 0
      PROVE  /\ [id |-> k[i], hash |-> replaced'[i]] \in history
             /\ \A r \in history : r.id > k[i] => \E j \in 1..n : j > i /\ k[j] = r.id
  <2>1. i # n
    BY <1>0, <1>7, <1>9
  <2>2. k[i] = h[i + off] /\ i + off \in DOMAIN replaced /\ replaced'[i] = replaced[i + off]
    BY <1>4, <1>7, <2>1
  <2>3. /\ [id |-> k[i], hash |-> replaced'[i]] \in history
        /\ \A r \in history : r.id > k[i] => \E j \in DOMAIN replaced : j > i + off /\ h[j] = r.id
    BY <1>1, <1>9, <2>2 DEF Numbers
  <2>4. ASSUME NEW r \in history, r.id > k[i] PROVE \E j \in 1..n : j > i /\ k[j] = r.id
    <3>1. PICK j \in DOMAIN replaced : j > i + off /\ h[j] = r.id
      BY <2>3, <2>4
    <3>2. j > off /\ j - off > i
      <4>1. j \in Nat /\ i \in Nat /\ i >= 1 /\ off \in Nat /\ j > i + off
        BY <1>0, <3>1
      <4> QED BY <4>1
    <3>3. j - off \in 1..n /\ k[j - off] = h[j]
      BY <1>5, <1>7, <3>2
    <3> QED BY <3>1, <3>2, <3>3
  <2> QED BY <2>3, <2>4
<1>10. Numbers(k, replaced', history')
  <2>1. PICK later : later = replaced'
    OBVIOUS
  <2>2. /\ \A i, j \in DOMAIN later : k[i] = k[j] => i = j
        /\ \A i \in DOMAIN later :
              k[i] > 0 => /\ [id |-> k[i], hash |-> later[i]] \in history
                          /\ \A r \in history : r.id > k[i]
                                => \E j \in DOMAIN later : j > i /\ k[j] = r.id
    <3>1. DOMAIN later = 1..n
      BY <1>4, <2>1
    <3>2. \A i \in 1..n : k[i] > 0 => [id |-> k[i], hash |-> later[i]] \in history
      BY <1>9, <2>1
    <3>3. \A i \in 1..n : k[i] > 0 => \A r \in history : r.id > k[i]
                                => \E j \in 1..n : j > i /\ k[j] = r.id
      BY <1>9
    <3> QED BY <1>8, <3>1, <3>2, <3>3
  <2>3. Numbers(k, later, history)
    BY <2>2 DEF Numbers
  <2> QED BY <2>1, <2>3
<1>11. \A i \in 1..n : k[i] > -interrupted \/ (i = n /\ k[i] = -interrupted)
  BY <1>7
<1> QED BY <1>4, <1>7, <1>10, <1>11 DEF TraceInv

\* The hash replaced last gets its row, and the number of that row.
LEMMA TraceInsert ==
    ASSUME IInv, IdsInv, TraceInv, Pending, ~Pending', UNCHANGED <<replaced, interrupted>>,
           history' = history \cup {[id |-> recorded + 1, hash |-> replaced[Len(replaced)]]}
    PROVE  TraceInv'
<1>0. /\ interrupted \in Nat /\ recorded \in Nat /\ Len(replaced) \in Nat
      /\ DOMAIN replaced = 1..Len(replaced)
      /\ \A r \in history : r.id \in Nat /\ r.id <= recorded
  BY DEF IInv, TypeOK, FaultTypeOK, HistoryTypeOK, IdsInv
<1>1. PICK h \in [DOMAIN replaced -> Int] :
             /\ Numbers(h, replaced, history)
             /\ \A i \in DOMAIN replaced :
                   h[i] > -interrupted \/ (i = Len(replaced) /\ h[i] = -interrupted)
             /\ replaced # <<>> /\ h[Len(replaced)] = -interrupted
  BY DEF TraceInv
<1>2. PICK n : n = Len(replaced)
  OBVIOUS
<1>3. n \in DOMAIN replaced /\ n \in Nat /\ (\A i \in DOMAIN replaced : i \in Nat /\ i <= n)
  BY <1>0, <1>1, <1>2
<1>4. PICK k : k = [i \in DOMAIN replaced |-> IF i = n THEN recorded + 1 ELSE h[i]]
  OBVIOUS
<1>5. /\ k \in [DOMAIN replaced -> Int] /\ k[n] = recorded + 1
      /\ \A i \in DOMAIN replaced : i # n => k[i] = h[i]
  BY <1>0, <1>3, <1>4
<1>6. \A i \in DOMAIN replaced : h[i] > 0 => h[i] <= recorded
  BY <1>0, <1>1 DEF Numbers
<1>7. \A i \in DOMAIN replaced : i # n => k[i] # recorded + 1
  <2> SUFFICES ASSUME NEW i \in DOMAIN replaced, i # n, k[i] = recorded + 1 PROVE FALSE
    OBVIOUS
  <2>1. h[i] = recorded + 1
    BY <1>5
  <2> QED BY <1>0, <1>6, <2>1
<1>8. \A i, j \in DOMAIN replaced : k[i] = k[j] => i = j
  BY <1>1, <1>5, <1>7 DEF Numbers
<1>9. PICK new : new = [id |-> recorded + 1, hash |-> replaced[n]]
  OBVIOUS
<1>10. new.id = recorded + 1 /\ history' = history \cup {new}
  BY <1>2, <1>9
<1>11. ASSUME NEW i \in DOMAIN replaced, k[i] > 0
       PROVE  /\ [id |-> k[i], hash |-> replaced[i]] \in history'
              /\ \A r \in history' : r.id > k[i] => \E j \in DOMAIN replaced : j > i /\ k[j] = r.id
  <2>1. CASE i = n
    <3>1. [id |-> k[i], hash |-> replaced[i]] = new
      BY <1>5, <1>9, <2>1
    <3>2. \A r \in history' : ~(r.id > k[i])
      BY <1>0, <1>5, <1>10, <2>1
    <3> QED BY <1>10, <3>1, <3>2
  <2>2. CASE i # n
    <3>1. k[i] = h[i] /\ h[i] > 0
      BY <1>5, <1>11, <2>2
    <3>2. /\ [id |-> h[i], hash |-> replaced[i]] \in history
          /\ \A r \in history : r.id > h[i] => \E j \in DOMAIN replaced : j > i /\ h[j] = r.id
      BY <1>1, <3>1 DEF Numbers
    <3>3. ASSUME NEW r \in history, r.id > k[i]
          PROVE  \E j \in DOMAIN replaced : j > i /\ k[j] = r.id
      <4>1. PICK j \in DOMAIN replaced : j > i /\ h[j] = r.id
        BY <3>1, <3>2, <3>3
      <4>2. r.id \in Nat /\ h[i] \in Int
        BY <1>0, <1>1
      <4>3. r.id > 0
        BY <3>1, <3>3, <4>2
      <4>4. j # n
        BY <1>0, <1>1, <1>2, <4>1, <4>3
      <4> QED BY <1>5, <4>1, <4>4
    <3>4. n > i /\ k[n] = new.id
      BY <1>3, <1>5, <1>10, <2>2
    <3> QED BY <1>3, <1>10, <3>1, <3>2, <3>3, <3>4
  <2> QED BY <2>1, <2>2
<1>12. Numbers(k, replaced', history')
  BY <1>8, <1>11 DEF Numbers
<1>13. \A i \in DOMAIN replaced : k[i] > -interrupted
  <2> SUFFICES ASSUME NEW i \in DOMAIN replaced PROVE k[i] > -interrupted
    OBVIOUS
  <2>1. CASE i = n
    BY <1>0, <1>5, <2>1
  <2>2. CASE i # n
    BY <1>1, <1>2, <1>5, <2>2
  <2> QED BY <2>1, <2>2
<1> QED BY <1>5, <1>12, <1>13 DEF TraceInv

\* What is deleted belongs to no hash of the list.
LEMMA TracePrune ==
    ASSUME IInv, IdsInv, TraceInv, UNCHANGED <<replaced, interrupted>>, Pending' <=> Pending,
           history' = {r \in history : r.id \in IdsToKeep}
    PROVE  TraceInv'
<1>1. PICK h \in [DOMAIN replaced -> Int] :
             /\ Numbers(h, replaced, history)
             /\ \A i \in DOMAIN replaced :
                   h[i] > -interrupted \/ (i = Len(replaced) /\ h[i] = -interrupted)
             /\ IF Pending THEN replaced # <<>> /\ h[Len(replaced)] = -interrupted
                ELSE \A i \in DOMAIN replaced : h[i] > -interrupted
  BY DEF TraceInv
<1>2. ASSUME NEW i \in DOMAIN replaced, h[i] > 0
      PROVE  [id |-> h[i], hash |-> replaced[i]] \in history'
  <2>1. [id |-> h[i], hash |-> replaced[i]] \in MostRecent(history, HistoryLimit)
    BY <1>1, <1>2, RecordedIsRecent DEF TraceInv
  <2>2. PICK r : r = [id |-> h[i], hash |-> replaced[i]]
    OBVIOUS
  <2>3. r \in history /\ r.id \in IdsToKeep
    BY <2>1, <2>2 DEF MostRecent, IdsToKeep
  <2> QED BY <2>2, <2>3
<1>3. Numbers(h, replaced', history')
  BY <1>1, <1>2 DEF Numbers
<1> QED BY <1>1, <1>3 DEF TraceInv

\* What one worker is about to record.
LEMMA Pends ==
    ASSUME NEW w, Workers = {w}
    PROVE  /\ Pending <=> /\ "history_insert" \in CallsOf(req[w].todo)
                          /\ "update" \notin CallsOf(req[w].todo)
           /\ Pending' <=> /\ "history_insert" \in CallsOf(req'[w].todo)
                           /\ "update" \notin CallsOf(req'[w].todo)
<1>1. Pending <=> \E v \in Workers : /\ "history_insert" \in CallsOf(req[v].todo)
                                     /\ "update" \notin CallsOf(req[v].todo)
  BY DEF Pending
<1>2. Pending' <=> \E v \in Workers : /\ "history_insert" \in CallsOf(req'[v].todo)
                                      /\ "update" \notin CallsOf(req'[v].todo)
  BY DEF Pending, CallsOf
<1> QED BY <1>1, <1>2

\* Before the history is written come the row and what is asked before it.
LEMMA InsertRank ==
    /\ \A c \in Calls : Rank(c) < Rank("history_insert") => c \in Prior \cup {"update"}
    /\ Rank("update") < Rank("history_insert")
    /\ ~(Rank("history_prune") < Rank("history_insert"))
    /\ ~(Rank("history_prune") < Rank("history_list"))
<1>1. \A c \in Calls : c \notin Prior \cup {"update"} => Rank(c) >= 5
  BY DEF Calls, Prior, Rank
<1>2. /\ Rank("history_insert") = 5 /\ Rank("update") = 4
      /\ Rank("history_list") = 6 /\ Rank("history_prune") = 7
  BY DEF Rank
<1>3. \A c \in Calls : Rank(c) \in Nat
  BY RankNat
<1> QED BY <1>1, <1>2, <1>3

\* A call of the only request keeps the numbers.
LEMMA CallTraced ==
    ASSUME SerialInv, IdsInv, TraceInv, NEW w, Workers = {w}, Call(w)
    PROVE  TraceInv'
<1>0. /\ w \in Workers /\ IInv /\ Held(req[w]) /\ req[w] \in Request /\ row \in Row
      /\ req[w].todo \in Seq(Calls) /\ interrupted' = interrupted
  BY CallUncut DEF SerialInv, IInv, TypeOK, HeldInv, Request
<1>1. PICK C : C = CallsOf(req[w].todo)
  OBVIOUS
<1>2. PICK D : D = CallsOf(req'[w].todo)
  OBVIOUS
<1>3. PICK h : h = Head(req[w].todo)
  OBVIOUS
<1>4. /\ Pending <=> "history_insert" \in C /\ "update" \notin C
      /\ Pending' <=> "history_insert" \in D /\ "update" \notin D
  BY <1>1, <1>2, Pends
<1>5. req[w].todo # <<>> /\ ((Fail(w) /\ h \in Checks) \/ Loops(w) \/ Onward(w))
  BY <1>0, <1>3, CallMoves
<1>6. /\ h \in C /\ C \subseteq Calls /\ CallsOf(Tail(req[w].todo)) = C \ {h}
      /\ \A c \in C : c # h => Rank(h) < Rank(c)
      /\ Apart(C)
  <2>1. Steady(req[w].todo) /\ Apart(C)
    BY <1>0, <1>1 DEF Held
  <2> HIDE DEF Steady, Apart
  <2>2. /\ h \in C /\ C \subseteq Calls /\ CallsOf(Tail(req[w].todo)) = C \ {h}
        /\ \A c \in C \ {h} : Rank(h) < Rank(c)
    BY <1>0, <1>1, <1>3, <1>5, <2>1, TailCalls
  <2> QED BY <2>1, <2>2
<1>7. \/ D = {} /\ h \in Checks
      \/ D = C /\ h = "blacklist_each"
      \/ D = C \ {h}
  <2>1. CASE Fail(w) /\ h \in Checks
    <3>1. req'[w] = Idle
      BY <1>0, <2>1, Placed DEF Fail, Serve
    <3>2. Idle.todo = <<>>
      BY DEF Idle
    <3> QED BY <1>2, <2>1, <3>1, <3>2 DEF CallsOf
  <2>2. CASE Loops(w)
    <3>1. PICK t : req' = [req EXCEPT ![w] = [req[w] EXCEPT !.toks = @ \ {t}]]
      BY <2>2 DEF Loops, Serve
    <3>2. PICK n : n = [req[w] EXCEPT !.toks = @ \ {t}]
      OBVIOUS
    <3>3. req'[w] = n
      BY <1>0, <3>1, <3>2, Placed
    <3>4. n.todo = req[w].todo
      BY <1>0, <3>2 DEF Request
    <3> QED BY <1>1, <1>2, <1>3, <2>2, <3>3, <3>4 DEF Loops, AtCall
  <2>3. CASE Onward(w)
    <3>1. PICK n : req' = [req EXCEPT ![w] = n] /\ Moved(req[w], n)
      BY <2>3 DEF Onward
    <3>2. req'[w] = n /\ n.todo = Tail(req[w].todo)
      BY <1>0, <3>1, Placed DEF Moved
    <3> QED BY <1>2, <1>6, <3>2
  <2> QED BY <1>5, <2>1, <2>2, <2>3
<1>8. Pending => h = "history_insert"
  <2> SUFFICES ASSUME "history_insert" \in C, "update" \notin C, h # "history_insert"
               PROVE  FALSE
    BY <1>4
  <2>1. Rank(h) < Rank("history_insert")
    BY <1>6
  <2>2. h \in Prior
    BY <1>6, <2>1, InsertRank
  <2>3. C \cap Prior # {} /\ C \cap {"blacklist_each", "codes_create", "history_insert"} # {}
    BY <1>6, <2>2
  <2> QED BY <1>6, <2>3 DEF Apart
<1>9. CASE h = "update"
  <2>1. UpdateUser(w)
    BY <1>0, <1>3, <1>9, CallIsAlso
  <2>2. D = C \ {"update"}
    BY <1>7, <1>9 DEF Checks
  <2>3. history' = history
    BY <2>1 DEF UpdateUser
  <2>4. replaced' = IF req[w].op \in PasswordOps THEN Replaced(row.password_hash) ELSE replaced
    BY <2>1 DEF UpdateUser
  <2>5. req[w].op \in PasswordOps <=> "history_insert" \in C
    <3>1. "update" \in C
      BY <1>6, <1>9
    <3> QED BY <1>0, <1>1, <3>1 DEF Held, Intends
  <2>6. ~Pending /\ (Pending' <=> "history_insert" \in C)
    BY <1>4, <1>6, <1>9, <2>2
  <2>7. CASE "history_insert" \in C
    <3>1. row.password_hash \in Hashes
      BY <1>0 DEF Row, Hashes
    <3> QED BY <1>0, <2>3, <2>4, <2>5, <2>6, <2>7, <3>1, TraceWrite
  <2>8. CASE "history_insert" \notin C
    BY <1>0, <2>3, <2>4, <2>5, <2>6, <2>8, TraceSame
  <2> QED BY <2>7, <2>8
<1>10. CASE h = "history_insert"
  <2>1. "update" \notin C
    <3> SUFFICES ASSUME "update" \in C PROVE FALSE
      OBVIOUS
    <3>1. Rank("history_insert") < Rank("update")
      BY <1>6, <1>10
    <3>2. Rank("update") \in Nat /\ Rank("history_insert") \in Nat
      BY <1>6, <1>10, RankNat
    <3> QED BY <3>1, <3>2, InsertRank
  <2>2. D = C \ {"history_insert"}
    BY <1>7, <1>10 DEF Checks
  <2>3. Pending /\ ~Pending'
    BY <1>4, <1>6, <1>10, <2>1, <2>2
  <2>4. req[w].old = replaced[Len(replaced)]
    BY <1>0, <1>1, <1>6, <1>10, <2>1 DEF Held
  <2>5. HistoryInsert(w)
    BY <1>0, <1>3, <1>5, <1>10, CallIs DEF AtCall
  <2>6. /\ replaced' = replaced
        /\ history' = history \cup {[id |-> recorded + 1, hash |-> replaced[Len(replaced)]]}
    BY <2>4, <2>5 DEF HistoryInsert, InsertHash
  <2> QED BY <1>0, <2>3, <2>6, TraceInsert
<1>11. CASE h \notin {"update", "history_insert"}
  <2>1. ~Pending /\ ~Pending'
    <3>1. ~Pending
      BY <1>8, <1>11
    <3> QED BY <1>4, <1>7, <1>11, <3>1
  <2>2. replaced' = replaced
    BY <1>0, <1>3, <1>11, CallWrites
  <2>3. CASE h = "history_prune"
    <3>1. HistoryPrune(w)
      BY <1>0, <1>3, <1>5, <2>3, CallIs DEF AtCall
    <3>2. "history_list" \notin C
      BY <1>6, <2>3, InsertRank
    <3>3. req[w].keep = IdsToKeep
      BY <1>0, <1>1, <1>6, <2>3, <3>2 DEF Held
    <3>4. history' = {r \in history : r.id \in IdsToKeep}
      BY <3>1, <3>3 DEF HistoryPrune, PruneExcept
    <3> QED BY <1>0, <2>1, <2>2, <3>4, TracePrune
  <2>4. CASE h # "history_prune"
    <3>1. history' = history
      BY <1>0, <1>3, <1>11, <2>4, CallWrites
    <3> QED BY <1>0, <2>1, <2>2, <3>1, TraceSame
  <2> QED BY <2>3, <2>4
<1> QED BY <1>9, <1>10, <1>11

\* Every step keeps the numbers.
LEMMA StepTrace ==
    ASSUME SerialInv, IdsInv, TraceInv, NEW w, Workers = {w}, [Next]_vars
    PROVE  TraceInv'
<1>0. w \in Workers /\ IInv /\ TokensInv /\ OrderlyInv
  BY DEF SerialInv
<1>1. CASE Handle(w)
  <2>1. PICK n : req' = [req EXCEPT ![w] = n] /\ Fresh(n)
    BY <1>0, <1>1, HandlerFresh
  <2>2. req'[w] = n
    BY <1>0, <2>1, Placed
  <2>3. "history_insert" \in CallsOf(n.todo) => "update" \in CallsOf(n.todo)
    BY <2>1 DEF Fresh, Commits
  <2>4. req[w].todo = <<>>
    BY <1>0, <1>1, HandlerRests DEF OrderlyInv, Orderly
  <2>5. CallsOf(req[w].todo) = {}
    BY <2>4 DEF CallsOf
  <2>6. ~Pending /\ ~Pending'
    BY <2>2, <2>3, <2>5, Pends
  <2>7. UNCHANGED <<replaced, history, interrupted>>
    BY <1>0, <1>1, HandlerLeaves DEF historyVars, faultVars
  <2> QED BY <2>6, <2>7, TraceSame
<1>2. CASE Call(w)
  BY <1>2, CallTraced
<1>3. CASE Interrupt(w)
  <2>1. /\ UNCHANGED <<replaced, history>> /\ interrupted' = interrupted + 1
        /\ req' = [req EXCEPT ![w] = Idle]
    BY <1>3 DEF Interrupt, historyVars
  <2>2. req'[w] = Idle /\ Idle.todo = <<>>
    BY <1>0, <2>1, Placed DEF Idle
  <2>3. CallsOf(req'[w].todo) = {}
    BY <2>2 DEF CallsOf
  <2>4. ~Pending'
    BY <2>3, Pends
  <2> QED BY <1>0, <2>1, <2>4, TraceCut
<1>4. CASE (\E ns \in Namespaces : OtpExpire(ns)) \/ Tick \/ UNCHANGED vars
  <2>1. UNCHANGED <<replaced, history, interrupted, req>>
    BY <1>4 DEF OtpExpire, Tick, vars, historyVars, faultVars
  <2>2. Pending' <=> Pending
    BY <2>1 DEF Pending
  <2> QED BY <2>1, <2>2, TraceSame
<1> QED BY <1>1, <1>2, <1>3, <1>4, StepAlone

\* A new account has replaced no password.
LEMMA InitTrace == Init => IdsInv /\ TraceInv
<1> SUFFICES ASSUME Init PROVE IdsInv /\ TraceInv
  OBVIOUS
<1>1. history = {} /\ replaced = <<>>
  BY DEF Init, HistoryInit
<1>2. \A w \in Workers : CallsOf(req[w].todo) = {}
  BY DEF Init, Idle, CallsOf
<1>3. ~Pending
  BY <1>2 DEF Pending
<1>4. Len(replaced) <= HistoryLimit /\ DOMAIN replaced = {}
  BY <1>1, HistoryAssumption
<1>5. PICK h : h = [i \in DOMAIN replaced |-> 0]
  OBVIOUS
<1>6. h \in [DOMAIN replaced -> Int] /\ Numbers(h, replaced, history)
  BY <1>4, <1>5 DEF Numbers
<1> QED BY <1>1, <1>3, <1>4, <1>6 DEF IdsInv, TraceInv

\* A step that changes the password sets one that is not recent.
LEMMA NewPassword ==
    ASSUME SerialInv, NEW w, Workers = {w}, [Next]_vars, row'.password_hash # row.password_hash
    PROVE  ~Pending /\ row'.password_hash \notin RecentHashes
<1>0. w \in Workers /\ row \in Row /\ now \in Nat /\ IInv /\ HeldInv
  BY DEF SerialInv, IInv, TypeOK
<1>1. ~(Handle(w) \/ Interrupt(w) \/ (\E ns \in Namespaces : OtpExpire(ns)) \/ Tick \/ UNCHANGED vars)
  BY <1>0, HandlerLeaves DEF Interrupt, OtpExpire, Tick, vars, accountVars
<1>2. Call(w)
  BY <1>1, StepAlone
<1>3. Head(req[w].todo) = "update"
  BY <1>0, <1>2, CallWrites
<1>4. UpdateUser(w)
  BY <1>0, <1>2, <1>3, CallIsAlso
<1>5. PICK recent, r : recent = RecentHashes /\ r = req[w]
  OBVIOUS
<1>6. /\ Intends(row, now, recent, r) /\ row' = Written(row, r)
      /\ CallsOf(r.todo) \cap Prior = {} /\ "update" \in CallsOf(r.todo)
  BY <1>0, <1>4, <1>5, UpdateWrites
<1>7. SetsPassword(row, recent, r, row')
  BY <1>0, <1>6, WrittenRow
<1>8. row'.password_hash = r.new /\ r.new \notin recent
  BY <1>0, <1>6, <1>7 DEF SetsPassword, Prior, Row
<1>9. ~Pending
  BY <1>5, <1>6, Pends
<1> QED BY <1>5, <1>8, <1>9

\* A new password is none of the last HistoryLimit replaced, but for one for
\* each request that was cut off before it recorded what it replaced, for every
\* limit (password_history_service.py:26).
THEOREM ReplacedNotReused == ASSUME Alone PROVE Spec => NoReplacedReuse
<1> DEFINE P == row'.password_hash # row.password_hash
                  => Cardinality({i \in DOMAIN replaced : replaced[i] = row'.password_hash})
                        <= interrupted
           I == SerialInv /\ IdsInv /\ TraceInv
<1>1. Init => I
  BY InitSerial, InitTrace
<1>2. I /\ [Next]_vars => I'
  <2> SUFFICES ASSUME I, [Next]_vars PROVE I'
    OBVIOUS
  <2>1. SerialInv' /\ IdsInv'
    BY StepSerial, IdsStay DEF SerialInv
  <2>2. TraceInv'
    BY StepTrace DEF Alone
  <2> QED BY <2>1, <2>2
<1>3. I /\ [Next]_vars => [P]_<<row, replaced>>
  <2> SUFFICES ASSUME I, [Next]_vars, row'.password_hash # row.password_hash PROVE P
    OBVIOUS
  <2>1. ~Pending /\ row'.password_hash \notin RecentHashes
    BY NewPassword DEF Alone
  <2>2. Cardinality({i \in DOMAIN replaced : replaced[i] = row'.password_hash}) <= interrupted
    BY <2>1, ReuseIsUnrecorded DEF SerialInv
  <2> QED BY <2>2
<1> QED BY <1>1, <1>2, <1>3, PTL DEF Spec, NoReplacedReuse
=============================================================================
