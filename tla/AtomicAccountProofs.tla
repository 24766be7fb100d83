------------------------- MODULE AtomicAccountProofs --------------------------
(***************************************************************************)
(* The account implements AtomicAccount, requests that do not overlap, for *)
(* every set of endpoints and every limit.                                 *)
(*                                                                         *)
(* A request makes many calls and the abstract step is one of them: the    *)
(* write of the row where the endpoint writes it, with the tokens it is    *)
(* about to revoke and the codes it is about to create already counted     *)
(* (Atomic, in AccountProperties), and else the call that issues, revokes  *)
(* or redeems.  All other calls change nothing the specification speaks    *)
(* of.  That the row written is the present one with one promised change   *)
(* is what SerialInv says of the request beforehand (Intends).             *)
(***************************************************************************)
EXTENDS AccountSerialProofs

-----------------------------------------------------------------------------
(***************************************************************************)
(* The refinement mapping.                                                 *)
(***************************************************************************)

\* The tokens and the codes that are accepted, seen from outside.
LiveBar == IF Committed("blacklist_each") THEN {} ELSE Live
CodesBar == IF Committed("codes_create") THEN {sets + 1} \X (1..CodesPerUser) ELSE Unused

\* An abstract step, the variables it is about given as the mapping has them.
LEMMA RowSteps ==
    ASSUME UNCHANGED <<now, interrupted, outstanding>>, LiveBar' = LiveBar, CodesBar' = CodesBar,
           EditsRow(row, row') \/ CountsAttempt(row, now, row') \/ ClearsAttempts(row, now, row')
    PROVE  Atomic!Next
<1> USE DEF Atomic!Becomes, Atomic!Changes, Atomic!credentials, LiveBar, CodesBar
<1>1. CASE ~row.is_email_verified /\ row' = [row EXCEPT !.is_email_verified = TRUE]
  <2>1. Atomic!Verify
    BY <1>1, Zenon DEF Atomic!Verify
  <2> QED BY <2>1 DEF Atomic!Next
<1>2. CASE ~row.mfa_enabled /\ \E s \in Secrets : row' = [row EXCEPT !.mfa_secret = s]
  <2>1. Atomic!OfferSecret
    BY <1>2, Zenon DEF Atomic!OfferSecret
  <2> QED BY <2>1 DEF Atomic!Next
<1>3. CASE row.mfa_enabled
           /\ row' = [row EXCEPT !.mfa_enabled = FALSE, !.mfa_secret = None, !.mfa_type = None]
  <2>1. Atomic!Disable
    BY <1>3, Zenon DEF Atomic!Disable
  <2> QED BY <2>1 DEF Atomic!Next
<1>4. CASE \E name \in Names \cup {row.name}, c \in Contacts \cup {row.contact} :
              row' = [row EXCEPT !.name = name, !.contact = c]
  <2>1. Atomic!EditProfile
    BY <1>4, Zenon DEF Atomic!EditProfile
  <2> QED BY <2>1 DEF Atomic!Next
<1>5. CASE \E active \in BOOLEAN : row' = [row EXCEPT !.is_active = active]
  <2>1. \E active \in BOOLEAN : Atomic!SetActive(active)
    BY <1>5, Zenon DEF Atomic!SetActive
  <2> QED BY <2>1 DEF Atomic!Next
<1>6. CASE CountsAttempt(row, now, row')
  <2>1. Atomic!WrongPassword
    BY <1>6, Zenon DEF Atomic!WrongPassword, Atomic!AllowedAt, CountsAttempt
  <2> QED BY <2>1 DEF Atomic!Next
<1>7. CASE ClearsAttempts(row, now, row')
  <2>1. Atomic!RightPassword
    BY <1>7, Zenon DEF Atomic!RightPassword, Atomic!AllowedAt, ClearsAttempts
  <2> QED BY <2>1 DEF Atomic!Next
<1> HIDE DEF Atomic!Becomes, Atomic!Changes, Atomic!credentials, LiveBar, CodesBar
<1> QED BY <1>1, <1>2, <1>3, <1>4, <1>5, <1>6, <1>7 DEF EditsRow

\* A row written by a request that has all tokens to revoke.
LEMMA EndingSteps ==
    ASSUME UNCHANGED <<now, interrupted, outstanding>>, LiveBar' = {}, CodesBar' = CodesBar,
           NEW recent, NEW r, SetsPassword(row, recent, r, row') \/ ClosesAccount(row, row')
    PROVE  Atomic!Next
<1> USE DEF Atomic!EndsSessions, Atomic!Changes, LiveBar, CodesBar
<1>1. CASE SetsPassword(row, recent, r, row')
  <2>1. Atomic!SetPassword
    BY <1>1, Zenon DEF Atomic!SetPassword, SetsPassword
  <2> QED BY <2>1 DEF Atomic!Next
<1>2. CASE row' = [row EXCEPT !.is_active = FALSE]
  <2>1. Atomic!DeleteAccount
    BY <1>2, Zenon DEF Atomic!DeleteAccount
  <2> QED BY <2>1 DEF Atomic!Next
<1>3. CASE row' = [row EXCEPT !.name = "Deleted User", !.mfa_secret = None,
                              !.is_active = FALSE, !.deleted_at = TRUE]
  <2>1. Atomic!Erase
    BY <1>3, Zenon DEF Atomic!Erase
  <2> QED BY <2>1 DEF Atomic!Next
<1> QED BY <1>1, <1>2, <1>3 DEF ClosesAccount

\* A new set of codes is later than all codes there are.
LEMMA NewCodes ==
    ASSUME sets \in Nat, CodesBar \subseteq (1..sets) \X (1..CodesPerUser),
           CodesBar' = {sets + 1} \X (1..CodesPerUser)
    PROVE  /\ CodesBar' # {} /\ \A c \in CodesBar', d \in CodesBar \cup CodesBar' : d[1] <= c[1]
           /\ CodesBar \cap CodesBar' = {}
<1>1. <<sets + 1, 1>> \in CodesBar'
  BY BackupAssumption
<1>2. \A c \in CodesBar' : c[1] = sets + 1
  OBVIOUS
<1>3. \A d \in CodesBar : d[1] \in 1..sets
  OBVIOUS
<1> QED BY <1>1, <1>2, <1>3

\* A row that gets its second factor, or keeps it, with the codes that come with it.
LEMMA GivingSteps ==
    ASSUME UNCHANGED <<now, interrupted, outstanding>>, LiveBar' = LiveBar,
           sets \in Nat, CodesBar \subseteq (1..sets) \X (1..CodesPerUser),
           CodesBar' = {sets + 1} \X (1..CodesPerUser),
           \/ \E type \in MfaTypes :
                 /\ ~row.mfa_enabled
                 /\ row' = [row EXCEPT !.mfa_enabled = TRUE, !.mfa_type = type]
                 /\ type = "totp" => row.mfa_secret # None
                 /\ type = "sms" => row.contact # None
           \/ row' = row /\ row.mfa_enabled /\ row.mfa_secret # None
    PROVE  Atomic!Next
<1>1. /\ CodesBar' # {} /\ \A c \in CodesBar', d \in CodesBar \cup CodesBar' : d[1] <= c[1]
      /\ CodesBar \cap CodesBar' = {}
  BY NewCodes
<1>2. Atomic!GivesCodes(row')
  BY <1>1, Zenon DEF Atomic!GivesCodes, Atomic!Changes, LiveBar, CodesBar
<1>3. CASE row' = row /\ row.mfa_enabled /\ row.mfa_secret # None
  <2>1. Atomic!Regenerate
    BY <1>2, <1>3, Zenon DEF Atomic!Regenerate
  <2> QED BY <2>1 DEF Atomic!Next
<1>4. ASSUME NEW type \in MfaTypes, ~row.mfa_enabled,
             row' = [row EXCEPT !.mfa_enabled = TRUE, !.mfa_type = type],
             type = "totp" => row.mfa_secret # None, type = "sms" => row.contact # None
      PROVE  Atomic!Next
  <2>1. Atomic!Enable(type)
    BY <1>2, <1>4, Zenon DEF Atomic!Enable
  <2> QED BY <2>1, Zenon DEF Atomic!Next, Atomic!MfaTypes, MfaTypes
<1> QED BY <1>3, <1>4

\* The steps of the tokens, of a code, of a request cut off and of the clock.
LEMMA IssueStep ==
    ASSUME row.is_active \/ row.mfa_enabled, outstanding' = outstanding + 1,
           LiveBar' = LiveBar \cup {outstanding + 1}, CodesBar' = CodesBar,
           UNCHANGED <<row, now, interrupted>>
    PROVE  Atomic!Next
<1>1. Atomic!Issue
  BY Zenon DEF Atomic!Issue, LiveBar, CodesBar
<1> QED BY <1>1 DEF Atomic!Next

LEMMA RevokeStep ==
    ASSUME \E t \in LiveBar : LiveBar' = LiveBar \ {t}, CodesBar' = CodesBar,
           UNCHANGED <<row, now, outstanding, interrupted>>
    PROVE  Atomic!Next
<1>1. Atomic!Revoke
  BY Zenon DEF Atomic!Revoke, LiveBar, CodesBar
<1> QED BY <1>1 DEF Atomic!Next

LEMMA RedeemStep ==
    ASSUME row.mfa_enabled, \E c \in CodesBar : CodesBar' = CodesBar \ {c}, LiveBar' = LiveBar,
           UNCHANGED <<row, now, outstanding, interrupted>>
    PROVE  Atomic!Next
<1>1. Atomic!Redeem
  BY Zenon DEF Atomic!Redeem, LiveBar, CodesBar
<1> QED BY <1>1 DEF Atomic!Next

LEMMA CutOffStep ==
    ASSUME interrupted' = interrupted + 1, UNCHANGED <<row, now, outstanding>>,
           LiveBar \subseteq LiveBar', LiveBar' \subseteq 1..outstanding,
           CodesBar' = CodesBar \/ CodesBar \cap CodesBar' = {}
    PROVE  Atomic!Next
<1>1. Atomic!CutOff
  BY Zenon DEF Atomic!CutOff, LiveBar, CodesBar
<1> QED BY <1>1 DEF Atomic!Next

LEMMA TickStep ==
    ASSUME now' = now + 1, UNCHANGED <<row, outstanding, interrupted>>,
           LiveBar' = LiveBar, CodesBar' = CodesBar
    PROVE  Atomic!Next
<1>1. Atomic!Tick
  BY Zenon DEF Atomic!Tick, Atomic!credentials, LiveBar, CodesBar
<1> QED BY <1>1 DEF Atomic!Next

\* A call the specification does not speak of.
LEMMA StutterStep ==
    ASSUME UNCHANGED <<row, now, outstanding, interrupted>>,
           LiveBar' = LiveBar, CodesBar' = CodesBar
    PROVE  UNCHANGED Atomic!atomicVars
  BY DEF Atomic!atomicVars, Atomic!credentials, LiveBar, CodesBar

-----------------------------------------------------------------------------
(***************************************************************************)
(* The steps.                                                              *)
(***************************************************************************)

\* The mapping, where one worker serves the account.
LEMMA Bars ==
    ASSUME NEW w, Workers = {w}, NEW C, C = CallsOf(req[w].todo),
           NEW D, D = CallsOf(req'[w].todo)
    PROVE  /\ LiveBar = IF "blacklist_each" \in C /\ "update" \notin C THEN {} ELSE Live
           /\ LiveBar' = IF "blacklist_each" \in D /\ "update" \notin D THEN {} ELSE Live'
           /\ CodesBar = IF "codes_create" \in C /\ "update" \notin C
                         THEN {sets + 1} \X (1..CodesPerUser) ELSE Unused
           /\ CodesBar' = IF "codes_create" \in D /\ "update" \notin D
                          THEN {sets' + 1} \X (1..CodesPerUser) ELSE Unused'
<1>1. \A c : Committed(c) <=> c \in C /\ "update" \notin C
  BY DEF Committed, CallsOf
<1>2. "blacklist_each" \in D /\ "update" \notin D <=> Committed("blacklist_each")'
  BY DEF Committed, CallsOf
<1>3. "codes_create" \in D /\ "update" \notin D <=> Committed("codes_create")'
  BY DEF Committed, CallsOf
<1> QED BY <1>1, <1>2, <1>3 DEF LiveBar, CodesBar

\* What a worker knows at each of its calls.
LEMMA AtHead ==
    ASSUME IInv, HeldInv, OrderlyInv, NEW w \in Workers, req[w].todo # <<>>,
           NEW C, C = CallsOf(req[w].todo), NEW h, h = Head(req[w].todo)
    PROVE  /\ h \in C /\ \A c \in C : c = h \/ Rank(h) < Rank(c)
           /\ Held(req[w]) /\ Apart(C) /\ CallsOf(Tail(req[w].todo)) = C \ {h}
           /\ "update" \in C => h \in Prior \cup {"update"}
           /\ h = "update" => C \cap Prior = {}
           /\ "codes_delete" \in C => "codes_create" \in C
<1>1. Held(req[w]) /\ req[w].todo \in Seq(Calls) /\ Linked(req[w].todo)
  BY DEF IInv, TypeOK, HeldInv, OrderlyInv, Orderly, Ordered, Request
<1>2. Steady(req[w].todo) /\ Apart(C)
  BY <1>1 DEF Held
<1> QED BY <1>1, <1>2, TailCalls, PairCalls

\* Every step is one of the endpoint's promise, or changes nothing it is about.
LEMMA StepAtomic ==
    ASSUME SerialInv, NEW w, Workers = {w}, [Next]_vars
    PROVE  Atomic!Next \/ UNCHANGED Atomic!atomicVars
<1>0. /\ IInv /\ OrderlyInv /\ SweepComplete /\ HeldInv /\ TokensInv /\ SetsInv /\ w \in Workers
      /\ sets \in Nat /\ outstanding \in Nat /\ row \in Row /\ used \subseteq code_rows
      /\ code_rows \subseteq AllCodes /\ now \in Nat /\ req[w] \in Request
  BY TokenAssumption, BackupAssumption
     DEF SerialInv, IInv, TypeOK, BackupTypeOK, TokenTypeOK
<1>1. PICK C : C = CallsOf(req[w].todo)
  OBVIOUS
<1>2. PICK D : D = CallsOf(req'[w].todo)
  OBVIOUS
<1>3. /\ LiveBar = IF "blacklist_each" \in C /\ "update" \notin C THEN {} ELSE Live
      /\ LiveBar' = IF "blacklist_each" \in D /\ "update" \notin D THEN {} ELSE Live'
      /\ CodesBar = IF "codes_create" \in C /\ "update" \notin C
                    THEN {sets + 1} \X (1..CodesPerUser) ELSE Unused
      /\ CodesBar' = IF "codes_create" \in D /\ "update" \notin D
                     THEN {sets' + 1} \X (1..CodesPerUser) ELSE Unused'
  BY <1>1, <1>2, Bars
<1>4. Unused \subseteq (1..sets) \X (1..CodesPerUser) /\ Live \subseteq 1..outstanding
  BY <1>0 DEF SetsInv, Unused, Live, Outstanding
<1>5. UNCHANGED <<outstanding, blacklisted>> => Live' = Live
  BY DEF Live, Outstanding
<1>6. UNCHANGED <<code_rows, used>> => Unused' = Unused
  BY DEF Unused
<1>7. Idle.todo = <<>> /\ CallsOf(<<>>) = {}
  BY DEF Idle, CallsOf
<1>8. CASE Handle(w)
  <2>1. PICK n : req' = [req EXCEPT ![w] = n] /\ Fresh(n)
    BY <1>0, <1>8, HandlerFresh
  <2>2. req'[w] = n
    BY <1>0, <2>1, Placed
  <2>3. UNCHANGED <<row, now, outstanding, blacklisted, interrupted, code_rows, used, sets>>
    BY <1>0, <1>8, HandlerLeaves, HandlerNow DEF backupVars, faultVars
  <2>4. C = {}
    BY <1>0, <1>1, <1>7, <1>8, HandlerRests DEF OrderlyInv, Orderly
  <2>5. Commits(D)
    BY <1>2, <2>1, <2>2 DEF Fresh
  <2>6. LiveBar' = LiveBar
    BY <1>3, <1>5, <2>3, <2>4, <2>5 DEF Commits
  <2>7. CASE "codes_create" \in D /\ "update" \notin D
    <3>1. row.mfa_enabled /\ row.mfa_secret # None
      BY <2>5, <2>7 DEF Commits
    <3>2. CodesBar' = {sets + 1} \X (1..CodesPerUser) /\ CodesBar = Unused
      BY <1>3, <2>3, <2>4, <2>7
    <3> QED BY <1>0, <1>4, <2>3, <2>6, <3>1, <3>2, GivingSteps
  <2>8. CASE ~("codes_create" \in D /\ "update" \notin D)
    <3>1. CodesBar' = CodesBar
      BY <1>3, <1>6, <2>3, <2>4, <2>8
    <3> QED BY <2>3, <2>6, <3>1, StutterStep
  <2> QED BY <2>7, <2>8
<1>9. CASE Interrupt(w)
  <2>1. /\ UNCHANGED <<row, now, outstanding, blacklisted, code_rows, used, sets>>
        /\ interrupted' = interrupted + 1 /\ req' = [req EXCEPT ![w] = Idle]
    BY <1>9 DEF Interrupt, accountVars, tokenVars, backupVars
  <2>2. D = {}
    <3>1. req'[w] = Idle
      BY <1>0, <2>1, Placed
    <3> QED BY <1>2, <1>7, <3>1
  <2>3. LiveBar' = Live /\ CodesBar' = Unused
    BY <1>3, <1>5, <1>6, <2>1, <2>2
  <2>4. CodesBar' = CodesBar \/ CodesBar \cap CodesBar' = {}
    <3>1. sets + 1 \notin 1..sets
      BY <1>0
    <3>2. Unused \cap ({sets + 1} \X (1..CodesPerUser)) = {}
      BY <1>4, <3>1
    <3> QED BY <1>3, <2>3, <3>2
  <2>5. LiveBar \subseteq LiveBar' /\ LiveBar' \subseteq 1..outstanding
    BY <1>3, <1>4, <2>3
  <2> QED BY <2>1, <2>4, <2>5, CutOffStep
<1>10. CASE (\E ns \in Namespaces : OtpExpire(ns)) \/ UNCHANGED vars
  <2>1. UNCHANGED <<row, now, outstanding, blacklisted, interrupted, code_rows, used, sets, req>>
    BY <1>10 DEF OtpExpire, vars, accountVars, faultVars, tokenVars, backupVars
  <2>2. LiveBar' = LiveBar /\ CodesBar' = CodesBar
    BY <1>1, <1>2, <1>3, <1>5, <1>6, <2>1
  <2> QED BY <2>1, <2>2, StutterStep
<1>11. CASE Tick
  <2>1. /\ UNCHANGED <<row, outstanding, blacklisted, interrupted, code_rows, used, sets, req>>
        /\ now' = now + 1
    BY <1>11 DEF Tick, faultVars, tokenVars, backupVars
  <2>2. LiveBar' = LiveBar /\ CodesBar' = CodesBar
    BY <1>1, <1>2, <1>3, <1>5, <1>6, <2>1
  <2> QED BY <2>1, <2>2, TickStep
<1>12. CASE Call(w)
  <2>1. PICK h : h = Head(req[w].todo)
    OBVIOUS
  <2>2. req[w].todo # <<>> /\ ((Fail(w) /\ h \in Checks) \/ Loops(w) \/ Onward(w))
    BY <1>0, <1>12, <2>1, CallMoves
  <2>3. /\ h \in C /\ \A c \in C : c = h \/ Rank(h) < Rank(c)
        /\ Held(req[w]) /\ Apart(C) /\ CallsOf(Tail(req[w].todo)) = C \ {h}
        /\ "update" \in C => h \in Prior \cup {"update"}
        /\ h = "update" => C \cap Prior = {}
        /\ "codes_delete" \in C => "codes_create" \in C
    BY <1>0, <1>1, <2>1, <2>2, AtHead
  <2>4. now' = now /\ interrupted' = interrupted
    BY <1>0, <1>12, CallWrites, CallUncut
  <2>5. /\ h # "update" => row' = row
        /\ h # "issue" => outstanding' = outstanding
        /\ h \notin {"blacklist", "blacklist_each"} => blacklisted' = blacklisted
        /\ h \notin {"codes_delete", "codes_create", "code_save"} => code_rows' = code_rows /\ used' = used
        /\ h # "codes_create" => sets' = sets
    BY <1>0, <1>12, <2>1, CallWrites
  <2>6. h \in Checks => /\ ~("blacklist_each" \in C /\ "update" \notin C)
                        /\ ~("codes_create" \in C /\ "update" \notin C)
    BY <2>3 DEF Apart, Single, Prior, Checks
  <2>7. Fail(w) => D = {}
    <3>1. Fail(w) => req'[w] = Idle
      BY <1>0, Placed DEF Fail, Serve
    <3> QED BY <1>2, <1>7, <3>1
  <2>8. Loops(w) => D = C /\ h = "blacklist_each"
    <3> SUFFICES ASSUME Loops(w) PROVE D = C /\ h = "blacklist_each"
      OBVIOUS
    <3>1. PICK t : req' = [req EXCEPT ![w] = [req[w] EXCEPT !.toks = @ \ {t}]]
      BY DEF Loops, Serve
    <3>2. req'[w].todo = req[w].todo
      BY <1>0, <3>1 DEF IInv, TypeOK, Request
    <3> QED BY <1>1, <1>2, <2>1, <3>2 DEF Loops, AtCall
  <2>9. Onward(w) => D = C \ {h}
    <3> SUFFICES ASSUME Onward(w) PROVE D = C \ {h}
      OBVIOUS
    <3>1. PICK n : req' = [req EXCEPT ![w] = n] /\ Moved(req[w], n)
      BY DEF Onward
    <3>2. req'[w].todo = Tail(req[w].todo)
      <4>1. req'[w] = n
        BY <1>0, <3>1, Placed
      <4> QED BY <3>1, <4>1 DEF Moved
    <3> QED BY <1>2, <2>3, <3>2
  <2>10. h \notin {"update", "blacklist_each", "codes_create"} =>
            /\ "blacklist_each" \in D /\ "update" \notin D
                  <=> "blacklist_each" \in C /\ "update" \notin C
            /\ "codes_create" \in D /\ "update" \notin D
                  <=> "codes_create" \in C /\ "update" \notin C
    BY <2>2, <2>6, <2>7, <2>8, <2>9
  <2>11. CASE h \notin {"update", "issue", "blacklist", "blacklist_each",
                        "codes_delete", "codes_create", "code_save"}
    <3>1. LiveBar' = LiveBar /\ CodesBar' = CodesBar
      BY <1>3, <1>5, <1>6, <2>5, <2>10, <2>11
    <3> QED BY <2>4, <2>5, <2>11, <3>1, StutterStep
  <2>12. CASE h = "update"
    <3>1. PICK recent, r : recent = RecentHashes /\ r = req[w]
      OBVIOUS
    <3>2. UpdateUser(w)
      BY <1>0, <1>12, <2>1, <2>12, CallIsAlso
    <3>3. Intends(row, now, recent, r) /\ row' = Written(row, r) /\ C \cap Prior = {}
      BY <1>0, <1>1, <3>1, <3>2, UpdateWrites
    <3>4. D = C \ {"update"}
      BY <2>2, <2>8, <2>9, <2>12 DEF Checks
    <3>5. /\ LiveBar = Live /\ CodesBar = Unused
          /\ LiveBar' = IF "blacklist_each" \in C THEN {} ELSE Live
          /\ CodesBar' = IF "codes_create" \in C THEN {sets + 1} \X (1..CodesPerUser) ELSE Unused
      BY <1>3, <1>5, <1>6, <2>3, <2>5, <2>12, <3>4
    <3>6. /\ UNCHANGED <<now, interrupted, outstanding>>
          /\ ~({"blacklist_each", "codes_create"} \subseteq C) /\ "otp_get" \notin C
      BY <2>3, <2>4, <2>5, <2>12, <3>3 DEF Apart, Prior
    <3>7. \/ /\ {"blacklist_each", "codes_create", "history_insert"} \cap C = {}
             /\ EditsRow(row, row') \/ CountsAttempt(row, now, row') \/ ClearsAttempts(row, now, row')
          \/ "blacklist_each" \in C /\ (SetsPassword(row, recent, r, row') \/ ClosesAccount(row, row'))
          \/ "codes_create" \in C /\ TurnsOn(row, r, row')
      BY <1>1, <3>1, <3>3 DEF Intends
    <3>8. CASE /\ {"blacklist_each", "codes_create", "history_insert"} \cap C = {}
               /\ EditsRow(row, row') \/ CountsAttempt(row, now, row') \/ ClearsAttempts(row, now, row')
      <4>1. LiveBar' = LiveBar /\ CodesBar' = CodesBar
        BY <3>5, <3>8
      <4> QED BY <3>6, <3>8, <4>1, RowSteps
    <3>9. CASE "blacklist_each" \in C /\ (SetsPassword(row, recent, r, row') \/ ClosesAccount(row, row'))
      <4>1. LiveBar' = {} /\ CodesBar' = CodesBar
        BY <3>5, <3>6, <3>9
      <4> QED BY <3>6, <3>9, <4>1, EndingSteps
    <3>10. CASE "codes_create" \in C /\ TurnsOn(row, r, row')
      <4>1. LiveBar' = LiveBar /\ CodesBar' = {sets + 1} \X (1..CodesPerUser)
        BY <3>5, <3>6, <3>10
      <4>2. \E type \in MfaTypes :
                 /\ ~row.mfa_enabled
                 /\ row' = [row EXCEPT !.mfa_enabled = TRUE, !.mfa_type = type]
                 /\ type = "totp" => row.mfa_secret # None
                 /\ type = "sms" => row.contact # None
        BY <1>1, <3>1, <3>6, <3>10 DEF TurnsOn
      <4> QED BY <1>0, <1>4, <3>5, <3>6, <4>1, <4>2, GivingSteps
    <3> QED BY <3>7, <3>8, <3>9, <3>10
  <2>13. CASE h = "issue"
    <3>1. IssueToken(w)
      BY <1>0, <1>12, <2>1, <2>13, CallIsAlso
    <3>2. outstanding' = outstanding + 1
      BY <3>1 DEF IssueToken, RecordOutstanding
    <3>3. "user_active" \notin C
      BY <2>3, <2>13 DEF Rank
    <3>4. row.is_active \/ row.mfa_enabled
      BY <1>1, <2>3, <2>13, <3>3 DEF Held
    <3>5. "blacklist_each" \notin C /\ "codes_create" \notin C
      BY <2>3, <2>13 DEF Apart, Single
    <3>6. LiveBar = Live /\ LiveBar' = Live' /\ CodesBar' = CodesBar
      BY <1>3, <1>6, <2>5, <2>10, <2>13, <3>5
    <3>7. Live' = Live \cup {outstanding + 1}
      <4>1. blacklisted' = blacklisted /\ outstanding + 1 \notin blacklisted
        BY <1>0, <2>5, <2>13 DEF TokensInv
      <4>2. 1..(outstanding + 1) = (1..outstanding) \cup {outstanding + 1}
        BY <1>0
      <4> QED BY <3>2, <4>1, <4>2 DEF Live, Outstanding
    <3>8. row' = row
      BY <2>5, <2>13
    <3> QED BY <2>4, <3>2, <3>4, <3>6, <3>7, <3>8, IssueStep
  <2>14. CASE h = "blacklist"
    <3>1. BlacklistToken(w)
      BY <1>0, <1>12, <2>1, <2>14, CallIsAlso
    <3>2. PICK t : t = req[w].jti
      OBVIOUS
    <3>3. blacklisted' = blacklisted \cup {t} /\ outstanding' = outstanding /\ row' = row
      BY <2>5, <2>14, <3>1, <3>2 DEF BlacklistToken, Blacklist
    <3>4. Live' = Live \ {t}
      BY <3>3 DEF Live, Outstanding
    <3>5. "blacklist_each" \notin C /\ "codes_create" \notin C
      BY <2>3, <2>14 DEF Apart, Single
    <3>6. LiveBar = Live /\ LiveBar' = Live' /\ CodesBar' = CodesBar
      BY <1>3, <1>6, <2>5, <2>10, <2>14, <3>5
    <3>7. CASE t \in Live
      BY <2>4, <3>3, <3>4, <3>6, <3>7, RevokeStep
    <3>8. CASE t \notin Live
      <4>1. LiveBar' = LiveBar
        BY <3>4, <3>6, <3>8
      <4> QED BY <2>4, <3>3, <3>6, <4>1, StutterStep
    <3> QED BY <3>7, <3>8
  <2>15. CASE h = "blacklist_each"
    <3>1. "update" \notin C /\ "blacklist_each" \in C /\ "codes_create" \notin C
      BY <2>3, <2>15 DEF Prior, Apart
    <3>2. LiveBar = {} /\ CodesBar = Unused /\ "codes_create" \notin D
      BY <1>3, <2>2, <2>7, <2>8, <2>9, <3>1
    <3>3. CodesBar' = CodesBar
      BY <1>3, <1>6, <2>5, <2>15, <3>2
    <3>4. LiveBar' = {}
      <4>1. CASE Loops(w)
        BY <1>3, <2>8, <3>1, <4>1
      <4>2. CASE ~Loops(w)
        <5>1. BlacklistEach(w) /\ AtCall(w, "blacklist_each")
          BY <1>0, <1>12, <2>1, <2>2, <2>15, CallIs DEF AtCall
        <5>2. req[w].toks = {} /\ blacklisted' = blacklisted
          BY <4>2, <5>1 DEF BlacklistEach, Loops, tokenVars
        <5>3. "tokens_query" \notin C
          BY <2>3, <2>15 DEF Rank
        <5>4. req[w].seen = outstanding
          BY <1>1, <2>3, <3>1, <5>3 DEF Held
        <5>5. 1..outstanding \subseteq blacklisted
          BY <1>0, <5>1, <5>2, <5>4 DEF SweepComplete
        <5>6. Live' = {}
          BY <2>5, <2>15, <5>2, <5>5 DEF Live, Outstanding
        <5> QED BY <1>3, <5>6
      <4> QED BY <4>1, <4>2
    <3> QED BY <2>4, <2>5, <2>15, <3>2, <3>3, <3>4, StutterStep
  <2>16. CASE h = "codes_delete"
    <3>1. "codes_create" \in C /\ "update" \notin C
      BY <2>3, <2>16 DEF Prior
    <3>2. LiveBar' = LiveBar
      BY <1>3, <1>5, <2>5, <2>10, <2>16
    <3>3. CodesBar' = CodesBar
      BY <1>3, <2>5, <2>10, <2>16, <3>1
    <3> QED BY <2>4, <2>5, <2>16, <3>2, <3>3, StutterStep
  <2>17. CASE h = "codes_create"
    <3>1. "codes_create" \in C /\ "update" \notin C /\ "blacklist_each" \notin C
      BY <2>3, <2>17 DEF Prior, Apart
    <3>2. CodesCreate(w)
      BY <1>0, <1>12, <2>1, <2>2, <2>17, CallIs DEF AtCall
    <3>3. "codes_delete" \notin C
      BY <2>3, <2>17 DEF Rank
    <3>4. code_rows = {} /\ used = {}
      BY <1>0, <1>1, <2>3, <3>1, <3>3 DEF Held
    <3>5. Unused' = {sets + 1} \X (1..CodesPerUser)
      BY <3>2, <3>4 DEF CodesCreate, CreateCodes, Unused
    <3>6. D = C \ {"codes_create"}
      BY <2>2, <2>8, <2>9, <2>17 DEF Checks
    <3>7. CodesBar' = CodesBar
      BY <1>3, <3>1, <3>5, <3>6
    <3>8. LiveBar' = LiveBar
      BY <1>3, <1>5, <2>5, <2>17, <3>1, <3>6
    <3> QED BY <2>4, <2>5, <2>17, <3>7, <3>8, StutterStep
  <2>18. CASE h = "code_save"
    <3>1. CodeSave(w)
      BY <1>0, <1>12, <2>1, <2>18, CallIsAlso
    <3>2. "codes_find" \notin C
      BY <2>3, <2>18 DEF Rank
    <3>3. PICK b : b = req[w].backup
      OBVIOUS
    <3>4. row.mfa_enabled /\ b \in Unused
      BY <1>1, <2>3, <2>18, <3>2, <3>3 DEF Held
    <3>5. used' = used \cup {b} /\ code_rows' = code_rows
      BY <3>1, <3>3, <3>4 DEF CodeSave, Saveable, MarkUsed, Unused
    <3>6. Unused' = Unused \ {b}
      BY <3>5 DEF Unused
    <3>7. "blacklist_each" \notin C /\ "codes_create" \notin C
      BY <2>3, <2>18 DEF Apart, Single
    <3>8. LiveBar' = LiveBar /\ CodesBar = Unused /\ CodesBar' = Unused'
      BY <1>3, <1>5, <2>5, <2>10, <2>18, <3>7
    <3>9. row' = row /\ outstanding' = outstanding
      BY <2>5, <2>18
    <3> QED BY <2>4, <3>4, <3>6, <3>8, <3>9, RedeemStep
  <2> QED BY <2>11, <2>12, <2>13, <2>14, <2>15, <2>16, <2>17, <2>18
<1> QED BY <1>8, <1>9, <1>10, <1>11, <1>12, StepAlone

\* A new account is one of the specification's.
LEMMA InitAtomic == Init => Atomic!Init
<1> SUFFICES ASSUME Init PROVE Atomic!Init
  OBVIOUS
<1>1. \A w \in Workers : req[w].todo = <<>>
  BY DEF Init, Idle
<1>2. ~Committed("blacklist_each") /\ ~Committed("codes_create")
  BY <1>1 DEF Committed
<1>3. LiveBar = 1..OpenSessions /\ CodesBar = {} /\ outstanding = OpenSessions
  BY <1>2 DEF LiveBar, CodesBar, Live, Outstanding, Unused, Init, TokenInit, BackupInit
<1>4. row \in InitialRows /\ now = 0 /\ interrupted = 0
  BY DEF Init
<1> QED BY <1>3, <1>4 DEF Atomic!Init, Atomic!InitialRows, Atomic!NewRows, Atomic!NewRow,
       LiveBar, CodesBar, InitialRows, NewRows, NewRow

\* Requests that do not overlap act on the row, the tokens and the backup codes
\* as if each took effect at once, and each changes only what its endpoint is
\* about, for every set of endpoints and every limit.
THEOREM AccountActsAtomically == ASSUME Alone PROVE Spec => AccountIsAtomic
<1>1. SerialInv /\ [Next]_vars => [Atomic!Next]_(Atomic!atomicVars)
  BY StepAtomic DEF Alone
<1> QED BY <1>1, InitAtomic, SerialInvariant, PTL DEF Spec, AccountIsAtomic, Atomic!Spec
=============================================================================
