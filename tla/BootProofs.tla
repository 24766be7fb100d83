----------------------------- MODULE BootProofs ------------------------------
(***************************************************************************)
(* Seeding is safe to repeat: for any number of containers and addresses,  *)
(* the superadmin's address is never taken by anyone else while there is   *)
(* no superadmin.  A request can insert a row only in a container that is  *)
(* up, a container is up only after its seed, and superadmins stay.        *)
(* Then the types of all that is kept, with which come the single creation *)
(* of rows and the finality of a flag's deletion.                          *)
(***************************************************************************)
EXTENDS Boot, TLAPS

SeedTypeOK ==
    /\ users \in [Emails -> UserRow \cup {NoUser}]
    /\ creating \in [Processes -> Creation]
    /\ boot \in [Processes -> Phases]

\* A container past its seed, and one whose request is about to insert a row.
Seeded(p) == boot[p] \in {"flag", "create_flag", "reread_flag", "up"}
Inserting(p) == creating[p].phase = "insert"

SeedInv ==
    /\ SeedTypeOK
    /\ SeedNeverBlocked
    /\ \A p \in Processes : Seeded(p) => SuperuserExists
    /\ \A p \in Processes : Inserting(p) => boot[p] = "up"

\* The superadmin found before is found again when its row is kept, or only
\* verified.
LEMMA SuperadminStays ==
    ASSUME SeedTypeOK, SuperuserExists,
           \A e \in Emails : Taken(e) => users'[e] # NoUser
                                         /\ users'[e].is_superuser = users[e].is_superuser
    PROVE  SuperuserExists'
  BY DEF SuperuserExists, Taken

\* An insert adds a row at an address that was free.
LEMMA InsertAdds ==
    ASSUME SeedTypeOK, NEW e \in Emails, NEW user \in UserRow, CreateUser(e, user)
    PROVE  /\ users' \in [Emails -> UserRow \cup {NoUser}]
           /\ users'[e] = user /\ user # NoUser
           /\ \A d \in Emails : d # e => users'[d] = users[d]
           /\ \A d \in Emails : Taken(d) => users'[d] = users[d]
  BY CreationAssumption DEF SeedTypeOK, CreateUser, Taken

\* The rows that are inserted.
LEMMA RowsAreRows ==
    /\ Registered \in UserRow /\ SignedUp \in UserRow
    /\ Superadmin \in UserRow /\ Superadmin.is_superuser
  BY DEF Registered, SignedUp, Superadmin, UserRow

\* A step that leaves the users alone, seeds no container that was not seeded
\* while there is no superadmin, and starts inserting only where one is up.
LEMMA QuietStep ==
    ASSUME SeedInv, UNCHANGED users, SeedTypeOK',
           \A p \in Processes : Seeded(p)' => Seeded(p) \/ SuperuserExists,
           \A p \in Processes : Inserting(p)' => boot'[p] = "up"
    PROVE  SeedInv'
  BY DEF SeedInv, SeedNeverBlocked, SuperuserExists, Taken

\* Starting, seeding the flag, failing and stopping change no user.
LEMMA BootStep ==
    ASSUME SeedInv, NEW p \in Processes,
           \/ StartContainer(p) \/ SeedCheck(p) \/ SeedConflict(p) \/ SeedFlagGet(p)
           \/ SeedFlagCreate(p) \/ SeedFlagReread(p) \/ SeedError(p)
    PROVE  SeedInv'
<1>1. UNCHANGED <<users, creating>>
  BY DEF StartContainer, SeedCheck, SeedFlagGet, SeedFlagCreate, SeedFlagReread,
     SeedConflict, SeedError, creationVars
<1>2. PICK phase \in Phases :
          /\ boot' = [boot EXCEPT ![p] = phase]
          /\ phase \in {"flag", "create_flag", "reread_flag", "up"} => Seeded(p) \/ SuperuserExists
          /\ boot[p] # "up"
  BY DEF StartContainer, SeedCheck, SeedFlagGet, SeedFlagCreate, SeedFlagReread,
     SeedConflict, SeedError, Reach, Phases, Seeded
<1>3. SeedTypeOK'
  BY <1>1, <1>2 DEF SeedInv, SeedTypeOK
<1>4. \A q \in Processes : Seeded(q)' => Seeded(q) \/ SuperuserExists
  BY <1>2 DEF Seeded, SeedInv, SeedTypeOK
<1>5. \A q \in Processes : Inserting(q)' => boot'[q] = "up"
  BY <1>1, <1>2 DEF Inserting, SeedInv, SeedTypeOK
<1> QED  BY <1>1, <1>3, <1>4, <1>5, QuietStep

\* A container that stops drops the request it served.
LEMMA StopStep ==
    ASSUME SeedInv, NEW p \in Processes, StopContainer(p)
    PROVE  SeedInv'
<1>1. /\ UNCHANGED users /\ boot' = [boot EXCEPT ![p] = "down"]
      /\ creating' = [creating EXCEPT ![p] = NoCreation]
  BY DEF StopContainer, Reach, End
<1>2. NoCreation \in Creation /\ NoCreation.phase = "idle"
  BY CreationAssumption DEF NoCreation, Creation
<1>3. SeedTypeOK'
  BY <1>1, <1>2 DEF SeedInv, SeedTypeOK, Phases
<1>4. \A q \in Processes : Seeded(q)' => Seeded(q) \/ SuperuserExists
  BY <1>1 DEF Seeded, SeedInv, SeedTypeOK
<1>5. \A q \in Processes : Inserting(q)' => boot'[q] = "up"
  BY <1>1, <1>2 DEF Inserting, SeedInv, SeedTypeOK
<1> QED  BY <1>1, <1>3, <1>4, <1>5, QuietStep

\* The seed of the superadmin.
LEMMA SeedStep ==
    ASSUME SeedInv, NEW p \in Processes, SeedSuperadmin(p)
    PROVE  SeedInv'
<1>1. CreateUser(SeedEmail, Superadmin) /\ UNCHANGED creating
      /\ boot' = [boot EXCEPT ![p] = "flag"] /\ boot[p] = "create_superuser"
  BY DEF SeedSuperadmin, Reach
<1>2. /\ users' \in [Emails -> UserRow \cup {NoUser}]
      /\ users'[SeedEmail] = Superadmin /\ Superadmin # NoUser
  BY <1>1, InsertAdds, RowsAreRows, CreationAssumption DEF SeedInv
<1>3. SuperuserExists'
  BY <1>2, RowsAreRows, CreationAssumption DEF SuperuserExists, Taken
<1>4. SeedTypeOK'
  BY <1>1, <1>2 DEF SeedInv, SeedTypeOK, Phases
<1>5. \A q \in Processes : Inserting(q)' => boot'[q] = "up"
  BY <1>1 DEF Inserting, SeedInv, SeedTypeOK
<1> QED  BY <1>3, <1>4, <1>5 DEF SeedInv, SeedNeverBlocked

\* Requests that may create a row: they insert one only where it is served.
LEMMA CreationStep ==
    ASSUME SeedInv, NEW p \in Processes, ServeCreation(p)
    PROVE  SeedInv'
<1>1. boot[p] = "up" /\ UNCHANGED boot /\ SuperuserExists
  BY DEF ServeCreation, SeedInv, Seeded
<1>2. NoCreation \in Creation
  BY CreationAssumption DEF NoCreation, Creation
<1>3. CASE InsertUser(p)
  <2> DEFINE e == creating[p].email
             user == IF creating[p].op = "register" THEN Registered ELSE SignedUp
  <2>1. e \in Emails /\ user \in UserRow
    BY RowsAreRows DEF SeedInv, SeedTypeOK, Creation
  <2>2. CreateUser(e, user) /\ creating' = [creating EXCEPT ![p].phase = "finish"]
    BY <1>3 DEF InsertUser, Move
  <2>3. /\ users' \in [Emails -> UserRow \cup {NoUser}]
        /\ \A d \in Emails : Taken(d) => users'[d] = users[d]
    BY <2>1, <2>2, InsertAdds DEF SeedInv
  <2>4. SuperuserExists'
    BY <1>1, <2>3 DEF SuperuserExists, Taken
  <2>5. creating' \in [Processes -> Creation]
    BY <2>2 DEF SeedInv, SeedTypeOK, Creation
  <2>6. SeedTypeOK'
    BY <1>1, <2>3, <2>5 DEF SeedInv, SeedTypeOK
  <2>7. \A q \in Processes : Inserting(q)' => boot'[q] = "up"
    BY <1>1, <2>2 DEF Inserting, SeedInv, SeedTypeOK
  <2> QED  BY <1>1, <2>4, <2>6, <2>7 DEF SeedInv, SeedNeverBlocked
<1>4. CASE ~InsertUser(p)
  <2>1. /\ UNCHANGED users
        /\ \E c \in Creation : creating' = [creating EXCEPT ![p] = c]
    <3>1. CASE \E op \in {"register", "social"}, e \in Emails : BeginCreation(p, op, e)
      BY <3>1 DEF BeginCreation, Creation
    <3>2. CASE InsertRefused(p) \/ FinishCreation(p)
      BY <3>2, <1>2 DEF InsertRefused, FinishCreation, End
    <3>3. CASE GetExisting(p)
      <4>1. CASE End(p)
        BY <3>3, <4>1, <1>2 DEF GetExisting, End
      <4>2. CASE Move(p, "finish")
        <5>1. [creating[p] EXCEPT !.phase = "finish"] \in Creation
          BY DEF SeedInv, SeedTypeOK, Creation
        <5>2. creating' = [creating EXCEPT ![p] = [creating[p] EXCEPT !.phase = "finish"]]
          BY <4>2 DEF Move, SeedInv, SeedTypeOK
        <5> QED  BY <3>3, <5>1, <5>2 DEF GetExisting
      <4> QED  BY <3>3, <4>1, <4>2 DEF GetExisting
    <3> QED  BY <1>4, <3>1, <3>2, <3>3 DEF ServeCreation
  <2>2. SeedTypeOK'
    BY <1>1, <2>1 DEF SeedInv, SeedTypeOK
  <2>3. \A q \in Processes : Inserting(q)' => boot'[q] = "up"
    BY <1>1, <2>1 DEF Inserting, SeedInv, SeedTypeOK
  <2>4. \A q \in Processes : Seeded(q)' => Seeded(q) \/ SuperuserExists
    BY <1>1
  <2> QED  BY <2>1, <2>2, <2>3, <2>4, QuietStep
<1> QED  BY <1>3, <1>4

\* Verifying an address keeps every row, and who is a superadmin.
LEMMA VerifyStep ==
    ASSUME SeedInv, Verify
    PROVE  SeedInv'
<1>1. PICK e \in Emails : VerifyUser(e)
  BY DEF Verify
<1>2. UNCHANGED <<boot, creating>> /\ Taken(e)
      /\ users' = [users EXCEPT ![e].is_email_verified = TRUE]
  BY <1>1 DEF Verify, VerifyUser
<1>3. users[e] \in UserRow
  BY <1>2 DEF Taken, SeedInv, SeedTypeOK
<1>4. [users[e] EXCEPT !.is_email_verified = TRUE] \in UserRow
      /\ [users[e] EXCEPT !.is_email_verified = TRUE].is_superuser = users[e].is_superuser
  BY <1>3 DEF UserRow
<1>5. users' = [users EXCEPT ![e] = [users[e] EXCEPT !.is_email_verified = TRUE]]
  BY <1>2 DEF SeedInv, SeedTypeOK
<1>6. SeedTypeOK'
  BY <1>2, <1>4, <1>5 DEF SeedInv, SeedTypeOK
<1>7. \A d \in Emails : Taken(d) => users'[d] # NoUser
                          /\ users'[d].is_superuser = users[d].is_superuser
  BY <1>4, <1>5, CreationAssumption DEF Taken, SeedInv, SeedTypeOK
<1>8. SuperuserExists => SuperuserExists'
  BY <1>7, SuperadminStays DEF SeedInv
<1>9. Taken(SeedEmail)' => Taken(SeedEmail)
  BY <1>2, <1>5, CreationAssumption DEF Taken, SeedInv, SeedTypeOK
<1> QED  BY <1>2, <1>6, <1>8, <1>9 DEF SeedInv, SeedNeverBlocked, Seeded, Inserting

\* The invariant holds of every behaviour.
THEOREM SeedInductive == BootSpec => []SeedInv
<1>1. BootInit => SeedInv
  <2> SUFFICES ASSUME BootInit PROVE SeedInv
    OBVIOUS
  <2>1. /\ users = [e \in Emails |-> NoUser] /\ boot = [p \in Processes |-> "down"]
        /\ creating = [p \in Processes |-> NoCreation]
    BY DEF BootInit, CreationInit
  <2>2. NoCreation \in Creation /\ NoCreation.phase = "idle"
    BY CreationAssumption DEF NoCreation, Creation
  <2>3. SeedTypeOK
    BY <2>1, <2>2 DEF SeedTypeOK, Phases
  <2>4. ~Taken(SeedEmail)
    BY <2>1, CreationAssumption DEF Taken
  <2> QED  BY <2>1, <2>2, <2>3, <2>4 DEF SeedInv, SeedNeverBlocked, Seeded, Inserting
<1>2. SeedInv /\ [BootNext]_bootVars => SeedInv'
  <2> SUFFICES ASSUME SeedInv, [BootNext]_bootVars PROVE SeedInv'
    OBVIOUS
  <2>1. ASSUME NEW p \in Processes, ServeEdit(p) PROVE UNCHANGED <<boot, creationVars>>
    BY <2>1 DEF ServeEdit
  <2>2. CASE UNCHANGED <<boot, creationVars>>
    <3>1. UNCHANGED <<boot, users, creating>>
      BY <2>2 DEF creationVars
    <3> QED  BY <3>1 DEF SeedInv, SeedTypeOK, SeedNeverBlocked, SuperuserExists, Taken,
                         Seeded, Inserting
  <2>3. CASE UNCHANGED bootVars
    BY <2>2, <2>3 DEF bootVars
  <2> QED  BY <2>1, <2>2, <2>3, BootStep, StopStep, SeedStep, CreationStep, VerifyStep
           DEF BootNext, Seed
<1> QED  BY <1>1, <1>2, PTL DEF BootSpec

\* A container whose seed failed can always be started again: the address of
\* the superadmin is taken only when there is one (seed_superadmin.py:25).
THEOREM SeedCanBeRepeated == BootSpec => []SeedNeverBlocked
<1>1. SeedInv => SeedNeverBlocked
  BY DEF SeedInv
<1> QED  BY <1>1, SeedInductive, PTL

-----------------------------------------------------------------------------
(***************************************************************************)
(* Types, and that a row is created once.                                  *)
(***************************************************************************)
OneRow == CreationTypeOK /\ CreatedOnce
TypedInv == OneRow /\ BootTypeOK

\* The placeholders of a container that serves no request.
LEMMA NothingServed == NoCreation \in Creation /\ NoEdit \in Edit
<1>1. (CHOOSE k \in Keys : TRUE) \in Keys
  BY BootAssumption
<1>2. [f \in Fields |-> 0] \in FlagRow
  BY FlagAssumption DEF FlagRow
<1>3. 0 \in 0..MaxEdits
  BY FlagAssumption
<1> QED BY <1>1, <1>2, <1>3, CreationAssumption DEF NoCreation, Creation, NoEdit, Edit

\* An insert past the unique index makes one row more, and only one.
LEMMA CreateOnce ==
    ASSUME OneRow, NEW e \in Emails, NEW user \in UserRow, CreateUser(e, user),
           creating' \in [Processes -> Creation]
    PROVE  OneRow'
<1>1. ~Taken(e) /\ created[e] = 0
  BY DEF OneRow, CreatedOnce, CreateUser
<1>2. users' = [users EXCEPT ![e] = user] /\ created' = [created EXCEPT ![e] = @ + 1]
  BY DEF CreateUser
<1>3. created' \in [Emails -> Nat] /\ created'[e] = 1
  BY <1>1, <1>2 DEF OneRow, CreationTypeOK
<1>4. CreationTypeOK'
  BY <1>2, <1>3 DEF OneRow, CreationTypeOK
<1>5. ASSUME NEW d \in Emails PROVE created'[d] = IF Taken(d)' THEN 1 ELSE 0
  <2>1. CASE d = e
    BY <1>2, <1>3, <2>1, CreationAssumption DEF Taken, OneRow, CreationTypeOK
  <2>2. CASE d # e
    BY <1>2, <2>2 DEF Taken, OneRow, CreationTypeOK, CreatedOnce
  <2> QED BY <2>1, <2>2
<1> QED BY <1>4, <1>5 DEF OneRow, CreatedOnce

\* Steps that create no row.
LEMMA CreateNone ==
    ASSUME OneRow, UNCHANGED <<users, created>>, creating' \in [Processes -> Creation]
    PROVE  OneRow'
  BY DEF OneRow, CreationTypeOK, CreatedOnce, Taken

\* Registrations and first sign-ins.
LEMMA CreationKeepsOneRow ==
    ASSUME OneRow, NEW p \in Processes, ServeCreation(p)
    PROVE  OneRow'
<1>0. creating[p] \in Creation
  BY DEF OneRow, CreationTypeOK
<1>1. \A c \in Creation : [creating EXCEPT ![p] = c] \in [Processes -> Creation]
  BY DEF OneRow, CreationTypeOK
<1>2. ASSUME NEW phase \in {"idle", "get", "insert", "finish"}, Move(p, phase)
      PROVE  creating' \in [Processes -> Creation]
  <2>1. [creating[p] EXCEPT !.phase = phase] \in Creation
    BY <1>0 DEF Creation
  <2>2. creating' = [creating EXCEPT ![p] = [creating[p] EXCEPT !.phase = phase]]
    BY <1>2 DEF Move, OneRow, CreationTypeOK
  <2> QED BY <1>1, <2>1, <2>2
<1>3. End(p) => creating' \in [Processes -> Creation]
  BY <1>1, NothingServed DEF End
<1>4. CASE \E op \in {"register", "social"}, e \in Emails : BeginCreation(p, op, e)
  <2>1. PICK op \in {"register", "social"}, e \in Emails : BeginCreation(p, op, e)
    BY <1>4
  <2>2. [op |-> op, email |-> e, phase |-> IF Taken(e) THEN "get" ELSE "insert"] \in Creation
    BY DEF Creation
  <2> QED BY <1>1, <2>1, <2>2, CreateNone DEF BeginCreation
<1>5. CASE GetExisting(p)
  BY <1>2, <1>3, <1>5, CreateNone DEF GetExisting
<1>6. CASE InsertUser(p)
  <2>1. creating[p].email \in Emails
    BY <1>0 DEF Creation
  <2> QED BY <1>2, <1>6, <2>1, RowsAreRows, CreateOnce DEF InsertUser
<1>7. CASE InsertRefused(p)
  BY <1>3, <1>7, CreateNone DEF InsertRefused
<1>8. CASE FinishCreation(p)
  BY <1>3, <1>8, CreateNone DEF FinishCreation
<1> QED BY <1>4, <1>5, <1>6, <1>7, <1>8 DEF ServeCreation

\* Verifying an address changes its row, and makes none.
LEMMA VerifyKeepsOneRow ==
    ASSUME OneRow, NEW e \in Emails, VerifyUser(e)
    PROVE  OneRow'
<1>1. /\ Taken(e) /\ UNCHANGED <<creating, created>>
      /\ users' = [users EXCEPT ![e].is_email_verified = TRUE]
  BY DEF VerifyUser
<1>2. users[e] \in UserRow
  BY <1>1 DEF Taken, OneRow, CreationTypeOK
<1>3. [users[e] EXCEPT !.is_email_verified = TRUE] \in UserRow
  BY <1>2 DEF UserRow
<1>4. users' = [users EXCEPT ![e] = [users[e] EXCEPT !.is_email_verified = TRUE]]
  BY <1>1 DEF OneRow, CreationTypeOK
<1>5. CreationTypeOK'
  BY <1>1, <1>3, <1>4 DEF OneRow, CreationTypeOK
<1>6. \A d \in Emails : Taken(d)' <=> Taken(d)
  BY <1>1, <1>3, <1>4, CreationAssumption DEF Taken, OneRow, CreationTypeOK
<1> QED BY <1>1, <1>5, <1>6 DEF OneRow, CreatedOnce

\* A write of a flag keeps the types of the flags and of what was raced.
LEMMA WriteFlagTypes ==
    ASSUME FlagTypeOK, NEW p \in Processes, NEW k \in Keys,
           NEW r \in FlagRow \cup {NoFlag}, WriteFlag(p, k, r)
    PROVE  flags' \in [Keys -> FlagRow \cup {NoFlag}] /\ raced' \subseteq Keys
  BY DEF FlagTypeOK, WriteFlag

\* Edits of flags keep their types.
LEMMA EditTypes ==
    ASSUME FlagTypeOK, NEW p \in Processes, Edits(p)
    PROVE  FlagTypeOK'
<1>0. editing[p] \in Edit /\ edits \in 0..MaxEdits
  BY DEF FlagTypeOK
<1>1. \A e \in Edit : [editing EXCEPT ![p] = e] \in [Processes -> Edit]
  BY DEF FlagTypeOK
<1>2. EndEdit(p) => editing' \in [Processes -> Edit]
  BY <1>1, NothingServed DEF EndEdit
<1>3. editing[p].key \in Keys /\ editing[p].copy \in FlagRow /\ editing[p].value \in 0..MaxEdits
  BY <1>0 DEF Edit
<1>4. \A k \in Keys : Provide(p, k) => provided' \in [Keys -> FlagRow]
  BY <1>3 DEF Provide, FlagTypeOK, FlagRow
<1>5. edits < MaxEdits => edits + 1 \in 0..MaxEdits
  BY <1>0, FlagAssumption
<1>6. ASSUME NEW k \in Keys, BeginCreate(p, k) PROVE FlagTypeOK'
  <2> DEFINE e == [op |-> "create", key |-> k, copy |-> [f \in Fields |-> edits + 1],
                   given |-> Fields, value |-> edits + 1]
  <2>1. edits + 1 \in 0..MaxEdits
    BY <1>5, <1>6 DEF BeginCreate
  <2>2. e \in Edit
    BY <2>1 DEF Edit, FlagRow
  <2>3. editing' = [editing EXCEPT ![p] = e] /\ edits' = edits + 1 /\ UNCHANGED <<flags, provided, raced>>
    BY <1>6 DEF BeginCreate
  <2> HIDE DEF e
  <2> QED BY <1>1, <2>1, <2>2, <2>3 DEF FlagTypeOK
<1>7. ASSUME NEW k \in Keys, BeginUpdate(p, k) PROVE FlagTypeOK'
  <2>1. edits + 1 \in 0..MaxEdits /\ flags[k] \in FlagRow
    BY <1>5, <1>7 DEF BeginUpdate, Exists, FlagTypeOK
  <2>2. PICK given \in SUBSET Fields :
            editing' = [editing EXCEPT ![p] =
              [op |-> "update", key |-> k, copy |-> Merge(flags[k], given, edits + 1),
               given |-> given, value |-> edits + 1]]
    BY <1>7 DEF BeginUpdate
  <2>3. Merge(flags[k], given, edits + 1) \in FlagRow
    BY <2>1 DEF Merge, FlagRow
  <2> DEFINE e == [op |-> "update", key |-> k, copy |-> Merge(flags[k], given, edits + 1),
                   given |-> given, value |-> edits + 1]
  <2>4. e \in Edit
    BY <2>1, <2>3 DEF Edit
  <2>5. editing' = [editing EXCEPT ![p] = e] /\ edits' = edits + 1 /\ UNCHANGED <<flags, provided, raced>>
    BY <1>7, <2>2 DEF BeginUpdate
  <2> HIDE DEF e
  <2> QED BY <1>1, <2>1, <2>4, <2>5 DEF FlagTypeOK
<1>8. ASSUME NEW k \in Keys, BeginDelete(p, k) PROVE FlagTypeOK'
  <2>1. [NoEdit EXCEPT !.op = "delete", !.key = k] \in Edit
    BY NothingServed DEF Edit
  <2> QED BY <1>1, <1>8, <2>1 DEF BeginDelete, FlagTypeOK
<1>9. CASE InsertFlag(p)
  BY <1>2, <1>3, <1>4, <1>9, WriteFlagTypes DEF InsertFlag, FlagTypeOK
<1>10. CASE UpdateFlag(p)
  <2>1. CASE ~Exists(editing[p].key)
    BY <1>2, <1>10, <2>1 DEF UpdateFlag, FlagTypeOK
  <2>2. CASE Exists(editing[p].key)
    <3>1. [editing[p] EXCEPT !.op = "answer"] \in Edit
      BY <1>0 DEF Edit
    <3>2. editing' = [editing EXCEPT ![p] = [editing[p] EXCEPT !.op = "answer"]]
      BY <1>10, <2>2 DEF UpdateFlag, FlagTypeOK
    <3> QED BY <1>1, <1>3, <1>4, <1>10, <2>2, <3>1, <3>2, WriteFlagTypes DEF UpdateFlag, FlagTypeOK
  <2> QED BY <2>1, <2>2
<1>11. CASE AnswerUpdate(p)
  BY <1>2, <1>11 DEF AnswerUpdate, FlagTypeOK
<1>12. CASE DeleteFlag(p)
  BY <1>2, <1>3, <1>12, WriteFlagTypes DEF DeleteFlag, FlagTypeOK
<1> QED BY <1>6, <1>7, <1>8, <1>9, <1>10, <1>11, <1>12 DEF Edits

\* A step of one container's entrypoint that leaves users and flags alone.
LEMMA ReachTypes ==
    ASSUME TypedInv, NEW p \in Processes, NEW phase \in Phases,
           boot' = [boot EXCEPT ![p] = phase], errors' \in 0..MaxErrors,
           UNCHANGED <<creationVars, flagVars>>
    PROVE  TypedInv'
<1>1. boot' \in [Processes -> Phases]
  BY DEF TypedInv, BootTypeOK
<1>2. OneRow' /\ FlagTypeOK'
  BY DEF TypedInv, OneRow, BootTypeOK, CreationTypeOK, CreatedOnce, FlagTypeOK, Taken, creationVars,
     flagVars
<1> QED BY <1>1, <1>2 DEF TypedInv, OneRow, BootTypeOK

\* Types and single creation are kept by every step.
LEMMA TypedStep == TypedInv /\ [BootNext]_bootVars => TypedInv'
<1> SUFFICES ASSUME TypedInv, [BootNext]_bootVars PROVE TypedInv'
  OBVIOUS
<1>0. OneRow /\ FlagTypeOK /\ boot \in [Processes -> Phases] /\ errors \in 0..MaxErrors
  BY DEF TypedInv, BootTypeOK
<1>1. ASSUME NEW p \in Processes,
             StartContainer(p) \/ SeedCheck(p) \/ SeedConflict(p) \/ SeedFlagGet(p)
             \/ SeedFlagReread(p) \/ SeedError(p)
      PROVE  TypedInv'
  <2>1. PICK phase \in Phases : boot' = [boot EXCEPT ![p] = phase]
    BY <1>1 DEF StartContainer, SeedCheck, SeedConflict, SeedFlagGet, SeedFlagReread,
       SeedError, Reach, Phases
  <2>2. errors' \in 0..MaxErrors /\ UNCHANGED <<creationVars, flagVars>>
    BY <1>0, <1>1, BootAssumption DEF StartContainer, SeedCheck, SeedConflict, SeedFlagGet,
       SeedFlagReread, SeedError, Reach
  <2> QED BY <2>1, <2>2, ReachTypes
<1>2. ASSUME NEW p \in Processes, SeedSuperadmin(p) PROVE TypedInv'
  <2>1. OneRow'
    BY <1>0, <1>2, RowsAreRows, CreationAssumption, CreateOnce DEF SeedSuperadmin, OneRow, CreationTypeOK
  <2>2. boot' \in [Processes -> Phases] /\ UNCHANGED <<errors, flagVars>>
    BY <1>0, <1>2 DEF SeedSuperadmin, Reach, Phases
  <2>3. FlagTypeOK'
    BY <1>0, <2>2 DEF FlagTypeOK, flagVars
  <2> QED BY <1>0, <2>1, <2>2, <2>3 DEF TypedInv, OneRow, BootTypeOK
<1>3. ASSUME NEW p \in Processes, SeedFlagCreate(p) PROVE TypedInv'
  <2>1. boot' \in [Processes -> Phases] /\ UNCHANGED <<errors, creationVars>>
    BY <1>0, <1>3 DEF SeedFlagCreate, Reach, Phases
  <2>2. OneRow'
    BY <1>0, <2>1, CreateNone DEF creationVars, OneRow, CreationTypeOK
  <2>3. [f \in Fields |-> 0] \in FlagRow
    BY FlagAssumption DEF FlagRow
  <2>4. FlagTypeOK'
    <3>1. CASE Exists(MaintenanceKey)
      BY <1>0, <1>3, <3>1 DEF SeedFlagCreate, FlagTypeOK, flagVars
    <3>2. CASE ~Exists(MaintenanceKey)
      BY <1>0, <1>3, <2>3, <3>2, BootAssumption, WriteFlagTypes DEF SeedFlagCreate, FlagTypeOK
    <3> QED BY <3>1, <3>2
  <2> QED BY <1>0, <2>1, <2>2, <2>4 DEF TypedInv, OneRow, BootTypeOK
<1>4. ASSUME NEW p \in Processes, StopContainer(p) PROVE TypedInv'
  <2>1. boot' \in [Processes -> Phases] /\ UNCHANGED errors
    BY <1>0, <1>4 DEF StopContainer, Reach, Phases
  <2>2. OneRow'
    BY <1>0, <1>4, NothingServed, CreateNone DEF StopContainer, End, OneRow, CreationTypeOK
  <2>3. FlagTypeOK'
    BY <1>0, <1>4, NothingServed DEF StopContainer, EndEdit, FlagTypeOK
  <2> QED BY <1>0, <2>1, <2>2, <2>3 DEF TypedInv, OneRow, BootTypeOK
<1>5. ASSUME NEW p \in Processes, ServeCreation(p) PROVE TypedInv'
  <2>1. OneRow' /\ UNCHANGED <<boot, errors, flagVars>>
    BY <1>0, <1>5, CreationKeepsOneRow DEF ServeCreation
  <2>2. FlagTypeOK'
    BY <1>0, <2>1 DEF FlagTypeOK, flagVars
  <2> QED BY <1>0, <2>1, <2>2 DEF TypedInv, OneRow, BootTypeOK
<1>6. ASSUME NEW p \in Processes, ServeEdit(p) PROVE TypedInv'
  <2>1. FlagTypeOK' /\ UNCHANGED <<boot, errors, creationVars>>
    BY <1>0, <1>6, EditTypes DEF ServeEdit
  <2>2. OneRow'
    BY <1>0, <2>1, CreateNone DEF creationVars, OneRow, CreationTypeOK
  <2> QED BY <1>0, <2>1, <2>2 DEF TypedInv, OneRow, BootTypeOK
<1>7. CASE Verify
  <2>1. OneRow' /\ UNCHANGED <<boot, errors, flagVars>>
    BY <1>0, <1>7, VerifyKeepsOneRow DEF Verify
  <2>2. FlagTypeOK'
    BY <1>0, <2>1 DEF FlagTypeOK, flagVars
  <2> QED BY <1>0, <2>1, <2>2 DEF TypedInv, OneRow, BootTypeOK
<1>8. CASE UNCHANGED bootVars
  <2>1. OneRow' /\ FlagTypeOK' /\ UNCHANGED <<boot, errors>>
    BY <1>0, <1>8, CreateNone DEF bootVars, creationVars, flagVars, OneRow, CreationTypeOK, FlagTypeOK
  <2> QED BY <1>0, <2>1 DEF TypedInv, OneRow, BootTypeOK
<1> QED BY <1>1, <1>2, <1>3, <1>4, <1>5, <1>6, <1>7, <1>8 DEF BootNext, Seed

\* It holds of every behaviour.
LEMMA TypedAlways == BootSpec => []TypedInv
<1>1. BootInit => TypedInv
  <2> SUFFICES ASSUME BootInit PROVE TypedInv
    OBVIOUS
  <2>1. OneRow
    BY NothingServed DEF BootInit, CreationInit, OneRow, CreationTypeOK, CreatedOnce, Taken
  <2>2. FlagTypeOK
    BY NothingServed, FlagAssumption DEF BootInit, FlagInit, FlagTypeOK, FlagRow
  <2>3. boot \in [Processes -> Phases] /\ errors \in 0..MaxErrors
    BY BootAssumption DEF BootInit, Phases
  <2> QED BY <2>1, <2>2, <2>3 DEF TypedInv, OneRow, BootTypeOK
<1> QED BY <1>1, TypedStep, PTL DEF BootSpec

\* Rows, requests, flags and containers keep their types.
THEOREM BootTypesHold == BootSpec => []BootTypeOK
<1>1. TypedInv => BootTypeOK
  BY DEF TypedInv
<1> QED BY <1>1, TypedAlways, PTL

\* Whoever races for an address, its row is created once (register.py:84).
THEOREM AlwaysCreatedOnce == BootSpec => []CreatedOnce
<1>1. TypedInv => CreatedOnce
  BY DEF TypedInv, OneRow
<1> QED BY <1>1, TypedAlways, PTL

\* No update brings a deleted flag back (feature_flag_repository.py:57).
THEOREM DeletedFlagsStayDeleted == BootSpec => DeletedStaysDeleted
<1> DEFINE Dead == \A p \in Processes, k \in Keys :
          editing[p].op = "update" /\ editing[p].key = k /\ editing'[p] # editing[p]
             /\ ~Exists(k) => flags'[k] = NoFlag
<1>1. TypedInv /\ [BootNext]_bootVars => [Dead]_flagVars
  <2> SUFFICES ASSUME TypedInv, [BootNext]_bootVars, NEW p \in Processes, NEW k \in Keys,
                      editing[p].op = "update", editing[p].key = k,
                      editing'[p] # editing[p], ~Exists(k)
               PROVE  flags'[k] = NoFlag
    OBVIOUS
  <2>0. editing \in [Processes -> Edit] /\ NoEdit.op = "none"
    BY DEF TypedInv, BootTypeOK, FlagTypeOK, NoEdit
  <2>1. ASSUME NEW q \in Processes, ServeEdit(q) PROVE flags'[k] = NoFlag
    <3>1. CASE q # p
      BY <2>0, <2>1, <3>1 DEF ServeEdit, Edits, BeginCreate, BeginUpdate, BeginDelete, InsertFlag,
         UpdateFlag, AnswerUpdate, DeleteFlag, EndEdit
    <3>2. CASE q = p
      <4>1. UpdateFlag(p)
        BY <2>0, <2>1, <3>2 DEF ServeEdit, Edits, BeginCreate, BeginUpdate, BeginDelete, InsertFlag,
           AnswerUpdate, DeleteFlag
      <4> QED BY <4>1 DEF UpdateFlag, Exists
    <3> QED BY <3>1, <3>2
  <2>2. ASSUME NEW q \in Processes, StopContainer(q) PROVE flags'[k] = NoFlag
    BY <2>2 DEF StopContainer, Exists
  <2>3. CASE UNCHANGED editing
    BY <2>3
  <2>4. ASSUME NEW q \in Processes, SeedFlagCreate(q) PROVE UNCHANGED editing
    BY <2>4 DEF SeedFlagCreate, flagVars
  <2> QED BY <2>1, <2>2, <2>3, <2>4 DEF BootNext, Seed, StartContainer, SeedCheck, SeedSuperadmin,
             SeedConflict, SeedFlagGet, SeedFlagReread, SeedError, ServeCreation, Verify, bootVars, flagVars
<1> QED BY <1>1, TypedAlways, PTL DEF BootSpec, DeletedStaysDeleted

-----------------------------------------------------------------------------
(***************************************************************************)
(* Only an overlap loses a field.  Unless the key is raced, the copy a     *)
(* request is about to write is what was provided, with what it was given  *)
(* put in its place.                                                       *)
(***************************************************************************)
CopyKnown(e) ==
    /\ e.op = "create" => e.given = Fields /\ e.copy = [f \in Fields |-> e.value]
    /\ e.op = "update" /\ e.key \notin raced => e.copy = Merge(provided[e.key], e.given, e.value)
CopiesKnown == LossNeedsOverlap /\ \A p \in Processes : CopyKnown(editing[p])
IdleUnlessUp == \A p \in Processes : boot[p] # "up" => editing[p] = NoEdit
OverlapInv == TypedInv /\ CopiesKnown /\ IdleUnlessUp

\* A write of one request that ends its hold on the flag.
LEMMA WriteKeepsCopies ==
    ASSUME FlagTypeOK, CopiesKnown, NEW p \in Processes, NEW k \in Keys, NEW r, NEW e \in Edit,
           WriteFlag(p, k, r), editing' = [editing EXCEPT ![p] = e], e.op \notin {"create", "update"},
           \A j \in Keys \ {k} : provided'[j] = provided[j],
           k \notin raced \/ ~Exists(k) => r = NoFlag \/ r = provided'[k]
    PROVE  CopiesKnown'
<1>1. \A j \in Keys \ {k} : flags'[j] = flags[j] /\ (j \in raced' <=> j \in raced)
  BY DEF WriteFlag, FlagTypeOK
<1>2. flags'[k] = r
  BY DEF WriteFlag, FlagTypeOK
<1>3. k \notin raced' => ~Held(p, k) /\ (k \notin raced \/ ~Exists(k))
  BY DEF WriteFlag
<1>4. LossNeedsOverlap'
  <2> SUFFICES ASSUME NEW j \in Keys, Exists(j)', j \notin raced' PROVE flags'[j] = provided'[j]
    BY DEF LossNeedsOverlap
  <2>1. CASE j = k
    BY <1>2, <1>3, <2>1 DEF Exists
  <2>2. CASE j # k
    BY <1>1, <2>2 DEF CopiesKnown, LossNeedsOverlap, Exists
  <2> QED BY <2>1, <2>2
<1>5. ASSUME NEW q \in Processes PROVE CopyKnown(editing[q])'
  <2>1. CASE q = p
    <3>1. editing'[q] = e
      BY <2>1 DEF FlagTypeOK
    <3> QED BY <3>1 DEF CopyKnown
  <2>2. CASE q # p
    <3>1. editing'[q] = editing[q] /\ CopyKnown(editing[q]) /\ editing[q].key \in Keys
      BY <2>2 DEF FlagTypeOK, CopiesKnown, Edit
    <3>2. editing[q].op = "update" /\ editing[q].key = k => k \in raced'
      BY <1>3, <2>2 DEF Held
    <3> QED BY <1>1, <3>1, <3>2 DEF CopyKnown
  <2> QED BY <2>1, <2>2
<1> QED BY <1>4, <1>5 DEF CopiesKnown

\* A step that writes no flag and gives p nothing to write but what is known.
LEMMA ReadKeepsCopies ==
    ASSUME FlagTypeOK, CopiesKnown, NEW p \in Processes, NEW e \in Edit, CopyKnown(e),
           editing' = [editing EXCEPT ![p] = e], UNCHANGED <<flags, provided, raced>>
    PROVE  CopiesKnown'
<1>1. LossNeedsOverlap'
  BY DEF CopiesKnown, LossNeedsOverlap, Exists
<1>2. ASSUME NEW q \in Processes PROVE CopyKnown(editing[q])'
  <2>1. PICK c : editing'[q] = c /\ CopyKnown(c)
    BY DEF FlagTypeOK, CopiesKnown
  <2> QED BY <2>1 DEF CopyKnown
<1> QED BY <1>1, <1>2 DEF CopiesKnown

\* Every step of an edit.
LEMMA EditKeepsCopies ==
    ASSUME FlagTypeOK, CopiesKnown, NEW p \in Processes, Edits(p)
    PROVE  CopiesKnown'
<1>0. /\ editing[p] \in Edit /\ editing[p].key \in Keys /\ CopyKnown(editing[p])
      /\ editing \in [Processes -> Edit]
      /\ NoEdit \in Edit /\ NoEdit.op = "none" /\ CopyKnown(NoEdit)
      /\ (edits < MaxEdits => edits + 1 \in 0..MaxEdits)
  <2>1. editing[p] \in Edit /\ editing \in [Processes -> Edit] /\ CopyKnown(editing[p])
    BY DEF FlagTypeOK, CopiesKnown
  <2>2. editing[p].key \in Keys
    BY <2>1 DEF Edit
  <2>3. NoEdit \in Edit /\ NoEdit.op = "none" /\ CopyKnown(NoEdit)
    BY NothingServed DEF NoEdit, CopyKnown
  <2>4. edits < MaxEdits => edits + 1 \in 0..MaxEdits
    BY FlagAssumption DEF FlagTypeOK
  <2> QED BY <2>1, <2>2, <2>3, <2>4
<1>1. ASSUME NEW k \in Keys, BeginCreate(p, k) PROVE CopiesKnown'
  <2> DEFINE e == [op |-> "create", key |-> k, copy |-> [f \in Fields |-> edits + 1],
                   given |-> Fields, value |-> edits + 1]
  <2>1. e \in Edit /\ CopyKnown(e)
    BY <1>0, <1>1 DEF BeginCreate, Edit, FlagRow, CopyKnown
  <2>2. editing' = [editing EXCEPT ![p] = e] /\ UNCHANGED <<flags, provided, raced>>
    BY <1>1 DEF BeginCreate
  <2> QED BY <2>1, <2>2, ReadKeepsCopies
<1>2. ASSUME NEW k \in Keys, BeginUpdate(p, k) PROVE CopiesKnown'
  <2>1. PICK given \in SUBSET Fields :
            editing' = [editing EXCEPT ![p] =
              [op |-> "update", key |-> k, copy |-> Merge(flags[k], given, edits + 1),
               given |-> given, value |-> edits + 1]]
    BY <1>2 DEF BeginUpdate
  <2> DEFINE e == [op |-> "update", key |-> k, copy |-> Merge(flags[k], given, edits + 1),
                   given |-> given, value |-> edits + 1]
  <2>2. flags[k] \in FlagRow /\ edits + 1 \in 0..MaxEdits
    BY <1>0, <1>2 DEF BeginUpdate, Exists, FlagTypeOK
  <2>3. Merge(flags[k], given, edits + 1) \in FlagRow
    BY <2>2 DEF Merge, FlagRow
  <2>4. k \notin raced => flags[k] = provided[k]
    BY <1>2 DEF BeginUpdate, CopiesKnown, LossNeedsOverlap
  <2>5. e \in Edit
    BY <2>2, <2>3 DEF Edit
  <2>6. CopyKnown(e)
    BY <2>4 DEF CopyKnown
  <2>7. UNCHANGED <<flags, provided, raced>>
    BY <1>2 DEF BeginUpdate
  <2> QED BY <2>1, <2>5, <2>6, <2>7, ReadKeepsCopies
<1>3. ASSUME NEW k \in Keys, BeginDelete(p, k) PROVE CopiesKnown'
  <2> DEFINE e == [NoEdit EXCEPT !.op = "delete", !.key = k]
  <2>1. e \in Edit /\ CopyKnown(e)
    BY <1>0 DEF Edit, CopyKnown
  <2> QED BY <1>3, <2>1, ReadKeepsCopies DEF BeginDelete
<1>4. CASE InsertFlag(p)
  <2> DEFINE k == editing[p].key
  <2>1. editing' = [editing EXCEPT ![p] = NoEdit]
    BY <1>4 DEF InsertFlag, EndEdit
  <2>2. CASE Exists(k)
    BY <1>0, <1>4, <2>1, <2>2, ReadKeepsCopies DEF InsertFlag
  <2>3. CASE ~Exists(k)
    <3>1. WriteFlag(p, k, editing[p].copy) /\ Provide(p, k)
      BY <1>4, <2>3 DEF InsertFlag
    <3>2. editing[p].given = Fields /\ editing[p].copy = [f \in Fields |-> editing[p].value]
      BY <1>0, <1>4 DEF InsertFlag, CopyKnown
    <3>3. provided'[k] = editing[p].copy /\ \A j \in Keys \ {k} : provided'[j] = provided[j]
      BY <1>0, <3>1, <3>2 DEF Provide, FlagTypeOK, FlagRow
    <3> QED BY <1>0, <2>1, <3>1, <3>3, WriteKeepsCopies
  <2> QED BY <2>2, <2>3
<1>5. CASE UpdateFlag(p)
  <2> DEFINE k == editing[p].key
  <2>1. CASE ~Exists(k)
    BY <1>0, <1>5, <2>1, ReadKeepsCopies DEF UpdateFlag, EndEdit
  <2>2. CASE Exists(k)
    <3> DEFINE e == [editing[p] EXCEPT !.op = "answer"]
    <3>1. WriteFlag(p, k, editing[p].copy) /\ Provide(p, k)
      BY <1>5, <2>2 DEF UpdateFlag
    <3>2. editing' = [editing EXCEPT ![p] = e] /\ e \in Edit /\ e.op = "answer"
      BY <1>0, <1>5, <2>2 DEF UpdateFlag, Edit
    <3>3. provided'[k] = Merge(provided[k], editing[p].given, editing[p].value)
          /\ \A j \in Keys \ {k} : provided'[j] = provided[j]
      BY <1>0, <3>1 DEF Provide, Merge, FlagTypeOK, FlagRow
    <3>4. k \notin raced => editing[p].copy = provided'[k]
      BY <1>0, <1>5, <3>3 DEF UpdateFlag, CopyKnown
    <3> HIDE DEF e
    <3> QED BY <1>0, <2>2, <3>1, <3>2, <3>3, <3>4, WriteKeepsCopies
  <2> QED BY <2>1, <2>2
<1>6. CASE AnswerUpdate(p)
  BY <1>0, <1>6, ReadKeepsCopies DEF AnswerUpdate, EndEdit
<1>7. CASE DeleteFlag(p)
  BY <1>0, <1>7, WriteKeepsCopies DEF DeleteFlag, EndEdit
<1> QED BY <1>1, <1>2, <1>3, <1>4, <1>5, <1>6, <1>7 DEF Edits

\* A container that serves no request carries no copy.
LEMMA IdleStep == OverlapInv /\ [BootNext]_bootVars => IdleUnlessUp'
<1> SUFFICES ASSUME OverlapInv, [BootNext]_bootVars PROVE IdleUnlessUp'
  OBVIOUS
<1>0. IdleUnlessUp /\ boot \in [Processes -> Phases] /\ editing \in [Processes -> Edit]
  BY DEF OverlapInv, TypedInv, BootTypeOK, FlagTypeOK
<1>1. ASSUME NEW p \in Processes,
             StartContainer(p) \/ SeedCheck(p) \/ SeedConflict(p) \/ SeedFlagGet(p)
             \/ SeedFlagReread(p) \/ SeedError(p) \/ SeedSuperadmin(p) \/ SeedFlagCreate(p)
      PROVE  IdleUnlessUp'
  <2>1. boot[p] # "up" /\ UNCHANGED editing /\ \E phase : boot' = [boot EXCEPT ![p] = phase]
    BY <1>1 DEF StartContainer, SeedCheck, SeedConflict, SeedFlagGet, SeedFlagReread, SeedError,
       SeedSuperadmin, SeedFlagCreate, Reach, flagVars
  <2> QED BY <1>0, <2>1 DEF IdleUnlessUp
<1>2. ASSUME NEW p \in Processes, StopContainer(p) PROVE IdleUnlessUp'
  BY <1>0, <1>2 DEF StopContainer, Reach, EndEdit, IdleUnlessUp
<1>3. ASSUME NEW p \in Processes, ServeEdit(p) PROVE IdleUnlessUp'
  <2>1. boot[p] = "up" /\ UNCHANGED boot /\ \A q \in Processes \ {p} : editing'[q] = editing[q]
    BY <1>0, <1>3 DEF ServeEdit, Edits, BeginCreate, BeginUpdate, BeginDelete, InsertFlag, UpdateFlag,
       AnswerUpdate, DeleteFlag, EndEdit
  <2> QED BY <1>0, <2>1 DEF IdleUnlessUp
<1>4. CASE UNCHANGED <<boot, editing>>
  BY <1>0, <1>4 DEF IdleUnlessUp
<1> QED BY <1>1, <1>2, <1>3, <1>4 DEF BootNext, Seed, ServeCreation, Verify, bootVars, flagVars

\* A field differs from what was provided for it only if its flag is raced.
LEMMA OverlapStep == OverlapInv /\ [BootNext]_bootVars => OverlapInv'
<1> SUFFICES ASSUME OverlapInv, [BootNext]_bootVars PROVE OverlapInv'
  OBVIOUS
<1>0. FlagTypeOK /\ CopiesKnown /\ IdleUnlessUp
  BY DEF OverlapInv, TypedInv, BootTypeOK
<1>1. CopiesKnown'
  <2>1. ASSUME NEW p \in Processes, ServeEdit(p) PROVE CopiesKnown'
    BY <1>0, <2>1, EditKeepsCopies DEF ServeEdit
  <2>2. ASSUME NEW p \in Processes, StopContainer(p) PROVE CopiesKnown'
    <3>1. NoEdit \in Edit /\ CopyKnown(NoEdit)
      BY NothingServed DEF NoEdit, CopyKnown
    <3> QED BY <1>0, <2>2, <3>1, ReadKeepsCopies DEF StopContainer, EndEdit
  <2>3. CASE UNCHANGED flagVars
    BY <1>0, <2>3 DEF flagVars, CopiesKnown, CopyKnown, LossNeedsOverlap, Exists
  <2>4. ASSUME NEW p \in Processes, SeedFlagCreate(p) PROVE CopiesKnown'
    <3>1. CASE Exists(MaintenanceKey)
      BY <2>3, <2>4, <3>1 DEF SeedFlagCreate
    <3>2. CASE ~Exists(MaintenanceKey)
      <4>1. NoEdit \in Edit /\ NoEdit.op = "none" /\ editing[p] = NoEdit
        BY <1>0, <2>4, NothingServed DEF SeedFlagCreate, IdleUnlessUp, NoEdit
      <4>2. editing' = [editing EXCEPT ![p] = NoEdit]
        BY <1>0, <2>4, <3>2, <4>1 DEF SeedFlagCreate, FlagTypeOK
      <4>3. /\ WriteFlag(p, MaintenanceKey, [f \in Fields |-> 0])
            /\ provided' = [provided EXCEPT ![MaintenanceKey] = [f \in Fields |-> 0]]
        BY <2>4, <3>2 DEF SeedFlagCreate
      <4>4. provided'[MaintenanceKey] = [f \in Fields |-> 0]
            /\ \A j \in Keys \ {MaintenanceKey} : provided'[j] = provided[j]
        BY <1>0, <4>3, BootAssumption DEF FlagTypeOK
      <4> QED BY <1>0, <4>1, <4>2, <4>3, <4>4, BootAssumption, WriteKeepsCopies
    <3> QED BY <3>1, <3>2
  <2> QED BY <2>1, <2>2, <2>3, <2>4 DEF BootNext, Seed, StartContainer, SeedCheck, SeedSuperadmin,
             SeedConflict, SeedFlagGet, SeedFlagReread, SeedError, ServeCreation, Verify, bootVars
<1> QED BY <1>1, IdleStep, TypedStep DEF OverlapInv

\* One after the other, updates lose nothing: a flag whose key was not raced
\* holds what was provided for each of its fields (views.py:1714).
THEOREM OnlyOverlapsLose == BootSpec => []LossNeedsOverlap
<1>1. BootInit /\ TypedInv => OverlapInv
  BY DEF BootInit, FlagInit, OverlapInv, CopiesKnown, CopyKnown, LossNeedsOverlap, Exists, IdleUnlessUp,
     NoEdit
<1>2. OverlapInv => LossNeedsOverlap
  BY DEF OverlapInv, CopiesKnown
<1> QED BY <1>1, <1>2, OverlapStep, TypedAlways, PTL DEF BootSpec
=============================================================================
