-------------------------------- MODULE Boot ---------------------------------
(***************************************************************************)
(* Containers of the service: entrypoint.sh seeds the superadmin and the   *)
(* maintenance_mode flag and only then starts to serve; set -e ends it     *)
(* when the seed fails.  Several containers start on one database, some    *)
(* while others already create accounts and edit flags.                    *)
(***************************************************************************)
EXTENDS AccountCreation, FeatureFlags

CONSTANTS
    MaintenanceKey,     \* "maintenance_mode"
    MaxErrors           \* bound: how often migrate or the seed meets an error
                        \* that is not the seed's own doing

ASSUME BootAssumption == MaintenanceKey \in Keys /\ MaxErrors \in Nat

Phases == {"down", "seed", "create_superuser", "flag", "create_flag", "reread_flag", "up"}

VARIABLES
    boot,       \* boot[p]: how far the entrypoint of container p is
    errors      \* how many errors have ended one

bootVars == <<boot, errors, creationVars, flagVars>>

BootInit ==
    /\ boot = [p \in Processes |-> "down"] /\ errors = 0
    /\ CreationInit /\ FlagInit

Reach(p, phase) == boot' = [boot EXCEPT ![p] = phase] /\ UNCHANGED errors

\* The container starts; migrate has nothing left to do when it is repeated.
StartContainer(p) ==
    /\ boot[p] = "down"
    /\ Reach(p, "seed")
    /\ UNCHANGED <<creationVars, flagVars>>

\* filter(is_superuser=True).exists().
SeedCheck(p) ==
    /\ boot[p] = "seed"
    /\ Reach(p, IF SuperuserExists THEN "flag" ELSE "create_superuser")
    /\ UNCHANGED <<creationVars, flagVars>>

SeedSuperadmin(p) ==
    /\ boot[p] = "create_superuser"
    /\ CreateUser(SeedEmail, Superadmin)
    /\ Reach(p, "flag")
    /\ UNCHANGED <<creating, flagVars>>

\* Mutated form of SeedFlagGet: create instead of get_or_create.
SeedFlagGet_NoGet(p) ==
    /\ boot[p] = "flag"
    /\ Reach(p, IF Exists(MaintenanceKey) THEN "down" ELSE "create_flag")
    /\ UNCHANGED <<creationVars, flagVars>>

\* get_or_create: the flag is read,
SeedFlagGet(p) ==
    /\ boot[p] = "flag"
    /\ Reach(p, IF Exists(MaintenanceKey) THEN "up" ELSE "create_flag")
    /\ UNCHANGED <<creationVars, flagVars>>

\* and inserted with its defaults, unless it has appeared meanwhile;
SeedFlagCreate(p) ==
    /\ boot[p] = "create_flag"
    /\ \/ /\ Exists(MaintenanceKey)
          /\ Reach(p, "reread_flag")
          /\ UNCHANGED flagVars
       \/ /\ ~Exists(MaintenanceKey)
          /\ WriteFlag(p, MaintenanceKey, [f \in Fields |-> 0])
          /\ provided' = [provided EXCEPT ![MaintenanceKey] = [f \in Fields |-> 0]]
          /\ Reach(p, "up")
          /\ UNCHANGED <<editing, edits>>
    /\ UNCHANGED creationVars

\* then it is read again, and the refusal raised when it is gone by now.
SeedFlagReread(p) ==
    /\ boot[p] = "reread_flag"
    /\ Reach(p, IF Exists(MaintenanceKey) THEN "up" ELSE "down")
    /\ UNCHANGED <<creationVars, flagVars>>

\* The unique index refuses the insert, and set -e ends the container.
SeedConflict(p) ==
    /\ boot[p] = "create_superuser" /\ Taken(SeedEmail)
    /\ Reach(p, "down")
    /\ UNCHANGED <<creationVars, flagVars>>

\* Mutated form of SeedError: the entrypoint goes on after a failed seed.
SeedError_GoesOn(p) ==
    /\ boot[p] \notin {"down", "up"} /\ errors < MaxErrors
    /\ errors' = errors + 1
    /\ boot' = [boot EXCEPT ![p] = "up"]
    /\ UNCHANGED <<creationVars, flagVars>>

\* The database fails, or two migrations get into each other's way; set -e
\* ends the container.
SeedError(p) ==
    /\ boot[p] \notin {"down", "up"} /\ errors < MaxErrors
    /\ errors' = errors + 1
    /\ boot' = [boot EXCEPT ![p] = "down"]
    /\ UNCHANGED <<creationVars, flagVars>>

\* A container that serves is stopped; the request it was in is gone.
StopContainer(p) ==
    /\ boot[p] = "up"
    /\ Reach(p, "down")
    /\ End(p) /\ EndEdit(p)
    /\ UNCHANGED <<users, created, flags, edits, provided, raced>>

\* A container that is up serves one request at a time.
ServeCreation(p) ==
    /\ boot[p] = "up" /\ editing[p] = NoEdit
    /\ \/ \E op \in {"register", "social"}, e \in Emails : BeginCreation(p, op, e)
       \/ GetExisting(p) \/ InsertUser(p) \/ InsertRefused(p) \/ FinishCreation(p)
    /\ UNCHANGED <<boot, errors, flagVars>>

\* Flags are edited by a superadmin.
ServeEdit(p) ==
    /\ boot[p] = "up" /\ creating[p] = NoCreation /\ SuperuserExists
    /\ Edits(p)
    /\ UNCHANGED <<boot, errors, creationVars>>

Verify ==
    /\ \E p \in Processes : boot[p] = "up"
    /\ \E e \in Emails : VerifyUser(e)
    /\ UNCHANGED <<boot, errors, flagVars>>

Seed(p) ==
    \/ SeedCheck(p) \/ SeedSuperadmin(p) \/ SeedConflict(p)
    \/ SeedFlagGet(p) \/ SeedFlagCreate(p) \/ SeedFlagReread(p)

BootNext ==
    \/ \E p \in Processes :
          \/ StartContainer(p) \/ Seed(p) \/ SeedError(p) \/ StopContainer(p)
          \/ ServeCreation(p) \/ ServeEdit(p)
    \/ Verify

\* The entrypoint goes on from one command to the next.  Nothing is assumed of
\* whoever starts and stops containers, nor of those who send requests.
BootFairness == \A p \in Processes : WF_bootVars(Seed(p))

BootSpec == BootInit /\ [][BootNext]_bootVars /\ BootFairness

-----------------------------------------------------------------------------
\* Rows, requests and flags have their types, however creation and seed race.
BootTypeOK ==
    /\ CreationTypeOK /\ FlagTypeOK
    /\ boot \in [Processes -> Phases] /\ errors \in 0..MaxErrors

\* Nobody but the seed ever holds the superadmin's address while there is no
\* superadmin: a container whose seed failed can always be started again
\* (entrypoint.sh:2, seed_superadmin.py:25).
SeedNeverBlocked == Taken(SeedEmail) => SuperuserExists

\* The maintenance flag is deleted.
MaintenanceDeleted == Exists(MaintenanceKey) /\ ~Exists(MaintenanceKey)'

\* A container that is started again whenever it has ended comes to serve once
\* the errors of the database have ceased, unless the maintenance flag is
\* deleted over and over: the seeds of others, registrations and other edits
\* of the flag cannot make it fail for ever (entrypoint.sh:11).
RetriesSucceed ==
    \A p \in Processes :
        []<>(boot[p] = "seed")
            => []<>(boot[p] = "up") \/ []<><<MaintenanceDeleted>>_bootVars
=============================================================================
