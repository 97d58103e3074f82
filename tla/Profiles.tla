------------------------------- MODULE Profiles -------------------------------
(***************************************************************************)
(* The profiles in config.json and the commands that write the file:       *)
(* "nuage user add" and "user rm", and "nuage auth" and "init", which      *)
(* rewrite it around other settings.  Each loads the whole file, prompts   *)
(* or calls Telegram, and saves the whole file without looking at it       *)
(* again, so the commands of several terminals may overwrite each other.   *)
(* Only the usernames matter here; config.json exists from the start.      *)
(***************************************************************************)
EXTENDS FileIndex, FiniteSets

CONSTANTS
    Admins,         \* terminals in which commands may run
    MaxChanges,     \* bound: commands begun in a behaviour
    MayCrash,       \* whether a command may be interrupted
    Resetup         \* whether auth and init are run again

ASSUME ProfilesAssumption ==
    /\ MaxChanges \in Nat
    /\ MayCrash \in BOOLEAN
    /\ Resetup \in BOOLEAN

VARIABLES
    config,     \* config.json: whether it parses or is empty, its usernames
    adm,        \* the command running in each terminal
    changes     \* commands begun so far

profileVars == <<config, adm, changes>>

Written(users) == [ok |-> TRUE, empty |-> FALSE, users |-> users]

\* No byte is left of the file; or it is a mixture of two, and no JSON.
Truncated == [ok |-> FALSE, empty |-> TRUE, users |-> {}]
Torn == [ok |-> FALSE, empty |-> FALSE, users |-> {}]

Ready == [pc |-> "ready"]

\* "users" is what will be saved, "heir" who then inherits unowned files.
Saving == [pc : {"save", "write"}, users : SUBSET Profiles, heir : Owners]
Adopting == [pc : {"adopt"}, heir : Profiles]

AdminTypeOK ==
    /\ config \in [ok : BOOLEAN, empty : BOOLEAN, users : SUBSET Profiles]
    /\ changes \in 0..MaxChanges
    /\ adm \in [Admins -> {Ready} \cup Saving \cup Adopting]

ProfilesInit ==
    /\ config = Written({})
    /\ adm = [a \in Admins |-> Ready]
    /\ changes = 0

AllReady == \A a \in Admins : adm[a] = Ready

\* config.Load succeeded; what the command makes of it will be saved.
Load(a, users, heir) ==
    /\ adm[a] = Ready
    /\ config.ok
    /\ changes < MaxChanges
    /\ changes' = changes + 1
    /\ adm' = [adm EXCEPT ![a] = [pc |-> "save", users |-> users, heir |-> heir]]
    /\ UNCHANGED config

\* user add: the very first profile will inherit the unowned files.  Adding
\* a profile that exists only updates its password.
UserAdd(a, user) ==
    Load(a, config.users \cup {user}, IF config.users = {} THEN user ELSE NoOwner)

\* Faulty variant: the last profile may be removed.
UserRmAny(a, user) ==
    /\ user \in config.users
    /\ Load(a, config.users \ {user}, NoOwner)

\* user rm: never the last profile.
UserRm(a, user) ==
    /\ Cardinality(config.users) > 1
    /\ user \in config.users
    /\ Load(a, config.users \ {user}, NoOwner)

\* auth, init: the profiles are saved as they were loaded.
Setup(a) ==
    /\ Resetup
    /\ Load(a, config.users, NoOwner)

\* config.Save: os.WriteFile truncates the file, then writes it.
SaveTruncate(a) ==
    /\ adm[a].pc = "save"
    /\ config' = Truncated
    /\ adm' = [adm EXCEPT ![a].pc = "write"]
    /\ UNCHANGED changes

\* The write begins at the start of the file.  When another command has
\* written since the truncation, the rest of a longer text stays behind it.
Overwritten(users) == {Written(users)} \cup (IF config.empty THEN {} ELSE {Torn})

\* Faulty variant: the index is updated after every save.
SaveWriteAdopting(a) ==
    /\ adm[a].pc = "write"
    /\ config' \in Overwritten(adm[a].users)
    /\ adm' = [adm EXCEPT ![a] = [pc |-> "adopt", heir |-> adm[a].heir]]
    /\ UNCHANGED changes

\* The very first profile inherits once the file is written.
SaveWrite(a) ==
    /\ adm[a].pc = "write"
    /\ config' \in Overwritten(adm[a].users)
    /\ adm' = [adm EXCEPT ![a] = IF adm[a].heir = NoOwner THEN Ready
                                 ELSE [pc |-> "adopt", heir |-> adm[a].heir]]
    /\ UNCHANGED changes

\* Assign the unowned files to the first profile.
Adopt(a) ==
    /\ adm[a].pc = "adopt"
    /\ BackfillOwner(adm[a].heir) \/ BackfillOwnerRejected(adm[a].heir)
    /\ adm' = [adm EXCEPT ![a] = Ready]
    /\ UNCHANGED <<config, changes>>

\* An interrupt, a crash, or an error from the file system or SQLite.
Interrupt(a) ==
    /\ MayCrash
    /\ adm[a] # Ready
    /\ adm' = [adm EXCEPT ![a] = Ready]
    /\ UNCHANGED <<config, changes>>

ConfigStep(a) ==
    \/ \E user \in Profiles : UserAdd(a, user) \/ UserRm(a, user)
    \/ Setup(a)
    \/ SaveTruncate(a) \/ SaveWrite(a)
    \/ Interrupt(a)

\* No terminal is busy and no command can be begun.
AdminsDone ==
    /\ AllReady
    /\ changes = MaxChanges \/ ~config.ok
    /\ UNCHANGED <<indexVars, profileVars>>
=============================================================================
