------------------------------- MODULE Upgrade -------------------------------
(***************************************************************************)
(* The profile commands on the index of an installation that predates      *)
(* profiles.  Whoever opens such an index first rebuilds its table with an *)
(* owner column (index.Open, migrateOwnerColumn): "user add", which then   *)
(* assigns the files to the first profile, but also the server or a CLI    *)
(* command started at the same time.  Open looks for the column in one     *)
(* statement and rebuilds the table in a transaction begun afterwards; the *)
(* transaction is one step, as nothing of it shows before it commits.      *)
(***************************************************************************)
EXTENDS Profiles

CONSTANTS
    Openers,    \* other processes that open the index
    OldFiles    \* <<owner, hash>> of the rows there may be at the start

ASSUME UpgradeAssumption ==
    /\ IsFiniteSet(OldFiles)
    /\ OldFiles \subseteq Owners \X Hashes
    /\ Paths # {}

VARIABLES
    hasOwner,   \* whether the files table has the owner column
    opening     \* how far each process is in index.Open

upgradeVars == <<indexVars, profileVars, hasOwner, opening>>

Processes == Admins \cup Openers

\* In a table without the column every row counts as unowned.
OldRow(file, i) ==
    LET path == CHOOSE p \in Paths : TRUE IN
    [path |-> path, filename |-> Base(path), owner |-> file[1], hash |-> file[2],
     message_id |-> i]

\* The very first upload has been deleted since.
UpgradeInit ==
    /\ ProfilesInit
    /\ hasOwner \in BOOLEAN
    /\ opening = [p \in Processes |-> "closed"]
    /\ LET old == {f \in OldFiles : hasOwner \/ f[1] = NoOwner}
           ids == 2..Cardinality(old) + 1
       IN  /\ lastId = Cardinality(old) + 1
           /\ \E f \in Bijection(ids, old) : files = [i \in ids |-> OldRow(f[i], i)]

Opening(p, state) == opening' = [opening EXCEPT ![p] = state]

\* Look for the column.  user add gets here when it has saved a first profile.
HasColumn(p) ==
    /\ opening[p] = "closed"
    /\ p \in Admins => adm[p].pc = "adopt"
    /\ Opening(p, IF hasOwner THEN "open" ELSE "migrate")
    /\ UNCHANGED <<indexVars, profileVars, hasOwner>>

\* What the rebuilt table is filled with: SELECT id, ..., '', hash, ...
Copied == [i \in DOMAIN files |-> [files[i] EXCEPT !.owner = NoOwner]]

\* Faulty variant: the ids are not copied, so the rows are numbered afresh.
MigrateRenumbering(p) ==
    /\ opening[p] = "migrate"
    /\ UniqueOwnerHash(Copied)
    /\ \E f \in Bijection(1..Cardinality(DOMAIN files), DOMAIN files) :
          files' = [i \in DOMAIN f |-> Copied[f[i]]]
    /\ lastId' = Cardinality(DOMAIN files)
    /\ hasOwner' = TRUE
    /\ Opening(p, "open")
    /\ UNCHANGED profileVars

\* The old table is renamed, copied and dropped, and its sqlite_sequence entry
\* with it: numbering goes on from the highest id copied.
Migrate(p) ==
    /\ opening[p] = "migrate"
    /\ UniqueOwnerHash(Copied)
    /\ files' = Copied
    /\ lastId' \in DOMAIN files \cup {0}
    /\ \A i \in DOMAIN files : i <= lastId'
    /\ hasOwner' = TRUE
    /\ Opening(p, "open")
    /\ UNCHANGED profileVars

\* The opening fails and the process with it; it may be started again.
OpenFailed(p) ==
    /\ opening[p] # "closed"
    /\ Opening(p, "closed")
    /\ adm' = [a \in Admins |-> IF a = p THEN Ready ELSE adm[a]]
    /\ UNCHANGED <<indexVars, config, changes, hasOwner>>

\* UNIQUE(owner, hash) refuses the copy, or the process is interrupted or
\* finds the database locked.
MigrateRejected(p) ==
    /\ opening[p] = "migrate"
    /\ ~UniqueOwnerHash(Copied)
    /\ OpenFailed(p)

OpenInterrupted(p) == MayCrash /\ OpenFailed(p)

\* user add assigns the files and closes the index.
AdoptOpened(a) ==
    /\ opening[a] = "open"
    /\ Adopt(a)
    /\ Opening(a, "closed")
    /\ UNCHANGED hasOwner

\* "nuage upload" adds a file without an owner, unless there is one with
\* this content, and exits.
UploadUnscoped(p, hash) ==
    /\ opening[p] = "open"
    /\ Insert(OldRow(<<NoOwner, hash>>, lastId + 1))
    /\ Opening(p, "closed")
    /\ UNCHANGED <<profileVars, hasOwner>>

UpgradeNext ==
    \/ \E p \in Processes :
        \/ HasColumn(p) \/ Migrate(p) \/ MigrateRejected(p)
        \/ OpenInterrupted(p)
    \/ \E p \in Openers, hash \in Hashes : UploadUnscoped(p, hash)
    \/ \E a \in Admins :
        \/ AdoptOpened(a)
        \/ /\ opening[a] = "closed"
           /\ ConfigStep(a)
           /\ UNCHANGED <<indexVars, hasOwner, opening>>
    \/ AdminsDone /\ UNCHANGED <<hasOwner, opening>>

UpgradeSpec == UpgradeInit /\ [][UpgradeNext]_upgradeVars

-----------------------------------------------------------------------------
(* Properties *)

UpgradeTypeOK ==
    /\ IndexTypeOK
    /\ AdminTypeOK
    /\ hasOwner \in BOOLEAN
    /\ opening \in [Processes -> {"closed", "migrate", "open"}]

Unowned == {i \in DOMAIN files : files[i].owner = NoOwner}

\* config.json has a profile, or a command is about to write one into it.
HasProfile ==
    \/ config.ok /\ config.users # {}
    \/ \E a \in Admins : adm[a].pc = "write"

\* A command ends between the truncation of the file and the write.
SaveCutShort ==
    /\ config' = config
    /\ \E a \in Admins : adm[a].pc = "write" /\ adm'[a] = Ready

\* A command writes over what another one has written since the truncation.
SavesOverlap ==
    /\ ~config.empty /\ config' = Torn
    /\ \E a \in Admins : adm[a].pc = "write" /\ adm'[a].pc # "write"

\* "refusing to remove the last profile": as long as only user add and user
\* rm write the file, no interleaving of their loads and saves, in however
\* many terminals, leaves a config.json without a profile when there was
\* one.  Profiles go only with the whole file, when a save is cut short
\* after the truncation or two saves write over each other; and whatever is
\* saved over such a file has a profile again.
SomeProfileStays ==
    [][/\ config # Written({}) => config' # Written({})
       /\ HasProfile => HasProfile' \/ SaveCutShort \/ SavesOverlap]_upgradeVars

\* An inheritance is all or nothing, and never takes a profile's own files.
InheritsAllOrNothing ==
    [][\A a \in Admins :
          adm[a].pc = "adopt" /\ adm'[a] = Ready /\ files' # files =>
              /\ Unowned' = {}
              /\ DOMAIN files' = DOMAIN files
              /\ \A i \in DOMAIN files : files'[i] # files[i] => i \in Unowned]_upgradeVars

\* "AUTOINCREMENT ids survive this": whoever opens, migrates (even twice) or
\* inherits, every id keeps denoting the same file under the same name, and
\* only the owner of a row may change.
FilesSurvive ==
    [][/\ DOMAIN files \subseteq DOMAIN files'
       /\ \A i \in DOMAIN files :
             files'[i] = [files[i] EXCEPT !.owner = files'[i].owner]]_upgradeVars

\* "A second Open must be a no-op, not fail or re-run the migration against
\* an already-migrated table": an opening that succeeds on a table which has
\* its owner column changes no row.
SecondOpenIsNoOp ==
    [][\A p \in Processes :
          hasOwner /\ opening[p] # "open" /\ opening'[p] = "open" =>
              UNCHANGED indexVars]_upgradeVars
=============================================================================
