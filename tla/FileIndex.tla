------------------------------ MODULE FileIndex ------------------------------
(***************************************************************************)
(* The files table of internal/index and the SQL statements Nuage runs on  *)
(* it.  SQLite executes one statement at a time (Open caps the pool at one *)
(* connection), so every statement below is one atomic step; a statement   *)
(* that fails changes nothing.                                             *)
(*                                                                         *)
(* Abstracted: size, channel_id and uploaded_at.  The size of a file is a  *)
(* function of its content, hence of its hash; there is one channel; no    *)
(* property is about listing order.                                        *)
(***************************************************************************)
EXTENDS Integers, Functions

CONSTANTS
    Profiles,   \* usernames of the web profiles
    NoOwner,    \* the owner "" of unscoped (CLI or legacy) files
    Hashes,     \* file contents, each identified with its SHA-256
    Folders,    \* directory parts of virtual paths
    Names       \* file names

ASSUME NoOwnerAssumption == NoOwner \notin Profiles

VARIABLES
    files,      \* the rows: a function from the ids in use to records
    lastId      \* the AUTOINCREMENT sequence: the highest id ever assigned

indexVars == <<files, lastId>>

Owners == Profiles \cup {NoOwner}
Paths == Folders \X Names

\* path.Base of a normalized virtual path.
Base(path) == path[2]

Record == [path : Paths, filename : Names, owner : Owners, hash : Hashes,
           message_id : Nat]

IndexTypeOK ==
    /\ lastId \in Nat
    /\ DOMAIN files \subseteq 1..lastId
    /\ files \in [DOMAIN files -> Record]

IndexInit ==
    /\ files = [i \in {} |-> {}]
    /\ lastId = 0

-----------------------------------------------------------------------------
(* Queries *)

\* Ids matching a dedup lookup; UNIQUE(owner, hash) leaves at most one.
FindByHash(hash, owner) ==
    {i \in DOMAIN files : files[i].hash = hash /\ files[i].owner = owner}

\* Faulty variant: the ownership check is missing.
VisibleToAll(id, owner) == id \in DOMAIN files

\* Get by id followed by the ownership check every engine call makes:
\* owner "" bypasses the check.
Visible(id, owner) ==
    /\ id \in DOMAIN files
    /\ owner # NoOwner => files[id].owner = owner

\* The UNIQUE(owner, hash) constraint over a candidate table.
UniqueOwnerHash(table) ==
    \A i, j \in DOMAIN table :
        table[i].owner = table[j].owner /\ table[i].hash = table[j].hash => i = j

-----------------------------------------------------------------------------
(* Statements *)

\* Faulty variant: INTEGER PRIMARY KEY without AUTOINCREMENT, which numbers
\* a row from the highest id still in the table.
InsertReusingIds(rec) ==
    /\ FindByHash(rec.hash, rec.owner) = {}
    /\ \E new \in 1..lastId + 1 :
        /\ new - 1 \in DOMAIN files \cup {0}
        /\ \A i \in DOMAIN files : i < new
        /\ files' = [i \in DOMAIN files \cup {new} |-> IF i = new THEN rec ELSE files[i]]
        /\ lastId' = lastId + 1

\* Faulty variant: no UNIQUE(owner, hash).
InsertUnchecked(rec) ==
    /\ lastId' = lastId + 1
    /\ files' = [i \in DOMAIN files \cup {lastId + 1} |->
                    IF i = lastId + 1 THEN rec ELSE files[i]]

\* INSERT INTO files, when the UNIQUE constraint accepts the row.
Insert(rec) ==
    /\ FindByHash(rec.hash, rec.owner) = {}
    /\ lastId' = lastId + 1
    /\ files' = [i \in DOMAIN files \cup {lastId + 1} |->
                    IF i = lastId + 1 THEN rec ELSE files[i]]

\* INSERT INTO files, when the UNIQUE constraint rejects the row.
InsertRejected(rec) ==
    /\ FindByHash(rec.hash, rec.owner) # {}
    /\ UNCHANGED indexVars

\* DELETE FROM files WHERE id = ?, when it matches.
DeleteRow(id) ==
    /\ id \in DOMAIN files
    /\ files' = Restrict(files, DOMAIN files \ {id})
    /\ UNCHANGED lastId

\* Faulty variant: UPDATE files SET path = ? WHERE id = ?.
RenamePath(id, filename) ==
    /\ id \in DOMAIN files
    /\ files' = [files EXCEPT ![id] = [@ EXCEPT !.path = filename]]
    /\ UNCHANGED lastId

\* UPDATE files SET filename = ? WHERE id = ?, when it matches; path stays.
RenameRow(id, filename) ==
    /\ id \in DOMAIN files
    /\ files' = [files EXCEPT ![id] = [@ EXCEPT !.filename = filename]]
    /\ UNCHANGED lastId

\* Delete and Rename on an id without a row: zero rows affected, ErrNotFound.
NoSuchRow(id) ==
    /\ id \notin DOMAIN files
    /\ UNCHANGED indexVars

\* Faulty variant: the table is dropped and created again.
ResetSequence ==
    /\ files' = [i \in {} |-> {}]
    /\ lastId' = 0

\* DELETE FROM files: sqlite_sequence keeps the highest id.
Reset ==
    /\ files' = [i \in {} |-> {}]
    /\ UNCHANGED lastId

\* Faulty variant: UPDATE OR IGNORE, which skips the rows it cannot change.
AdoptedOrIgnored(owner) ==
    [i \in DOMAIN files |->
        IF files[i].owner = NoOwner /\ FindByHash(files[i].hash, owner) = {}
        THEN [files[i] EXCEPT !.owner = owner] ELSE files[i]]

\* Faulty variant: UPDATE files SET owner = ?, for every row.
AdoptedAll(owner) == [i \in DOMAIN files |-> [files[i] EXCEPT !.owner = owner]]

\* UPDATE files SET owner = ? WHERE owner = '': all rows or, when some row
\* would break UNIQUE(owner, hash), none.
Adopted(owner) ==
    [i \in DOMAIN files |->
        IF files[i].owner = NoOwner THEN [files[i] EXCEPT !.owner = owner]
                                    ELSE files[i]]

BackfillOwner(owner) ==
    /\ UniqueOwnerHash(Adopted(owner))
    /\ files' = Adopted(owner)
    /\ UNCHANGED lastId

BackfillOwnerRejected(owner) ==
    /\ ~UniqueOwnerHash(Adopted(owner))
    /\ UNCHANGED indexVars
=============================================================================
