----------------------------- MODULE EngineStore -----------------------------
(***************************************************************************)
(* The engine implements FileStore: the index is the authority on which    *)
(* files exist, so the store a user sees is a function of the table alone. *)
(***************************************************************************)
EXTENDS Engine

Key(i) == <<files[i].owner, files[i].hash>>

\* The file stored under a key, read off its row.
StoredFile(k) ==
    LET i == CHOOSE j \in DOMAIN files : Key(j) = k
    IN  [handle |-> i, path |-> files[i].path, name |-> files[i].filename]

StoreView == [k \in {Key(i) : i \in DOMAIN files} |-> StoredFile(k)]

Store == INSTANCE FileStore
            WITH Owner <- Owners, Hash <- Hashes, Path <- Paths, Name <- Names,
                 NameOf <- Base, store <- StoreView, lastHandle <- lastId

\* Whatever requests interleave or fail, the table behaves like a store with
\* one file per owner and content, handles that are never given to another
\* file (AUTOINCREMENT), paths that Rename leaves alone, and operations that
\* take effect on one file at a time.
StoreSpec == Store!Spec
=============================================================================
