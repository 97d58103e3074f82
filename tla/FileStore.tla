------------------------------ MODULE FileStore ------------------------------
(***************************************************************************)
(* What Nuage promises its users, without Telegram, rows or requests: each *)
(* owner has at most one file per content (dedup is per owner), reachable  *)
(* under a handle that is never given to another file, with a virtual path *)
(* that never changes and a name that does.  One operation touches one     *)
(* file of one owner.                                                      *)
(***************************************************************************)
EXTENDS Naturals

CONSTANTS Owner, Hash, Path, Name, NameOf(_)

VARIABLES
    store,      \* a function from <<owner, hash>> to the file stored there
    lastHandle  \* the latest handle given out

storeVars == <<store, lastHandle>>

Init ==
    /\ store = [k \in {} |-> {}]
    /\ lastHandle = 0

\* A first upload of this content by this owner.
Put(k, p) ==
    /\ k \notin DOMAIN store
    /\ lastHandle' = lastHandle + 1
    /\ store' = [j \in DOMAIN store \cup {k} |->
                    IF j = k
                    THEN [handle |-> lastHandle + 1, path |-> p, name |-> NameOf(p)]
                    ELSE store[j]]

Rename(k, name) ==
    /\ k \in DOMAIN store
    /\ store' = [store EXCEPT ![k] = [@ EXCEPT !.name = name]]
    /\ UNCHANGED lastHandle

Remove(k) ==
    /\ k \in DOMAIN store
    /\ store' = [j \in DOMAIN store \ {k} |-> store[j]]
    /\ UNCHANGED lastHandle

Next ==
    \E k \in Owner \X Hash :
        \/ \E p \in Path : Put(k, p)
        \/ \E name \in Name : Rename(k, name)
        \/ Remove(k)

Spec == Init /\ [][Next]_storeVars
=============================================================================
