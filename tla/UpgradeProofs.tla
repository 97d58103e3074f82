---------------------------- MODULE UpgradeProofs ----------------------------
(* Proofs about Upgrade, and the profile commands in it, for every value of *)
(* their constants.                                                         *)
EXTENDS Upgrade, ProfilesProofs, FiniteSetTheorems

-----------------------------------------------------------------------------
(* Type correctness *)

LEMMA OldRowType ==
    ASSUME NEW file \in Owners \X Hashes, NEW i \in Nat
    PROVE  OldRow(file, i) \in Record
  <1>1. (CHOOSE p \in Paths : TRUE) \in Paths
    BY UpgradeAssumption
  <1>2. \A p \in Paths : Base(p) \in Names
    BY DEF Paths, Base
  <1> QED
    BY <1>1, <1>2 DEF OldRow, Record

LEMMA UpgradeTypeInit == UpgradeInit => UpgradeTypeOK
  <1> SUFFICES ASSUME UpgradeInit PROVE UpgradeTypeOK
    OBVIOUS
  <1> DEFINE old == {f \in OldFiles : hasOwner \/ f[1] = NoOwner}
             ids == 2..Cardinality(old) + 1
  <1>1. Cardinality(old) \in Nat /\ old \subseteq Owners \X Hashes
    BY UpgradeAssumption, FS_Subset, FS_CardinalityType
  <1>2. lastId = Cardinality(old) + 1
    BY DEF UpgradeInit
  <1>3. PICK f \in [ids -> old] : files = [i \in ids |-> OldRow(f[i], i)]
    BY DEF UpgradeInit, Bijection, Injection
  <1>4. IndexTypeOK
    <2>1. \A i \in ids : i \in Nat /\ f[i] \in Owners \X Hashes
      BY <1>1, <1>3
    <2>2. \A i \in ids : OldRow(f[i], i) \in Record
      BY <2>1, OldRowType
    <2> HIDE DEF ids
    <2>3. files \in [DOMAIN files -> Record]
      BY <1>3, <2>2
    <2>4. DOMAIN files \subseteq 1..lastId
      BY <1>1, <1>2, <1>3 DEF ids
    <2> QED
      BY <1>1, <1>2, <2>3, <2>4 DEF IndexTypeOK
  <1>5. AdminTypeOK
    BY ProfilesAssumption DEF UpgradeInit, ProfilesInit, AdminTypeOK, Written
  <1> QED
    BY <1>4, <1>5 DEF UpgradeInit, UpgradeTypeOK

LEMMA MigrateType ==
    ASSUME IndexTypeOK, NEW p, Migrate(p)
    PROVE  IndexTypeOK' /\ files' = Copied /\ DOMAIN files' = DOMAIN files
  <1>1. files' = Copied /\ DOMAIN files' = DOMAIN files
    BY DEF Migrate, Copied
  <1>2. files' \in [DOMAIN files' -> Record]
    BY <1>1 DEF IndexTypeOK, Copied, Record, Owners
  <1>3. lastId' \in Nat /\ DOMAIN files' \subseteq 1..lastId'
    BY <1>1 DEF IndexTypeOK, Migrate
  <1> QED
    BY <1>1, <1>2, <1>3 DEF IndexTypeOK

LEMMA UnscopedType ==
    ASSUME IndexTypeOK, NEW p, NEW hash \in Hashes, UploadUnscoped(p, hash)
    PROVE  /\ IndexTypeOK'
           /\ DOMAIN files \subseteq DOMAIN files'
           /\ \A i \in DOMAIN files : files'[i] = files[i]
  <1>1. OldRow(<<NoOwner, hash>>, lastId + 1) \in Record
    BY OldRowType DEF IndexTypeOK, Owners
  <1> QED
    BY <1>1 DEF UploadUnscoped, Insert, IndexTypeOK

LEMMA UpgradeTypeNext == UpgradeTypeOK /\ [UpgradeNext]_upgradeVars => UpgradeTypeOK'
  <1> SUFFICES ASSUME UpgradeTypeOK, [UpgradeNext]_upgradeVars
               PROVE  UpgradeTypeOK'
    OBVIOUS
  <1> USE DEF UpgradeTypeOK
  <1>1. ASSUME NEW p \in Processes, HasColumn(p)
        PROVE  UpgradeTypeOK'
    BY <1>1 DEF HasColumn, Opening, indexVars, profileVars, IndexTypeOK, AdminTypeOK
  <1>2. ASSUME NEW p \in Processes, Migrate(p)
        PROVE  UpgradeTypeOK'
    BY <1>2, MigrateType DEF Migrate, Opening, profileVars, AdminTypeOK
  <1>3. ASSUME NEW p \in Processes, OpenFailed(p)
        PROVE  UpgradeTypeOK'
    BY <1>3 DEF OpenFailed, Opening, indexVars, IndexTypeOK, AdminTypeOK
  <1>4. ASSUME NEW p \in Openers, NEW hash \in Hashes, UploadUnscoped(p, hash)
        PROVE  UpgradeTypeOK'
    BY <1>4, UnscopedType DEF UploadUnscoped, Opening, profileVars, AdminTypeOK
  <1>5. ASSUME NEW a \in Admins, AdoptOpened(a)
        PROVE  UpgradeTypeOK'
    <2>1. adm[a].heir \in Profiles
      BY <1>5 DEF AdoptOpened, Adopt, AdminTypeOK, Ready, Saving, Adopting
    <2>2. IndexTypeOK'
      BY <1>5, <2>1, BackfillType
      DEF AdoptOpened, Adopt, BackfillOwnerRejected, indexVars, IndexTypeOK
    <2>3. AdminTypeOK'
      BY <1>5 DEF AdoptOpened, Adopt, AdminTypeOK
    <2> QED
      BY <1>5, <2>2, <2>3 DEF AdoptOpened, Opening
  <1>6. ASSUME NEW a \in Admins, ConfigStep(a), UNCHANGED <<indexVars, hasOwner, opening>>
        PROVE  UpgradeTypeOK'
    BY <1>6, AdminType DEF indexVars, IndexTypeOK
  <1>7. ASSUME UNCHANGED upgradeVars
        PROVE  UpgradeTypeOK'
    BY <1>7 DEF upgradeVars, indexVars, profileVars, IndexTypeOK, AdminTypeOK
  <1> QED
    BY <1>1, <1>2, <1>3, <1>4, <1>5, <1>6, <1>7
    DEF UpgradeNext, MigrateRejected, OpenInterrupted, AdminsDone, upgradeVars

\* The index and the commands on it keep their types, for any number of
\* terminals and other processes that open it (index.Open, newUserAddCmd).
THEOREM UpgradeTypeCorrect == UpgradeSpec => []UpgradeTypeOK
  BY UpgradeTypeInit, UpgradeTypeNext, PTL DEF UpgradeSpec

-----------------------------------------------------------------------------
(* Inheritance *)

\* What a completed inheritance makes of the table.
LEMMA AdoptedOwners ==
    ASSUME IndexTypeOK, NEW owner \in Profiles, BackfillOwner(owner)
    PROVE  /\ Unowned' = {}
           /\ DOMAIN files' = DOMAIN files
           /\ \A i \in DOMAIN files : files'[i] # files[i] => i \in Unowned
  <1>1. /\ DOMAIN files' = DOMAIN files
        /\ \A i \in DOMAIN files :
              files'[i] = IF files[i].owner = NoOwner
                          THEN [files[i] EXCEPT !.owner = owner] ELSE files[i]
    BY DEF BackfillOwner, Adopted
  <1>2. \A i \in DOMAIN files : files'[i].owner # NoOwner
    BY <1>1, NoOwnerAssumption DEF IndexTypeOK, Record
  <1> QED
    BY <1>1, <1>2 DEF Unowned

\* An inheritance takes all unowned files and nothing else, or nothing, however
\* many terminals, openers and interruptions there are (newUserAddCmd,
\* Index.BackfillOwner).
THEOREM InheritanceComplete == UpgradeSpec => InheritsAllOrNothing
  <1> DEFINE Inherited(a) ==
        adm[a].pc = "adopt" /\ adm'[a] = Ready /\ files' # files =>
            /\ Unowned' = {}
            /\ DOMAIN files' = DOMAIN files
            /\ \A i \in DOMAIN files : files'[i] # files[i] => i \in Unowned
  <1>1. ASSUME UpgradeTypeOK, UpgradeNext, NEW a \in Admins
        PROVE  Inherited(a)
    <2> SUFFICES ASSUME adm[a].pc = "adopt", adm'[a] = Ready, files' # files
                 PROVE  /\ Unowned' = {}
                        /\ DOMAIN files' = DOMAIN files
                        /\ \A i \in DOMAIN files : files'[i] # files[i] => i \in Unowned
      OBVIOUS
    <2>1. adm' # adm
      BY DEF Ready
    <2>2. PICK b \in Admins : Adopt(b)
      BY <1>1, <2>1 DEF UpgradeNext, HasColumn, Migrate, MigrateRejected, OpenInterrupted,
                  OpenFailed, UploadUnscoped, AdoptOpened, AdminsDone, indexVars, profileVars
    <2>3. BackfillOwner(adm[b].heir)
      BY <2>2 DEF Adopt, BackfillOwnerRejected, indexVars
    <2>4. adm[b].heir \in Profiles
      BY <1>1, <2>2 DEF UpgradeTypeOK, AdminTypeOK, Adopt, Ready, Saving, Adopting
    <2> QED
      BY <1>1, <2>3, <2>4, AdoptedOwners DEF UpgradeTypeOK
  <1>2. UpgradeTypeOK /\ [UpgradeNext]_upgradeVars
          => [\A a \in Admins : Inherited(a)]_upgradeVars
    BY <1>1
  <1> QED
    BY <1>2, UpgradeTypeCorrect, PTL DEF UpgradeSpec, InheritsAllOrNothing

-----------------------------------------------------------------------------
(* Ids and files *)

\* Whoever opens, migrates or inherits, an id keeps its file and its name
\* (migrateOwnerColumn, Index.BackfillOwner, Index.Insert).
THEOREM FilesSurviveUpgrade == UpgradeSpec => FilesSurvive
  <1> DEFINE Kept == /\ DOMAIN files \subseteq DOMAIN files'
                     /\ \A i \in DOMAIN files :
                           files'[i] = [files[i] EXCEPT !.owner = files'[i].owner]
  <1>1. ASSUME UpgradeTypeOK, UpgradeNext
        PROVE  Kept
    <2>1. ASSUME files' = files
          PROVE  Kept
      BY <1>1, <2>1 DEF UpgradeTypeOK, IndexTypeOK, Record
    <2>2. ASSUME NEW p \in Processes, Migrate(p)
          PROVE  Kept
      BY <1>1, <2>2, MigrateType DEF UpgradeTypeOK, IndexTypeOK, Record, Copied
    <2>3. ASSUME NEW p \in Openers, NEW hash \in Hashes, UploadUnscoped(p, hash)
          PROVE  Kept
      BY <1>1, <2>3, UnscopedType DEF UpgradeTypeOK, IndexTypeOK, Record
    <2>4. ASSUME NEW a \in Admins, AdoptOpened(a)
          PROVE  Kept
      <3>1. CASE BackfillOwner(adm[a].heir)
        BY <1>1, <3>1 DEF BackfillOwner, Adopted, UpgradeTypeOK, IndexTypeOK, Record
      <3> QED
        BY <2>1, <2>4, <3>1 DEF AdoptOpened, Adopt, BackfillOwnerRejected, indexVars
    <2> QED
      BY <1>1, <2>1, <2>2, <2>3, <2>4
      DEF UpgradeNext, HasColumn, MigrateRejected, OpenInterrupted, OpenFailed,
          AdminsDone, indexVars
  <1>2. UpgradeTypeOK /\ [UpgradeNext]_upgradeVars => [Kept]_upgradeVars
    BY <1>1
  <1> QED
    BY <1>2, UpgradeTypeCorrect, PTL DEF UpgradeSpec, FilesSurvive

-----------------------------------------------------------------------------
(* The last profile *)

\* A command is going to save somebody, and only finitely many: otherwise
\* Cardinality(config.users) > 1, the guard of user rm, would mean nothing.
SavesSomebody ==
    /\ IsFiniteSet(config.users)
    /\ \A a \in Admins : adm[a] \in Saving =>
          IsFiniteSet(adm[a].users) /\ adm[a].users # {}

LEMMA SavesSomebodyLoad ==
    ASSUME UpgradeTypeOK, SavesSomebody, NEW a \in Admins, NEW users, NEW heir,
           Load(a, users, heir), IsFiniteSet(users), users # {}
    PROVE  SavesSomebody'
  BY DEF UpgradeTypeOK, AdminTypeOK, SavesSomebody, Load

\* What a step of the profile commands may do to the last profile.
Keeps ==
    /\ config # Written({}) => config' # Written({})
    /\ HasProfile => HasProfile' \/ SaveCutShort \/ SavesOverlap

LEMMA SavesSomebodyStep ==
    ASSUME ~Resetup, UpgradeTypeOK, SavesSomebody, NEW a \in Admins, ConfigStep(a)
    PROVE  SavesSomebody' /\ Keeps
  <1>1. ASSUME NEW users, NEW heir, Load(a, users, heir), IsFiniteSet(users), users # {}
        PROVE  SavesSomebody' /\ Keeps
    <2>1. config' = config /\ \A b \in Admins : adm[b].pc = "write" => adm'[b] = adm[b]
      BY <1>1 DEF UpgradeTypeOK, AdminTypeOK, Load, Ready
    <2> QED
      BY <1>1, <2>1, SavesSomebodyLoad DEF Keeps, HasProfile
  <1>2. ASSUME NEW user \in Profiles, UserAdd(a, user)
        PROVE  SavesSomebody' /\ Keeps
    <2>1. IsFiniteSet(config.users \cup {user})
      BY FS_AddElement DEF SavesSomebody
    <2> QED
      BY <1>1, <1>2, <2>1 DEF UserAdd
  <1>3. ASSUME NEW user \in Profiles, UserRm(a, user)
        PROVE  SavesSomebody' /\ Keeps
    <2>1. /\ IsFiniteSet(config.users \ {user})
          /\ Cardinality(config.users \ {user}) = Cardinality(config.users) - 1
          /\ Cardinality(config.users) \in Nat
      BY <1>3, FS_RemoveElement, FS_CardinalityType DEF SavesSomebody, UserRm
    <2>2. config.users \ {user} # {}
      BY <1>3, <2>1, FS_EmptySet DEF UserRm
    <2> QED
      BY <1>1, <1>3, <2>1, <2>2 DEF UserRm
  <1>4. ASSUME SaveTruncate(a)
        PROVE  SavesSomebody' /\ Keeps
    <2>1. adm[a] \in Saving /\ ([adm[a] EXCEPT !.pc = "write"]).users = adm[a].users
      BY <1>4 DEF UpgradeTypeOK, AdminTypeOK, SaveTruncate, Ready, Saving, Adopting
    <2>2. IsFiniteSet({}) /\ config'.users = {} /\ config' # Written({})
      BY <1>4, FS_EmptySet DEF SaveTruncate, Truncated, Written
    <2>3. adm'[a].pc = "write"
      BY <1>4, <2>1 DEF UpgradeTypeOK, AdminTypeOK, SaveTruncate, Saving
    <2>4. SavesSomebody'
      BY <1>4, <2>1, <2>2 DEF UpgradeTypeOK, AdminTypeOK, SavesSomebody, SaveTruncate
    <2> QED
      BY <2>2, <2>3, <2>4 DEF Keeps, HasProfile
  <1>5. ASSUME SaveWrite(a)
        PROVE  SavesSomebody' /\ Keeps
    <2>1. adm[a] \in Saving /\ adm[a].pc = "write" /\ adm'[a].pc # "write"
      BY <1>5 DEF UpgradeTypeOK, AdminTypeOK, SaveWrite, Ready, Saving, Adopting
    <2>2. IsFiniteSet(adm[a].users) /\ adm[a].users # {}
      BY <2>1 DEF SavesSomebody
    <2>3. \/ config' = Written(adm[a].users)
          \/ config' = Torn /\ ~config.empty
      BY <1>5 DEF SaveWrite, Overwritten
    <2>4. IsFiniteSet(config'.users) /\ config' # Written({})
      BY <2>2, <2>3, FS_EmptySet DEF Torn, Written
    <2>5. HasProfile' \/ SavesOverlap
      BY <2>1, <2>2, <2>3 DEF HasProfile, SavesOverlap, Written
    <2>6. \A b \in Admins : adm'[b] \in Saving => adm'[b] = adm[b]
      BY <1>5 DEF UpgradeTypeOK, AdminTypeOK, SaveWrite, Ready, Saving
    <2> QED
      BY <2>4, <2>5, <2>6 DEF SavesSomebody, Keeps
  <1>6. ASSUME Interrupt(a)
        PROVE  SavesSomebody' /\ Keeps
    <2>1. config' = config /\ adm'[a] = Ready /\ \A b \in Admins \ {a} : adm'[b] = adm[b]
      BY <1>6 DEF UpgradeTypeOK, AdminTypeOK, Interrupt
    <2> QED
      BY <2>1 DEF SavesSomebody, Ready, Saving, Keeps, HasProfile, SaveCutShort
  <1> QED
    BY <1>2, <1>3, <1>4, <1>5, <1>6 DEF ConfigStep, Setup

LEMMA SavesSomebodyNext ==
    ASSUME ~Resetup, UpgradeTypeOK, SavesSomebody, [UpgradeNext]_upgradeVars
    PROVE  SavesSomebody' /\ Keeps
  <1>1. ASSUME NEW a \in Admins, ConfigStep(a)
        PROVE  SavesSomebody' /\ Keeps
    BY <1>1, SavesSomebodyStep
  <1>2. ASSUME config' = config,
               \A b \in Admins : adm'[b] = adm[b] \/ adm'[b] = Ready
        PROVE  SavesSomebody' /\ Keeps
    BY <1>2 DEF SavesSomebody, Ready, Saving, Keeps, HasProfile, SaveCutShort
  <1>3. CASE \E a \in Admins : ConfigStep(a)
    BY <1>1, <1>3
  <1>4. CASE ~\E a \in Admins : ConfigStep(a)
    BY <1>2, <1>4
    DEF UpgradeTypeOK, AdminTypeOK, UpgradeNext, HasColumn, Migrate, MigrateRejected,
        OpenInterrupted, OpenFailed, UploadUnscoped, AdoptOpened, Adopt, AdminsDone,
        upgradeVars, indexVars, profileVars
  <1> QED
    BY <1>3, <1>4

\* SomeProfileStays: as long as only user add and user rm write config.json,
\* no interleaving of their loads and saves, in any number of terminals,
\* removes the last profile (newUserRmCmd); it can only be lost with the
\* whole file, by a save cut short or two saves over each other (config.Save).
THEOREM LastProfileStays ==
    ASSUME ~Resetup
    PROVE  UpgradeSpec => SomeProfileStays
  <1>1. UpgradeInit => SavesSomebody
    BY FS_EmptySet DEF UpgradeInit, ProfilesInit, SavesSomebody, Written, Ready, Saving
  <1>2. UpgradeTypeOK /\ SavesSomebody /\ [UpgradeNext]_upgradeVars
          => SavesSomebody' /\ [Keeps]_upgradeVars
    BY SavesSomebodyNext
  <1> QED
    BY <1>1, <1>2, UpgradeTypeCorrect, PTL DEF UpgradeSpec, SomeProfileStays, Keeps
=============================================================================
