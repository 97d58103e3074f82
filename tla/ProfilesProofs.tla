--------------------------- MODULE ProfilesProofs ---------------------------
(* Types of the profile commands, for every value of the constants; cited  *)
(* wherever these commands run beside something else.                      *)
EXTENDS Profiles, TLAPS

\* A command in a terminal goes on with another state; its step writes the
\* config file or leaves it alone.
LEMMA AdminType ==
    ASSUME AdminTypeOK, NEW a \in Admins, ConfigStep(a)
    PROVE  AdminTypeOK'
  <1> USE DEF AdminTypeOK
  <1>1. ASSUME NEW users \in SUBSET Profiles, NEW heir \in Owners,
               Load(a, users, heir)
        PROVE  AdminTypeOK'
    <2>1. [pc |-> "save", users |-> users, heir |-> heir] \in Saving
      BY DEF Saving
    <2> QED
      BY <1>1, <2>1, ProfilesAssumption DEF Load
  <1>2. CASE \E user \in Profiles : UserAdd(a, user)
    <2>1. PICK user \in Profiles : UserAdd(a, user)
      BY <1>2
    <2>2. /\ config.users \cup {user} \in SUBSET Profiles
          /\ (IF config.users = {} THEN user ELSE NoOwner) \in Owners
      BY DEF Owners
    <2> QED
      BY <1>1, <2>1, <2>2 DEF UserAdd
  <1>3. CASE \E user \in Profiles : UserRm(a, user)
    <2>1. PICK user \in Profiles : UserRm(a, user)
      BY <1>3
    <2>2. /\ config.users \ {user} \in SUBSET Profiles
          /\ NoOwner \in Owners
      BY DEF Owners
    <2> QED
      BY <1>1, <2>1, <2>2 DEF UserRm
  <1>4. CASE Setup(a)
    <2>1. config.users \in SUBSET Profiles /\ NoOwner \in Owners
      BY DEF Owners
    <2> QED
      BY <1>1, <1>4, <2>1 DEF Setup
  <1>5. CASE SaveTruncate(a)
    <2>1. adm[a] \in Saving
      BY <1>5 DEF SaveTruncate, Ready, Adopting
    <2>2. [adm[a] EXCEPT !.pc = "write"] \in Saving
      BY <2>1 DEF Saving
    <2> QED
      BY <1>5, <2>2 DEF SaveTruncate, Truncated
  <1>6. CASE SaveWrite(a)
    <2>1. adm[a] \in Saving
      BY <1>6 DEF SaveWrite, Ready, Adopting
    <2>2. adm[a].heir # NoOwner => [pc |-> "adopt", heir |-> adm[a].heir] \in Adopting
      BY <2>1 DEF Saving, Adopting, Owners
    <2>3. config' \in [ok : BOOLEAN, empty : BOOLEAN, users : SUBSET Profiles]
      <3>1. adm[a].users \in SUBSET Profiles
        BY <2>1 DEF Saving
      <3>2. config' = Written(adm[a].users) \/ config' = Torn
        BY <1>6 DEF SaveWrite, Overwritten
      <3>3. CASE config' = Written(adm[a].users)
        BY <3>1, <3>3 DEF Written
      <3>4. CASE config' = Torn
        BY <3>4 DEF Torn
      <3> QED
        BY <3>2, <3>3, <3>4
    <2> QED
      BY <1>6, <2>2, <2>3 DEF SaveWrite
  <1>7. CASE Interrupt(a)
    BY <1>7 DEF Interrupt
  <1> QED
    BY <1>2, <1>3, <1>4, <1>5, <1>6, <1>7 DEF ConfigStep

\* Adoption changes nothing but owners.
LEMMA BackfillType ==
    ASSUME IndexTypeOK, NEW owner \in Profiles, BackfillOwner(owner)
    PROVE  IndexTypeOK'
  BY DEF IndexTypeOK, BackfillOwner, Adopted, Record, Owners
=============================================================================
