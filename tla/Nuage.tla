-------------------------------- MODULE Nuage --------------------------------
(***************************************************************************)
(* The whole installation: the web server and the sessions it gave out,    *)
(* the CLI uploads and downloads, the maintenance commands and the profile *)
(* commands, on one index.db, one config.json and one channel.             *)
(***************************************************************************)
EXTENDS Maintenance, Profiles

CONSTANT MaxMoves   \* bound: how often the installation moves to a new machine

ASSUME NuageAssumption == MaxMoves \in Nat

VARIABLES
    serving,    \* whether the web server runs
    sessions,   \* profiles whose cookies verify under the session secret
    moves,      \* moves to a new machine so far
    uploader    \* history: who uploaded each message, "" for the CLI and before profiles

installationVars == <<nuageVars, profileVars, serving, sessions, moves, uploader>>

NuageInit ==
    /\ MaintenanceInit
    /\ ProfilesInit
    /\ serving = FALSE
    /\ sessions = {}
    /\ moves = 0
    /\ uploader = [m \in DOMAIN messages |-> NoOwner]

\* nuage serve refuses to start without a profile, and copies the users: each
\* of them may log in from now on.  A session outlives the server and the
\* profile, because requireAuth checks the signature of the cookie only.
ServeStart ==
    /\ ~serving
    /\ config.ok /\ config.users # {}
    /\ serving' = TRUE
    /\ sessions' = sessions \cup config.users
    /\ UNCHANGED <<nuageVars, profileVars, moves>>

\* The server is stopped or dies, and its requests with it; what the CLI
\* runs is not affected.
ServeStop ==
    /\ serving
    /\ serving' = FALSE
    /\ LET cut == {r \in Requests : ~At(r, "idle") /\ req[r].by # NoOwner} IN
       /\ MayFail \/ cut = {}
       /\ req' = [r \in Requests |-> IF r \in cut THEN Idle ELSE req[r]]
    /\ UNCHANGED <<indexVars, channelVars, started, deleting, maintenanceVars,
                   profileVars, sessions, moves>>

\* A request is begun by a profile that is logged in, or by the CLI, which
\* like every command needs a config.json that parses.
Admitted ==
    \A r \in Requests : At(r, "idle") /\ req'[r].pc # "idle" =>
        \/ serving /\ req'[r].by \in sessions
        \/ req'[r].by = NoOwner /\ config.ok

RunServing ==
    /\ ServeStep
    /\ Admitted
    /\ UNCHANGED <<profileVars, serving, sessions, moves>>

RunCommand ==
    /\ \/ /\ config.ok /\ (ReindexReset \/ CaptionsList)
          /\ Exclusive => AllReady
       \/ CommandStep
       \/ CommandFail
       \/ LoseIndex /\ ~serving
    /\ UNCHANGED <<profileVars, serving, sessions, moves>>

RunProfiles ==
    /\ Exclusive => cmd = NoCommand
    /\ \E a \in Admins :
        \/ ConfigStep(a) /\ UNCHANGED vars
        \/ Adopt(a) /\ UNCHANGED <<channelVars, engineVars>>
    /\ UNCHANGED <<maintenanceVars, serving, sessions, moves>>

\* "Moving to a new machine": auth and "init --existing" have been run there,
\* the index is empty, there are no profiles, and the first "user add" will
\* generate another session secret.
Move ==
    /\ moves < MaxMoves
    /\ moves' = moves + 1
    /\ ~serving /\ AllReady
    /\ config' = Written({})
    /\ sessions' = {}
    /\ LoseIndex
    /\ UNCHANGED <<adm, changes, serving>>

\* Everything is over: the bounds are used up or config.json is torn.
AllSettled ==
    /\ AllIdle /\ cmd = NoCommand /\ AllReady /\ ~serving
    /\ UNCHANGED <<nuageVars, profileVars, serving, sessions, moves>>

Step ==
    \/ ServeStart \/ ServeStop
    \/ RunServing \/ RunCommand \/ RunProfiles
    \/ Move
    \/ AllSettled

\* A message is sent with its uploader in the caption.
Remember ==
    uploader' =
        [m \in DOMAIN uploader \cup DOMAIN messages' |->
            IF m \in DOMAIN uploader THEN uploader[m]
                                     ELSE messages'[m].caption.owner]

NuageNext == Step /\ Remember

NuageSpec == NuageInit /\ [][NuageNext]_installationVars

-----------------------------------------------------------------------------
(* Properties *)

InstallationTypeOK ==
    /\ AllTypeOK
    /\ AdminTypeOK
    /\ serving \in BOOLEAN
    /\ sessions \subseteq Profiles
    /\ moves \in 0..MaxMoves
    /\ uploader \in [1..lastMessage -> Owners]

\* Each profile "only sees/manages the files they uploaded": what a profile
\* uploaded is never listed under another owner, nor under none, through
\* renamings, user add and rm, restarts, a lost index, captions rewritten by
\* backfill-captions, reindexing and a move to a machine whose first profile
\* is somebody else.
OwnUploadsOnly ==
    \A i \in DOMAIN files :
        LET p == uploader[files[i].message_id] IN p # NoOwner => files[i].owner = p
=============================================================================
