------------------------------- MODULE Serving -------------------------------
(***************************************************************************)
(* "nuage serve" under systemd: a process that reads config.json, connects *)
(* to Telegram, listens, and is started again whenever it ends, with the   *)
(* logins it handles meanwhile.  What it holds in memory (limiter, users,  *)
(* connection) is lost with it, what browsers hold is not.                 *)
(***************************************************************************)
EXTENDS Connection, Logins

CONSTANTS
    MaxFaults,      \* bound: failures of Telegram, the port and the process
    MaxEdits        \* bound: user add and user rm

ASSUME ServingAssumption == MaxFaults \in Nat /\ MaxEdits \in Nat

VARIABLES
    process,    \* "down", "new", "serving" or "closing"
    profiles,   \* the users of config.json
    faults,     \* faults so far
    edits,      \* changes of config.json so far
    given       \* history: age of the latest right password, per profile

servingVars == <<connectionVars, loginVars, process, profiles, faults, edits, given>>

processVars == <<process, faults>>
configVars == <<profiles, edits>>

ServingInit ==
    /\ ConnectionInit
    /\ LoginInit
    /\ process = "down"
    /\ profiles = {}
    /\ faults = 0
    /\ edits = 0
    /\ given = [p \in Profiles |-> TTL + 1]

Fault ==
    /\ faults < MaxFaults
    /\ faults' = faults + 1

NoFault == UNCHANGED faults

-----------------------------------------------------------------------------
(* The process *)

\* loadEngineDeps, the users, core.New.  Without a profile the process ends.
Start ==
    /\ process = "down"
    /\ profiles # {}
    /\ process' = "new"
    /\ LoginsStart(profiles)
    /\ New
    /\ NoFault /\ UNCHANGED <<configVars, given>>

\* core.New has returned an error.
StartFails ==
    /\ process = "new" /\ engine = "failed"
    /\ process' = "down"
    /\ LoginsGone
    /\ Gone
    /\ NoFault /\ UNCHANGED <<configVars, given>>

Listen ==
    /\ process = "new" /\ engine = "open"
    /\ process' = "serving"
    /\ NoFault /\ UNCHANGED <<connectionVars, loginVars, configVars, given>>

\* The address is in use: ListenAndServe returns and the deferred Close runs.
ListenFails ==
    /\ process = "new"
    /\ Close
    /\ process' = "closing"
    /\ Fault /\ UNCHANGED <<loginVars, configVars, given>>

Exit ==
    /\ process = "closing" /\ engine = "closed"
    /\ process' = "down"
    /\ LoginsGone
    /\ Gone
    /\ NoFault /\ UNCHANGED <<configVars, given>>

\* The process is killed: no deferred call runs.
Kill ==
    /\ process # "down"
    /\ process' = "down"
    /\ LoginsGone
    /\ Gone
    /\ Fault /\ UNCHANGED <<configVars, given>>

\* The client and core.New, up to a refusal of Telegram or the network.
Connect ==
    /\ \/ RunConnected \/ StatusAuthorized
       \/ ContextDone /\ cancelled
       \/ RunReturns
       \/ NewReturns \/ NewCancels \/ NewFails \/ CloseReturns
    /\ NoFault /\ UNCHANGED <<loginVars, process, configVars, given>>

ConnectFaulty ==
    /\ RunRefused \/ StatusFailed \/ (ContextDone /\ ~cancelled)
    /\ Fault /\ UNCHANGED <<loginVars, process, configVars, given>>

-----------------------------------------------------------------------------
(* Logins *)

\* A right password restarts the life of the profile's session.
Remember(login) == given' = [given EXCEPT ![login.user] = 0]

Serve ==
    /\ process = "serving"
    /\ \/ \E h \in Handlers :
            \/ \E login \in Login : LoginBegin(h, login) /\ UNCHANGED given
            \/ LoginFailed(h) /\ UNCHANGED given
            \/ LoginSucceeded(h) /\ Remember(logins[h])
       \/ /\ \/ \E a \in Addresses : LoginRefused(a)
             \/ \E b \in Browsers : Logout(b) \/ Accept(b)
          /\ UNCHANGED given
    /\ NoFault /\ UNCHANGED <<connectionVars, process, configVars>>

Time ==
    /\ Tick
    /\ given' = [p \in Profiles |-> Older(given[p], TTL + 1)]
    /\ UNCHANGED <<connectionVars, processVars, configVars>>

\* user add and user rm, which keeps the last profile; the server is not told.
EditProfiles ==
    /\ edits < MaxEdits
    /\ edits' = edits + 1
    /\ \/ \E p \in Profiles \ profiles : profiles' = profiles \cup {p}
       \/ \E p \in profiles : profiles' = profiles \ {p} /\ profiles' # {}
    /\ UNCHANGED <<connectionVars, loginVars, processVars, given>>

\* systemd starts the process again when it has ended, the process takes its
\* steps, Telegram answers in the end, and time passes.
Restart == Start \/ StartFails \/ Listen \/ Exit

ServingNext ==
    \/ Restart \/ Connect \/ ConnectFaulty \/ ListenFails \/ Kill
    \/ Serve \/ Time \/ EditProfiles

ServingFairness ==
    /\ WF_servingVars(Restart)
    /\ WF_servingVars(Connect)
    /\ WF_servingVars(Time)

ServingSpec == ServingInit /\ [][ServingNext]_servingVars /\ ServingFairness

-----------------------------------------------------------------------------
(* Properties *)

ServingTypeOK ==
    /\ ConnectionTypeOK
    /\ LoginTypeOK
    /\ process \in {"down", "new", "serving", "closing"}
    /\ profiles \subseteq Profiles
    /\ faults \in 0..MaxFaults
    /\ edits \in 0..MaxEdits
    /\ given \in [Profiles -> 0..TTL + 1]

\* A session is that of a profile whose password was given within SessionTTL,
\* whatever the server, its users and its limiter have gone through since.
SessionsEarned ==
    \A b \in Browsers : Verifies(b) => given[cookies[b].user] <= cookies[b].age

\* An address that is locked out gets its next attempt, however often it
\* tries in between and whoever else fails under the same address.
LockoutEnds == \A a \in Addresses : ~Allowed(a) ~> Allowed(a)

\* A process that ends, on its own or killed, is followed by one that
\* serves, unless core.New waits for a report that never comes: the client
\* may return before it has called the callback, and only the callback
\* reports.
ServiceReturns ==
    process = "down" /\ profiles # {} ~> process = "serving" \/ Hung

\* The sessions of a removed profile end once no running server knows it,
\* although nobody revokes a token.
SessionsFade ==
    \A p \in Profiles :
        p \notin profiles \cup users
          ~> \/ p \in profiles \cup users
             \/ \A b \in Browsers : Verifies(b) => cookies[b].user # p
=============================================================================
