-------------------------------- MODULE Logins --------------------------------
(***************************************************************************)
(* Logging in: the limiter on failed attempts per address, the two halves  *)
(* of handleLogin on either side of the password check, and the signed     *)
(* tokens that requireAuth accepts.  The code compares times with the      *)
(* clock; here every failure and every token has an age, and Tick is time  *)
(* passing.  Ages are counted in units in which the window of the limiter  *)
(* and the life of a token are whole numbers, up to the first age at which *)
(* they do not count any more.                                             *)
(***************************************************************************)
EXTENDS Integers, Sequences, FiniteSets

CONSTANTS
    Profiles,       \* usernames
    Addresses,      \* client addresses, as clientIP returns them
    Browsers,
    Handlers,       \* slots for logins being handled at the same time
    MaxAttempts,    \* maxLoginAttempts
    Window,         \* loginLockoutWindow
    TTL,            \* SessionTTL
    NoCookie,
    NoLogin

ASSUME LoginAssumption ==
    /\ MaxAttempts \in Nat \ {0} /\ Window \in Nat \ {0} /\ TTL \in Nat
    /\ IsFiniteSet(Handlers)

VARIABLES
    failures,   \* the ages of the failed attempts kept per address, oldest first
    logins,     \* the attempt each handler is checking the password of
    cookies,    \* the token each browser holds, with its age
    users       \* s.users, the profiles the server was started with

loginVars == <<failures, logins, cookies, users>>

Login == [browser : Browsers, address : Addresses, user : Profiles, correct : BOOLEAN]
Cookie == [user : Profiles, age : 0..TTL + 1]

LoginTypeOK ==
    /\ failures \in [Addresses -> Seq(0..Window)]
    /\ logins \in [Handlers -> Login \cup {NoLogin}]
    /\ cookies \in [Browsers -> Cookie \cup {NoCookie}]
    /\ users \subseteq Profiles

NoFailures == [a \in Addresses |-> <<>>]
NoLogins == [h \in Handlers |-> NoLogin]

LoginInit ==
    /\ failures = NoFailures
    /\ logins = NoLogins
    /\ cookies = [b \in Browsers |-> NoCookie]
    /\ users = {}

\* prune keeps what t.After(cutoff) keeps: "kept" after each turn of its loop.
Kept(ages) ==
    LET kept[k \in 0..Len(ages)] ==
            IF k = 0 THEN <<>>
            ELSE IF ages[k] < Window THEN Append(kept[k - 1], ages[k])
            ELSE kept[k - 1]
    IN  kept

Pruned(ages) == Kept(ages)[Len(ages)]

\* Faulty variant: one attempt too many.
AllowedOneMore(address) == Len(Pruned(failures[address])) <= MaxAttempts

Allowed(address) == Len(Pruned(failures[address])) < MaxAttempts

\* allow, then the body is decoded and the password check begins.
LoginBegin(h, login) ==
    /\ logins[h] = NoLogin
    /\ Allowed(login.address)
    /\ failures' = [failures EXCEPT ![login.address] = Pruned(@)]
    /\ logins' = [logins EXCEPT ![h] = login]
    /\ UNCHANGED <<cookies, users>>

\* Faulty variant: a refused attempt counts as the latest failure.
LoginRefusedCounting(address) ==
    /\ ~Allowed(address)
    /\ failures' = [failures EXCEPT ![address] = Append(Tail(Pruned(@)), 0)]
    /\ UNCHANGED <<logins, cookies, users>>

\* allow says no, or the body cannot be decoded: nothing is recorded.
LoginRefused(address) ==
    /\ failures' = [failures EXCEPT ![address] = Pruned(@)]
    /\ UNCHANGED <<logins, cookies, users>>

\* Faulty variant: whether the server knows the profile does not matter.
RightForAnyone(login) == login.correct

\* The profile exists for this server and the password is its own.
Right(login) == login.user \in users /\ login.correct

\* Faulty variant: the end of the lockout is recorded instead of the failure.
LoginFailedUntil(h) ==
    /\ logins[h] # NoLogin /\ ~Right(logins[h])
    /\ failures' = [failures EXCEPT ![logins[h].address] = Append(Pruned(@), 0 - Window)]
    /\ logins' = [logins EXCEPT ![h] = NoLogin]
    /\ UNCHANGED <<cookies, users>>

\* A wrong password or an unknown profile, which takes as long to check.
LoginFailed(h) ==
    /\ logins[h] # NoLogin /\ ~Right(logins[h])
    /\ failures' = [failures EXCEPT ![logins[h].address] = Append(Pruned(@), 0)]
    /\ logins' = [logins EXCEPT ![h] = NoLogin]
    /\ UNCHANGED <<cookies, users>>

\* The failures of the address are forgotten and a token is sent, which the
\* browser may not be there any more to receive.
LoginSucceeded(h) ==
    /\ logins[h] # NoLogin /\ Right(logins[h])
    /\ failures' = [failures EXCEPT ![logins[h].address] = <<>>]
    /\ \/ cookies' = [cookies EXCEPT ![logins[h].browser] =
                        [user |-> logins[h].user, age |-> 0]]
       \/ UNCHANGED cookies
    /\ logins' = [logins EXCEPT ![h] = NoLogin]
    /\ UNCHANGED users

\* handleLogout takes the cookie from the browser; the token would still do.
Logout(b) ==
    /\ cookies[b] # NoCookie
    /\ cookies' = [cookies EXCEPT ![b] = NoCookie]
    /\ UNCHANGED <<failures, logins, users>>

\* VerifySessionToken: a token is refused when the time is past its expiry.
Verifies(b) == cookies[b] # NoCookie /\ cookies[b].age <= TTL

\* Faulty variant: every accepted request renews the token.
AcceptRenewing(b) ==
    /\ Verifies(b)
    /\ cookies' = [cookies EXCEPT ![b] = [@ EXCEPT !.age = 0]]
    /\ UNCHANGED <<failures, logins, users>>

\* requireAuth: nothing is kept about a session that is used.
Accept(b) == Verifies(b) /\ UNCHANGED loginVars

\* Time passes.
Older(age, last) == IF age < last THEN age + 1 ELSE age

Tick ==
    /\ failures' = [a \in Addresses |->
                       [k \in DOMAIN failures[a] |-> Older(failures[a][k], Window)]]
    /\ cookies' = [b \in Browsers |->
                      IF cookies[b] = NoCookie THEN NoCookie
                      ELSE [cookies[b] EXCEPT !.age = Older(@, TTL + 1)]]
    /\ UNCHANGED <<logins, users>>

\* The server starts with the profiles of config.json and an empty limiter.
\* Tokens are not kept anywhere on its side.
LoginsStart(profiles) ==
    /\ failures' = NoFailures
    /\ logins' = NoLogins
    /\ users' = profiles
    /\ UNCHANGED cookies

\* The process is gone: its limiter, its handlers and its copy of the users.
LoginsGone == LoginsStart({})

-----------------------------------------------------------------------------

Checking(address) ==
    {h \in Handlers : logins[h] # NoLogin /\ logins[h].address = address}

\* allow and recordFailure lock apart, with the password check between them,
\* so attempts that arrive together are all let in; what the limiter still
\* guarantees is that recorded failures and attempts in progress exceed the
\* limit by no more than the other handlers that can be busy.
FailuresBounded ==
    \A a \in Addresses :
        Len(Pruned(failures[a])) + Cardinality(Checking(a))
            <= MaxAttempts - 1 + Cardinality(Handlers)
=============================================================================
