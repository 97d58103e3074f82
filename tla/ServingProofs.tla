---------------------------- MODULE ServingProofs ----------------------------
(***************************************************************************)
(* The safety properties of Serving for every value of its constants: any  *)
(* number of profiles, browsers, addresses and handlers, any limit, window *)
(* and token life, any number of faults and restarts.  NothingLeft is      *)
(* about the connection, SessionsEarned about the tokens, FailuresBounded  *)
(* about the limiter, whose pruning loop is reasoned about by induction on *)
(* its turns.                                                              *)
(***************************************************************************)
EXTENDS Serving, TLAPS, WellFoundedInduction, FiniteSetTheorems

-----------------------------------------------------------------------------
(* The connection *)

\* What the goroutine has left for New and Close, by how far it is.
ConnectionInv ==
    /\ engine = "none" => run = "none" /\ ready = "empty" /\ ~done
    /\ run = "none" => engine = "none"
    /\ run \in {"connecting", "callback"} => engine = "connecting" /\ ready = "empty"
    /\ done => run \in {"ended", "refused"}
    /\ done \in BOOLEAN
    /\ ready # "empty" => engine = "connecting"
    /\ ready = "ok" => run \in {"waiting", "returning", "ended"}
    /\ ready = "error" => run \in {"returning", "ended"}
    /\ engine = "failing" => run \in {"returning", "ended"}
    /\ engine \in {"open", "closing"} => run \in {"waiting", "returning", "ended"}
    /\ engine \in {"failed", "closed"} => run = "ended" /\ ~done

LEMMA ConnectionInvInit == ConnectionInit => ConnectionInv
  BY DEF ConnectionInit, ConnectionInv

LEMMA GoroutineInv ==
    ASSUME ConnectionInv,
           \/ RunConnected \/ RunRefused \/ StatusAuthorized \/ StatusFailed
           \/ ContextDone \/ RunReturns
    PROVE  ConnectionInv'
  <1> USE DEF ConnectionInv
  <1>1. CASE RunConnected
    BY <1>1 DEF RunConnected
  <1>2. CASE RunRefused
    BY <1>2 DEF RunRefused
  <1>3. CASE StatusAuthorized
    BY <1>3 DEF StatusAuthorized
  <1>4. CASE StatusFailed
    BY <1>4 DEF StatusFailed
  <1>5. CASE ContextDone
    BY <1>5 DEF ContextDone
  <1>6. CASE RunReturns
    BY <1>6 DEF RunReturns
  <1> QED
    BY <1>1, <1>2, <1>3, <1>4, <1>5, <1>6

LEMMA NewCloseInv ==
    ASSUME ConnectionInv,
           \/ New \/ NewReturns \/ NewCancels \/ NewFails \/ Close \/ CloseReturns \/ Gone
    PROVE  ConnectionInv'
  <1> USE DEF ConnectionInv
  <1>1. CASE New
    BY <1>1 DEF New
  <1>2. CASE NewReturns
    BY <1>2 DEF NewReturns
  <1>3. CASE NewCancels
    BY <1>3 DEF NewCancels
  <1>4. CASE NewFails
    BY <1>4 DEF NewFails
  <1>5. CASE Close
    BY <1>5 DEF Close
  <1>6. CASE CloseReturns
    BY <1>6 DEF CloseReturns
  <1>7. CASE Gone
    BY <1>7 DEF Gone
  <1> QED
    BY <1>1, <1>2, <1>3, <1>4, <1>5, <1>6, <1>7

\* Every step of the installation takes one of these steps or none.
LEMMA ConnectionInvStep ==
    ASSUME ConnectionInv, [ServingNext]_servingVars
    PROVE  ConnectionInv'
  <1>1. CASE UNCHANGED connectionVars
    BY <1>1 DEF connectionVars, ConnectionInv
  <1>2. CASE Restart
    BY <1>1, <1>2, NewCloseInv DEF Restart, Start, StartFails, Listen, Exit
  <1>3. CASE Connect
    BY <1>3, GoroutineInv, NewCloseInv DEF Connect
  <1>4. CASE ConnectFaulty
    BY <1>4, GoroutineInv DEF ConnectFaulty
  <1>5. CASE ListenFails \/ Kill
    BY <1>5, NewCloseInv DEF ListenFails, Kill
  <1>6. CASE Serve \/ Time \/ EditProfiles \/ UNCHANGED servingVars
    BY <1>1, <1>6 DEF Serve, Time, EditProfiles, servingVars
  <1> QED
    BY <1>2, <1>3, <1>4, <1>5, <1>6 DEF ServingNext

\* NothingLeft: whenever New or Close has reported the end, the goroutine has
\* ended before and both channels are empty, although the client may still be
\* running when New reads that it has failed.
THEOREM NothingIsLeft == ServingSpec => []NothingLeft
  <1>1. ServingInit => ConnectionInv
    BY ConnectionInvInit DEF ServingInit
  <1>2. ConnectionInv /\ [ServingNext]_servingVars => ConnectionInv'
    BY ConnectionInvStep
  <1>3. ConnectionInv => NothingLeft
    BY DEF ConnectionInv, NothingLeft
  <1> QED
    BY <1>1, <1>2, <1>3, PTL DEF ServingSpec

-----------------------------------------------------------------------------
(* Sessions *)

\* A token is never younger than the latest right password of its profile;
\* this holds of tokens that have expired as well.
SessionInv ==
    /\ given \in [Profiles -> 0..TTL + 1]
    /\ logins \in [Handlers -> Login \cup {NoLogin}]
    /\ cookies \in [Browsers -> Cookie \cup {NoCookie}]
    /\ \A b \in Browsers : cookies[b] # NoCookie => given[cookies[b].user] <= cookies[b].age

LEMMA OlderMonotone ==
    ASSUME NEW last \in Nat, NEW a \in 0..last, NEW b \in 0..last
    PROVE  /\ Older(a, last) \in 0..last
           /\ a <= b => Older(a, last) <= Older(b, last)
  BY DEF Older

LEMMA SessionInvInit == ServingInit => SessionInv
  BY LoginAssumption
     DEF ServingInit, LoginInit, NoLogins, SessionInv

LEMMA ServeSessionInv ==
    ASSUME SessionInv, Serve
    PROVE  SessionInv'
  <1> USE DEF SessionInv
  <1>1. ASSUME NEW h \in Handlers, NEW login \in Login, LoginBegin(h, login), UNCHANGED given
        PROVE  SessionInv'
    BY <1>1 DEF LoginBegin
  <1>2. ASSUME NEW h \in Handlers, LoginFailed(h), UNCHANGED given
        PROVE  SessionInv'
    BY <1>2 DEF LoginFailed
  <1>3. ASSUME NEW h \in Handlers, LoginSucceeded(h), Remember(logins[h])
        PROVE  SessionInv'
    <2> DEFINE user == logins[h].user
               new == [user |-> user, age |-> 0]
    <2>1. logins[h] \in Login /\ user \in Profiles /\ logins[h].browser \in Browsers
      BY <1>3 DEF LoginSucceeded, Login
    <2>2. given' = [given EXCEPT ![user] = 0] /\ given' \in [Profiles -> 0..TTL + 1]
      BY <1>3, <2>1, LoginAssumption DEF Remember
    <2>3. logins' \in [Handlers -> Login \cup {NoLogin}]
      BY <1>3 DEF LoginSucceeded
    <2>4. new \in Cookie /\ new.user = user /\ new.age = 0
      BY <2>1, LoginAssumption DEF Cookie
    <2>5. \A b \in Browsers : cookies[b] # NoCookie => cookies[b] \in Cookie
      OBVIOUS
    <2>6. \A p \in Profiles : given'[p] <= given[p]
      BY <2>1, <2>2, LoginAssumption
    <2> HIDE DEF new
    <2>7. \/ cookies' = [cookies EXCEPT ![logins[h].browser] = new]
          \/ cookies' = cookies
      BY <1>3 DEF LoginSucceeded, new
    <2>8. cookies' \in [Browsers -> Cookie \cup {NoCookie}]
      BY <2>4, <2>7
    <2>9. ASSUME NEW b \in Browsers, cookies'[b] # NoCookie
          PROVE  given'[cookies'[b].user] <= cookies'[b].age
      <3>1. CASE cookies'[b] = new
        BY <2>1, <2>2, <2>4, <3>1
      <3>2. CASE cookies'[b] = cookies[b]
        <4>1. /\ cookies[b].user \in Profiles
              /\ cookies[b].age \in 0..TTL + 1
              /\ given[cookies[b].user] <= cookies[b].age
          BY <2>5, <2>9, <3>2 DEF Cookie
        <4>2. /\ given[cookies[b].user] \in 0..TTL + 1
              /\ given'[cookies[b].user] \in 0..TTL + 1
              /\ given'[cookies[b].user] <= given[cookies[b].user]
          BY <2>2, <2>6, <4>1
        <4> QED
          BY <3>2, <4>1, <4>2, LoginAssumption
      <3> QED
        BY <2>7, <3>1, <3>2
    <2> QED
      BY <2>2, <2>3, <2>8, <2>9
  <1>4. ASSUME NEW a \in Addresses, LoginRefused(a), UNCHANGED given
        PROVE  SessionInv'
    BY <1>4 DEF LoginRefused
  <1>5. ASSUME NEW b \in Browsers, Logout(b), UNCHANGED given
        PROVE  SessionInv'
    BY <1>5 DEF Logout
  <1>6. ASSUME NEW b \in Browsers, Accept(b), UNCHANGED given
        PROVE  SessionInv'
    BY <1>6 DEF Accept, loginVars
  <1> QED
    BY <1>1, <1>2, <1>3, <1>4, <1>5, <1>6 DEF Serve

LEMMA TimeSessionInv ==
    ASSUME SessionInv, Time
    PROVE  SessionInv'
  <1> USE DEF SessionInv
  <1>1. TTL + 1 \in Nat
    BY LoginAssumption
  <1>2. given' = [p \in Profiles |-> Older(given[p], TTL + 1)]
    BY DEF Time
  <1>3. given' \in [Profiles -> 0..TTL + 1]
    BY <1>1, <1>2, OlderMonotone
  <1>4. ASSUME NEW b \in Browsers, cookies[b] # NoCookie
        PROVE  LET aged == [cookies[b] EXCEPT !.age = Older(@, TTL + 1)] IN
               /\ cookies'[b] = aged /\ aged \in Cookie
               /\ given'[aged.user] <= aged.age
    <2> DEFINE aged == [cookies[b] EXCEPT !.age = Older(@, TTL + 1)]
    <2>1. cookies[b] \in Cookie /\ given[cookies[b].user] <= cookies[b].age
      BY <1>4
    <2>2. cookies[b].user \in Profiles /\ cookies[b].age \in 0..TTL + 1
      BY <2>1 DEF Cookie
    <2>3. Older(cookies[b].age, TTL + 1) \in 0..TTL + 1
      BY <1>1, <2>2, OlderMonotone
    <2>4. aged \in Cookie /\ aged.user = cookies[b].user
                          /\ aged.age = Older(cookies[b].age, TTL + 1)
      BY <2>1, <2>3 DEF Cookie
    <2>5. Older(given[cookies[b].user], TTL + 1) <= Older(cookies[b].age, TTL + 1)
      BY <1>1, <2>1, <2>2, OlderMonotone
    <2>6. cookies'[b] = aged
      BY <1>4 DEF Time, Tick
    <2>7. given'[aged.user] <= aged.age
      BY <1>2, <2>2, <2>4, <2>5
    <2> QED
      BY <2>4, <2>6, <2>7
  <1>5. \A b \in Browsers : cookies[b] = NoCookie => cookies'[b] = NoCookie
    BY DEF Time, Tick
  <1>6. cookies' \in [Browsers -> Cookie \cup {NoCookie}]
    <2>1. cookies' = [b \in Browsers |-> cookies'[b]]
      BY DEF Time, Tick
    <2>2. \A b \in Browsers : cookies'[b] \in Cookie \cup {NoCookie}
      BY <1>4, <1>5
    <2> QED
      BY <2>1, <2>2
  <1>7. UNCHANGED logins
    BY DEF Time, Tick
  <1> QED
    BY <1>3, <1>4, <1>5, <1>6, <1>7

LEMMA SessionInvStep ==
    ASSUME SessionInv, [ServingNext]_servingVars
    PROVE  SessionInv'
  <1>1. CASE UNCHANGED <<cookies, given>> /\ logins' \in {logins, NoLogins}
    BY <1>1 DEF SessionInv, NoLogins
  <1>2. CASE Restart \/ ListenFails \/ Kill
    BY <1>1, <1>2 DEF Restart, Start, StartFails, Listen, Exit, ListenFails, Kill,
                      LoginsStart, LoginsGone, loginVars
  <1>3. CASE Connect \/ ConnectFaulty \/ EditProfiles \/ UNCHANGED servingVars
    BY <1>1, <1>3 DEF Connect, ConnectFaulty, EditProfiles, servingVars, loginVars
  <1>4. CASE Serve
    BY <1>4, ServeSessionInv
  <1>5. CASE Time
    BY <1>5, TimeSessionInv
  <1> QED
    BY <1>2, <1>3, <1>4, <1>5 DEF ServingNext

\* SessionsEarned: a token that verifies was issued for a right password
\* given no longer ago than the token is old, through any restarts.
THEOREM SessionsAreEarned == ServingSpec => []SessionsEarned
  <1>1. SessionInv => SessionsEarned
    BY DEF SessionInv, SessionsEarned, Verifies
  <1>2. SessionInv /\ [ServingNext]_servingVars => SessionInv'
    BY SessionInvStep
  <1> QED
    BY <1>1, <1>2, SessionInvInit, PTL DEF ServingSpec

-----------------------------------------------------------------------------
(* The loop of prune.  What it keeps is defined by recursion on how much of *)
(* the list it has seen, so facts about it are proved along the list, from  *)
(* the least place where they would fail.                                   *)

LEMMA Along ==
    ASSUME NEW S, 0 \in S, \A n \in Nat : n \in S => n + 1 \in S
    PROVE  \A n \in Nat : n \in S
  <1> DEFINE R == {p \in Nat \X Nat : p[1] < p[2]}
             T == {n \in Nat : n \notin S}
  <1>1. OpToRel(<, Nat) = R
    BY DEF OpToRel
  <1>2. IsWellFoundedOn(R, Nat)
    BY <1>1, NatLessThanWellFounded
  <1>3. SUFFICES ASSUME T # {} PROVE FALSE
    OBVIOUS
  <1>4. PICK x \in T : \A y \in T : <<y, x>> \notin R
    <2>1. T \subseteq Nat
      OBVIOUS
    <2> HIDE DEF R, T
    <2> QED
      BY <1>2, <1>3, <2>1, WFMin
  <1>5. x \in Nat /\ x # 0 /\ x \notin S
    OBVIOUS
  <1>6. x - 1 \in Nat /\ (x - 1) + 1 = x /\ x - 1 < x
    BY <1>5
  <1>7. x - 1 \notin S
    BY <1>5, <1>6
  <1>8. x - 1 \in T /\ <<x - 1, x>> \in R
    BY <1>5, <1>6, <1>7
  <1> QED
    BY <1>4, <1>8

LEMMA KeptDef ==
    ASSUME NEW ages, Len(ages) \in Nat
    PROVE  Kept(ages) =
             [k \in 0..Len(ages) |->
                 IF k = 0 THEN <<>>
                 ELSE IF ages[k] < Window THEN Append(Kept(ages)[k - 1], ages[k])
                 ELSE Kept(ages)[k - 1]]
  <1> DEFINE Turn(old, k) == IF ages[k] < Window THEN Append(old, ages[k]) ELSE old
             Loop(f, n) == f = [k \in 0..n |-> IF k = 0 THEN <<>> ELSE Turn(f[k - 1], k)]
             S == {n \in Nat : \E f : Loop(f, n)}
  <1>1. 0 \in S
    <2>1. Loop([k \in 0..0 |-> <<>>], 0)
      OBVIOUS
    <2> HIDE DEF Loop
    <2> QED
      BY <2>1
  <1>2. ASSUME NEW n \in Nat, n \in S PROVE n + 1 \in S
    <2>1. PICK f : Loop(f, n)
      BY <1>2
    <2> DEFINE g == [k \in 0..n + 1 |-> IF k <= n THEN f[k] ELSE Turn(f[n], n + 1)]
    <2> HIDE DEF Turn
    <2>2. \A k \in 0..n + 1 : g[k] = IF k = 0 THEN <<>> ELSE Turn(g[k - 1], k)
      <3> SUFFICES ASSUME NEW k \in 0..n + 1
                   PROVE  g[k] = IF k = 0 THEN <<>> ELSE Turn(g[k - 1], k)
        OBVIOUS
      <3>1. CASE k = 0
        BY <2>1, <3>1
      <3>2. CASE k \in 1..n
        <4>1. k - 1 \in 0..n /\ k - 1 \in 0..n + 1 /\ k - 1 <= n
          BY <3>2
        <4>2. g[k] = f[k] /\ g[k - 1] = f[k - 1]
          BY <3>2, <4>1
        <4>3. f[k] = Turn(f[k - 1], k)
          BY <2>1, <3>2
        <4> QED
          BY <3>2, <4>2, <4>3
      <3>3. CASE k = n + 1
        <4>1. g[k] = Turn(f[n], n + 1) /\ g[n] = f[n] /\ k - 1 = n /\ k # 0
          BY <3>3
        <4> HIDE DEF g
        <4> QED
          BY <3>3, <4>1
      <3> QED
        BY <3>1, <3>2, <3>3
    <2>3. Loop(g, n + 1)
      BY <2>2
    <2> HIDE DEF Loop, g
    <2> QED
      BY <2>3
  <1> HIDE DEF S
  <1>3. \A n \in Nat : n \in S
    BY <1>1, <1>2, Along
  <1>4. \E f : Loop(f, Len(ages))
    BY <1>3 DEF S
  <1>5. Kept(ages) = CHOOSE f : Loop(f, Len(ages))
    BY DEF Kept
  <1>6. Loop(Kept(ages), Len(ages))
    <2> HIDE DEF Loop
    <2> QED
      BY <1>4, <1>5
  <1> QED
    BY <1>6

\* What the loop has kept after turn k.
LEMMA KeptTurn ==
    ASSUME NEW ages, Len(ages) \in Nat, NEW k \in 0..Len(ages)
    PROVE  Kept(ages)[k] = IF k = 0 THEN <<>>
                           ELSE IF ages[k] < Window THEN Append(Kept(ages)[k - 1], ages[k])
                           ELSE Kept(ages)[k - 1]
  <1> DEFINE kept == Kept(ages)
             Turn(i) == IF i = 0 THEN <<>>
                        ELSE IF ages[i] < Window THEN Append(kept[i - 1], ages[i])
                        ELSE kept[i - 1]
             whole == [i \in 0..Len(ages) |-> Turn(i)]
  <1>1. kept = whole
    BY KeptDef
  <1> HIDE DEF kept, Turn
  <1>2. whole[k] = Turn(k)
    OBVIOUS
  <1> HIDE DEF whole
  <1>3. kept[k] = Turn(k)
    BY <1>1, <1>2
  <1> QED
    BY <1>3 DEF kept, Turn

\* What is kept of the first k ages.
LEMMA KeptType ==
    ASSUME NEW A, NEW ages \in Seq(A)
    PROVE  \A k \in 0..Len(ages) : Kept(ages)[k] \in Seq(A) /\ Len(Kept(ages)[k]) <= k
  <1> DEFINE kept == Kept(ages)
             S == {k \in Nat : k \in 0..Len(ages) =>
                                 kept[k] \in Seq(A) /\ Len(kept[k]) <= k}
  <1>1. \A k \in 0..Len(ages) :
           kept[k] = IF k = 0 THEN <<>>
                     ELSE IF ages[k] < Window THEN Append(kept[k - 1], ages[k])
                     ELSE kept[k - 1]
    <2>1. Len(ages) \in Nat
      OBVIOUS
    <2> QED
      BY <2>1, KeptTurn
  <1> HIDE DEF kept
  <1>2. 0 \in S
    <2>1. kept[0] = <<>>
      <3>1. Len(ages) \in Nat /\ 0 \in 0..Len(ages)
        OBVIOUS
      <3> QED
        BY <1>1, <3>1
    <2>2. ASSUME NEW q, q = <<>> PROVE q \in Seq(A) /\ Len(q) <= 0
      BY <2>2
    <2> QED
      BY <2>1, <2>2
  <1>3. ASSUME NEW k \in Nat, k \in S PROVE k + 1 \in S
    <2> SUFFICES ASSUME k + 1 \in 0..Len(ages)
                 PROVE  kept[k + 1] \in Seq(A) /\ Len(kept[k + 1]) <= k + 1
      OBVIOUS
    <2>1. kept[k] \in Seq(A) /\ Len(kept[k]) <= k /\ Len(kept[k]) \in Nat
      BY <1>3
    <2>2. ages[k + 1] \in A
      OBVIOUS
    <2>3. kept[k + 1] \in {Append(kept[k], ages[k + 1]), kept[k]}
      <3>1. k + 1 # 0 /\ (k + 1) - 1 = k
        OBVIOUS
      <3> QED
        BY <1>1, <3>1
    <2> HIDE DEF S
    <2> DEFINE old == kept[k]
               x == ages[k + 1]
    <2>4. /\ Append(old, x) \in Seq(A) /\ Len(Append(old, x)) = Len(old) + 1
      <3>1. old \in Seq(A) /\ x \in A
        BY <2>1, <2>2
      <3> HIDE DEF old, x
      <3> QED
        BY <3>1
    <2>5. kept[k + 1] \in {Append(old, x), old} /\ Len(old) \in Nat /\ Len(old) <= k
          /\ old \in Seq(A)
      BY <2>1, <2>3
    <2> HIDE DEF old, x
    <2>6. CASE kept[k + 1] = old
      BY <2>5, <2>6
    <2>7. CASE kept[k + 1] = Append(old, x)
      <3>1. kept[k + 1] \in Seq(A) /\ Len(kept[k + 1]) = Len(old) + 1
        BY <2>4, <2>7
      <3> QED
        BY <2>5, <3>1
    <2> QED
      BY <2>5, <2>6, <2>7
  <1> HIDE DEF S
  <1>4. \A k \in Nat : k \in S
    BY <1>2, <1>3, Along
  <1> QED
    BY <1>4 DEF S, kept

\* A list of which as many entries or more are too old keeps no more.
LEMMA KeptMonotone ==
    ASSUME NEW A, NEW s \in Seq(A), NEW t \in Seq(A), Len(t) = Len(s),
           \A k \in 1..Len(s) : t[k] < Window => s[k] < Window
    PROVE  \A k \in 0..Len(s) : Len(Kept(t)[k]) <= Len(Kept(s)[k])
  <1> DEFINE a == Kept(s)
             b == Kept(t)
             S == {k \in Nat : k \in 0..Len(s) => Len(b[k]) <= Len(a[k])}
  <1>0. Len(s) \in Nat /\ Len(t) \in Nat
    OBVIOUS
  <1>1. \A k \in 0..Len(s) :
           a[k] = IF k = 0 THEN <<>>
                  ELSE IF s[k] < Window THEN Append(a[k - 1], s[k]) ELSE a[k - 1]
    BY <1>0, KeptTurn
  <1>2. \A k \in 0..Len(t) :
           b[k] = IF k = 0 THEN <<>>
                  ELSE IF t[k] < Window THEN Append(b[k - 1], t[k]) ELSE b[k - 1]
    BY <1>0, KeptTurn
  <1>3. \A k \in 0..Len(s) : a[k] \in Seq(A) /\ b[k] \in Seq(A)
    BY KeptType
  <1> HIDE DEF a, b
  <1>4. 0 \in S
    <2>1. a[0] = <<>> /\ b[0] = <<>>
      BY <1>0, <1>1, <1>2
    <2> QED
      BY <2>1
  <1>5. ASSUME NEW k \in Nat, k \in S PROVE k + 1 \in S
    <2> SUFFICES ASSUME k + 1 \in 0..Len(s)
                 PROVE  Len(b[k + 1]) <= Len(a[k + 1])
      OBVIOUS
    <2>1. k + 1 # 0 /\ (k + 1) - 1 = k /\ k \in 0..Len(s) /\ k + 1 \in 1..Len(s)
      OBVIOUS
    <2>2. Len(b[k]) <= Len(a[k])
      BY <1>5, <2>1
    <2> HIDE DEF S
    <2>3. /\ a[k] \in Seq(A) /\ b[k] \in Seq(A)
          /\ s[k + 1] \in A /\ t[k + 1] \in A
      BY <1>3, <2>1
    <2>4. /\ a[k + 1] = IF s[k + 1] < Window THEN Append(a[k], s[k + 1]) ELSE a[k]
          /\ b[k + 1] = IF t[k + 1] < Window THEN Append(b[k], t[k + 1]) ELSE b[k]
      BY <1>1, <1>2, <2>1
    <2>5. t[k + 1] < Window => s[k + 1] < Window
      BY <2>1
    <2>6. ASSUME NEW q \in Seq(A), NEW x \in A
          PROVE  Len(Append(q, x)) = Len(q) + 1 /\ Len(q) \in Nat
      OBVIOUS
    <2>7. /\ Len(Append(a[k], s[k + 1])) = Len(a[k]) + 1 /\ Len(a[k]) \in Nat
          /\ Len(Append(b[k], t[k + 1])) = Len(b[k]) + 1 /\ Len(b[k]) \in Nat
      BY <2>3, <2>6
    <2>8. CASE t[k + 1] < Window
      BY <2>2, <2>4, <2>5, <2>7, <2>8
    <2>9. CASE ~(t[k + 1] < Window)
      BY <2>2, <2>4, <2>7, <2>9
    <2> QED
      BY <2>8, <2>9
  <1> HIDE DEF S
  <1>6. \A k \in Nat : k \in S
    BY <1>4, <1>5, Along
  <1> QED
    BY <1>0, <1>6 DEF S, a, b

\* prune, as a whole: it yields a list no longer than its own, and no longer
\* when time has passed.
LEMMA PrunedFacts ==
    ASSUME NEW s \in Seq(0..Window)
    PROVE  /\ Pruned(s) \in Seq(0..Window)
           /\ Len(Pruned(s)) \in Nat
           /\ Len(Pruned(s)) <= Len(s)
           /\ \A t \in Seq(0..Window) :
                 Len(t) = Len(s) /\ (\A k \in 1..Len(s) : s[k] <= t[k])
                     => Len(Pruned(t)) <= Len(Pruned(s))
  <1> DEFINE A == 0..Window
  <1>0. Window \in Nat /\ \A x, y \in A : x <= y /\ y < Window => x < Window
    BY LoginAssumption
  <1> HIDE DEF A
  <1>1. s \in Seq(A) /\ Len(s) \in Nat /\ Len(s) \in 0..Len(s)
    BY DEF A
  <1>2. Pruned(s) \in Seq(A) /\ Len(Pruned(s)) <= Len(s)
    BY <1>1, KeptType DEF Pruned
  <1>3. ASSUME NEW t \in Seq(A), Len(t) = Len(s), \A k \in 1..Len(s) : s[k] <= t[k]
        PROVE  Len(Pruned(t)) <= Len(Pruned(s))
    <2>1. \A k \in 1..Len(s) : s[k] \in A /\ t[k] \in A
      BY <1>1, <1>3
    <2>2. \A k \in 1..Len(s) : t[k] < Window => s[k] < Window
      BY <1>0, <1>3, <2>1
    <2> QED
      BY <1>1, <1>3, <2>2, KeptMonotone DEF Pruned
  <1>4. Len(Pruned(s)) \in Nat
    BY <1>2
  <1> QED
    BY <1>2, <1>3, <1>4 DEF A

-----------------------------------------------------------------------------
(* The limiter *)

LoginsTyped ==
    /\ failures \in [Addresses -> Seq(0..Window)]
    /\ logins \in [Handlers -> Login \cup {NoLogin}]

BoundInv == LoginsTyped /\ FailuresBounded

LEMMA CheckingFinite ==
    ASSUME NEW address
    PROVE  /\ IsFiniteSet(Checking(address))
           /\ Cardinality(Checking(address)) \in Nat
           /\ Cardinality(Checking(address)) <= Cardinality(Handlers)
           /\ Cardinality(Handlers) \in Nat
  <1>1. Checking(address) \subseteq Handlers
    BY DEF Checking
  <1>2. IsFiniteSet(Handlers)
    BY LoginAssumption
  <1>3. IsFiniteSet(Checking(address))
    BY <1>1, <1>2, FS_Subset
  <1> QED
    BY <1>1, <1>2, <1>3, FS_Subset, FS_CardinalityType

\* What a step may do to an address: keep no more and check no more, record
\* the failure of an attempt it was checking, or let an attempt in.
LEMMA BoundKept ==
    ASSUME BoundInv, LoginsTyped',
           \A a \in Addresses :
              \/ /\ Len(Pruned(failures'[a])) <= Len(Pruned(failures[a]))
                 /\ Checking(a)' \subseteq Checking(a)
              \/ /\ Len(Pruned(failures'[a])) <= Len(Pruned(failures[a])) + 1
                 /\ \E h \in Checking(a) : Checking(a)' \subseteq Checking(a) \ {h}
              \/ Len(Pruned(failures'[a])) <= MaxAttempts - 1
    PROVE  BoundInv'
  <1> SUFFICES ASSUME NEW a \in Addresses
               PROVE  Len(Pruned(failures'[a])) + Cardinality(Checking(a)')
                        <= MaxAttempts - 1 + Cardinality(Handlers)
    BY DEF BoundInv, FailuresBounded
  <1> DEFINE now == Len(Pruned(failures[a]))
             next == Len(Pruned(failures'[a]))
             before == Cardinality(Checking(a))
             after == Cardinality(Checking(a)')
             all == Cardinality(Handlers)
  <1>1. MaxAttempts \in Nat /\ now \in Nat /\ next \in Nat
    <2>1. failures[a] \in Seq(0..Window) /\ failures'[a] \in Seq(0..Window)
      BY DEF BoundInv, LoginsTyped
    <2> QED
      BY <2>1, PrunedFacts, LoginAssumption
  <1>2. before \in Nat /\ all \in Nat /\ IsFiniteSet(Checking(a))
    BY CheckingFinite
  <1>3. Checking(a)' \subseteq Handlers /\ IsFiniteSet(Handlers)
    BY LoginAssumption DEF Checking
  <1>4. after \in Nat /\ after <= all
    BY <1>3, FS_Subset, FS_CardinalityType
  <1>5. now + before <= MaxAttempts - 1 + all
    BY DEF BoundInv, FailuresBounded
  <1>6. CASE next <= now /\ Checking(a)' \subseteq Checking(a)
    <2>1. after <= before
      BY <1>2, <1>6, FS_Subset
    <2> HIDE DEF now, next, before, after, all
    <2> QED
      BY <1>1, <1>2, <1>4, <1>5, <1>6, <2>1 DEF now, next, before, after, all
  <1>7. CASE /\ next <= now + 1
             /\ \E h \in Checking(a) : Checking(a)' \subseteq Checking(a) \ {h}
    <2>1. PICK h \in Checking(a) : Checking(a)' \subseteq Checking(a) \ {h}
      BY <1>7
    <2>2. /\ IsFiniteSet(Checking(a) \ {h})
          /\ Cardinality(Checking(a) \ {h}) = before - 1
      BY <1>2, FS_RemoveElement
    <2>3. after <= before - 1
      BY <2>1, <2>2, FS_Subset
    <2> HIDE DEF now, next, before, after, all
    <2> QED
      BY <1>1, <1>2, <1>4, <1>5, <1>7, <2>3 DEF now, next, before, after, all
  <1>8. CASE next <= MaxAttempts - 1
    <2> HIDE DEF now, next, before, after, all
    <2> QED
      BY <1>1, <1>2, <1>4, <1>8 DEF now, next, before, after, all
  <1> QED
    BY <1>6, <1>7, <1>8

\* LoginBegin lets an attempt in only below the limit.
LEMMA BeginBound ==
    ASSUME BoundInv, NEW h \in Handlers, NEW login \in Login, LoginBegin(h, login)
    PROVE  BoundInv'
  <1> DEFINE address == login.address
             kept == Pruned(failures[address])
  <1>1. address \in Addresses
    BY DEF Login
  <1>2. failures \in [Addresses -> Seq(0..Window)]
        /\ failures' = [failures EXCEPT ![address] = kept]
    BY DEF LoginBegin, BoundInv, LoginsTyped
  <1>3. /\ kept \in Seq(0..Window) /\ Len(kept) \in Nat
        /\ Len(Pruned(kept)) <= Len(kept) /\ Len(Pruned(kept)) \in Nat
    BY <1>1, <1>2, PrunedFacts
  <1>4. Len(kept) < MaxAttempts
    BY DEF LoginBegin, Allowed
  <1> HIDE DEF kept
  <1>5. LoginsTyped'
    <2>1. logins' \in [Handlers -> Login \cup {NoLogin}]
      BY DEF LoginBegin, BoundInv, LoginsTyped
    <2> QED
      BY <1>2, <1>3, <2>1 DEF LoginsTyped
  <1>6. Len(Pruned(failures'[address])) <= MaxAttempts - 1
    <2>1. failures'[address] = kept
      BY <1>1, <1>2
    <2>2. MaxAttempts \in Nat
      BY LoginAssumption
    <2> QED
      BY <1>3, <1>4, <2>1, <2>2
  <1>7. ASSUME NEW a \in Addresses, a # address
        PROVE  /\ Len(Pruned(failures'[a])) <= Len(Pruned(failures[a]))
               /\ Checking(a)' \subseteq Checking(a)
    <2>1. failures'[a] = failures[a] /\ failures[a] \in Seq(0..Window)
      BY <1>2, <1>7
    <2>2. Len(Pruned(failures[a])) \in Nat
      BY <2>1, PrunedFacts
    <2>3. Checking(a)' \subseteq Checking(a)
      BY <1>7 DEF LoginBegin, BoundInv, LoginsTyped, Checking
    <2> QED
      BY <2>1, <2>2, <2>3
  <1> QED
    BY <1>5, <1>6, <1>7, BoundKept

\* Recording a failure, forgetting the failures: the attempt is over.
LEMMA EndBound ==
    ASSUME BoundInv, NEW h \in Handlers, LoginFailed(h) \/ LoginSucceeded(h)
    PROVE  BoundInv'
  <1>0. PICK address : address = logins[h].address
    OBVIOUS
  <1> DEFINE kept == Pruned(failures[address])
  <1>1. logins[h] # NoLogin /\ address \in Addresses /\ h \in Checking(address)
    BY <1>0 DEF LoginFailed, LoginSucceeded, BoundInv, LoginsTyped, Login, Checking
  <1>2. failures \in [Addresses -> Seq(0..Window)]
    BY DEF BoundInv, LoginsTyped
  <1>3. /\ kept \in Seq(0..Window) /\ Len(kept) \in Nat
    BY <1>1, <1>2, PrunedFacts
  <1>4. PICK new \in {Append(kept, 0), <<>>} : failures' = [failures EXCEPT ![address] = new]
    BY <1>0 DEF LoginFailed, LoginSucceeded
  <1>5. logins' = [logins EXCEPT ![h] = NoLogin]
    BY DEF LoginFailed, LoginSucceeded
  <1> HIDE DEF kept
  <1>6. new \in Seq(0..Window) /\ Len(new) <= Len(kept) + 1 /\ Len(new) \in Nat
    <2>1. 0 \in 0..Window
      BY LoginAssumption
    <2>2. ASSUME NEW A, NEW q \in Seq(A), NEW x \in A, NEW r, r = Append(q, x)
          PROVE  r \in Seq(A) /\ Len(r) <= Len(q) + 1 /\ Len(r) \in Nat
      BY <2>2
    <2>3. ASSUME NEW A, NEW r, r = <<>> PROVE r \in Seq(A) /\ Len(r) = 0
      BY <2>3
    <2>4. CASE new = Append(kept, 0)
      BY <1>3, <2>1, <2>2, <2>4
    <2>5. CASE new = <<>>
      BY <1>3, <2>3, <2>5
    <2> QED
      BY <1>4, <2>4, <2>5
  <1>7. LoginsTyped'
    BY <1>1, <1>2, <1>4, <1>5, <1>6 DEF BoundInv, LoginsTyped
  <1>8. Len(Pruned(failures'[address])) <= Len(Pruned(failures[address])) + 1
    <2>1. failures'[address] = new
      BY <1>1, <1>2, <1>4
    <2>2. Len(Pruned(new)) <= Len(new) /\ Len(Pruned(new)) \in Nat
      BY <1>6, PrunedFacts
    <2> QED
      BY <1>3, <1>6, <2>1, <2>2 DEF kept
  <1>9. Checking(address)' \subseteq Checking(address) \ {h}
    BY <1>0, <1>1, <1>5 DEF BoundInv, LoginsTyped, Checking
  <1>10. ASSUME NEW a \in Addresses, a # address
         PROVE  /\ Len(Pruned(failures'[a])) <= Len(Pruned(failures[a]))
                /\ Checking(a)' \subseteq Checking(a)
    <2>1. failures'[a] = failures[a] /\ failures[a] \in Seq(0..Window)
      BY <1>2, <1>4, <1>10
    <2>2. Len(Pruned(failures[a])) \in Nat
      BY <2>1, PrunedFacts
    <2>3. Checking(a)' \subseteq Checking(a)
      BY <1>0, <1>1, <1>5 DEF BoundInv, LoginsTyped, Checking
    <2> QED
      BY <2>1, <2>2, <2>3
  <1>11. \A a \in Addresses :
            \/ /\ Len(Pruned(failures'[a])) <= Len(Pruned(failures[a]))
               /\ Checking(a)' \subseteq Checking(a)
            \/ /\ Len(Pruned(failures'[a])) <= Len(Pruned(failures[a])) + 1
               /\ \E g \in Checking(a) : Checking(a)' \subseteq Checking(a) \ {g}
    BY <1>1, <1>8, <1>9, <1>10
  <1> QED
    BY <1>7, <1>11, BoundKept

LEMMA RefusedBound ==
    ASSUME BoundInv, NEW address \in Addresses, LoginRefused(address)
    PROVE  BoundInv'
  <1> DEFINE kept == Pruned(failures[address])
  <1>1. failures \in [Addresses -> Seq(0..Window)]
        /\ failures' = [failures EXCEPT ![address] = kept]
        /\ logins' = logins
    BY DEF LoginRefused, BoundInv, LoginsTyped
  <1>2. /\ kept \in Seq(0..Window) /\ Len(kept) \in Nat
        /\ Len(Pruned(kept)) <= Len(kept) /\ Len(Pruned(kept)) \in Nat
    BY <1>1, PrunedFacts
  <1> HIDE DEF kept
  <1>3. LoginsTyped'
    BY <1>1, <1>2 DEF BoundInv, LoginsTyped
  <1>4. ASSUME NEW a \in Addresses
        PROVE  Len(Pruned(failures'[a])) <= Len(Pruned(failures[a]))
    <2>1. CASE a = address
      BY <1>1, <1>2, <2>1 DEF kept
    <2>2. CASE a # address
      <3>1. failures'[a] = failures[a] /\ Len(Pruned(failures[a])) \in Nat
        BY <1>1, <2>2, PrunedFacts
      <3> QED
        BY <3>1
    <2> QED
      BY <2>1, <2>2
  <1>5. \A a \in Addresses : Checking(a)' \subseteq Checking(a)
    BY <1>1 DEF Checking
  <1> QED
    BY <1>3, <1>4, <1>5, BoundKept

\* An older failure counts no more than it did.
LEMMA TickBound ==
    ASSUME BoundInv, Tick
    PROVE  BoundInv'
  <1>1. failures \in [Addresses -> Seq(0..Window)] /\ logins' = logins
        /\ Window \in Nat
    BY LoginAssumption DEF Tick, BoundInv, LoginsTyped
  <1>2. ASSUME NEW a \in Addresses
        PROVE  /\ failures'[a] \in Seq(0..Window)
               /\ Len(Pruned(failures'[a])) <= Len(Pruned(failures[a]))
    <2> DEFINE s == failures[a]
               t == failures'[a]
    <2>1. s \in Seq(0..Window)
      BY <1>1
    <2>2. t = [k \in DOMAIN s |-> Older(s[k], Window)]
      BY DEF Tick
    <2> HIDE DEF s, t
    <2>3. \A k \in 1..Len(s) : Older(s[k], Window) \in 0..Window /\ s[k] <= Older(s[k], Window)
      BY <1>1, <2>1 DEF Older
    <2>4. Len(s) \in Nat /\ DOMAIN s = 1..Len(s)
      BY <2>1
    <2>5. t \in Seq(0..Window) /\ Len(t) = Len(s) /\ \A k \in 1..Len(s) : s[k] <= t[k]
      <3> DEFINE A == 0..Window
      <3>1. \A k \in 1..Len(s) : t[k] \in A /\ s[k] <= t[k]
        BY <2>2, <2>3, <2>4
      <3> HIDE DEF A
      <3>2. t \in [1..Len(s) -> A]
        BY <2>2, <2>4, <3>1
      <3>3. t \in Seq(A) /\ Len(t) = Len(s)
        BY <2>4, <3>2
      <3> QED
        BY <3>1, <3>3 DEF A
    <2>6. Len(Pruned(t)) <= Len(Pruned(s))
      BY <2>1, <2>5, PrunedFacts
    <2> QED
      BY <2>5, <2>6 DEF s, t
  <1>3. failures' = [a \in Addresses |-> failures'[a]]
    BY DEF Tick
  <1>4. LoginsTyped'
    BY <1>1, <1>2, <1>3 DEF BoundInv, LoginsTyped
  <1>5. \A a \in Addresses : Checking(a)' \subseteq Checking(a)
    BY <1>1 DEF Checking
  <1> QED
    BY <1>2, <1>4, <1>5, BoundKept

\* With the process, the limiter and the attempts are gone.
LEMMA AfreshBound ==
    ASSUME failures = NoFailures, logins = NoLogins
    PROVE  BoundInv
  <1>1. LoginsTyped
    BY DEF LoginsTyped, NoFailures, NoLogins
  <1>2. ASSUME NEW a \in Addresses
        PROVE  Len(Pruned(failures[a])) + Cardinality(Checking(a))
                 <= MaxAttempts - 1 + Cardinality(Handlers)
    <2>1. Checking(a) = {}
      BY DEF Checking, NoLogins
    <2>2. Cardinality(Checking(a)) = 0
      BY <2>1, FS_EmptySet
    <2>3. failures[a] = <<>> /\ failures[a] \in Seq(0..Window)
      BY <1>1 DEF NoFailures, LoginsTyped
    <2>4. Len(failures[a]) = 0
      BY <2>3
    <2>5. Len(Pruned(failures[a])) \in Nat /\ Len(Pruned(failures[a])) <= 0
      BY <2>3, <2>4, PrunedFacts
    <2>6. MaxAttempts \in Nat \ {0} /\ Cardinality(Handlers) \in Nat
      BY CheckingFinite, LoginAssumption
    <2> QED
      BY <2>2, <2>5, <2>6
  <1> QED
    BY <1>1, <1>2 DEF BoundInv, FailuresBounded

LEMMA BoundInvStep ==
    ASSUME BoundInv, [ServingNext]_servingVars
    PROVE  BoundInv'
  <1>1. CASE UNCHANGED <<failures, logins>>
    BY <1>1 DEF BoundInv, LoginsTyped, FailuresBounded, Checking
  <1>2. CASE failures' = NoFailures /\ logins' = NoLogins
    <2>1. (failures = NoFailures /\ logins = NoLogins => BoundInv)'
      BY AfreshBound, PTL
    <2> QED
      BY <1>2, <2>1 DEF NoFailures, NoLogins
  <1>3. CASE Restart \/ ListenFails \/ Kill
    BY <1>1, <1>2, <1>3 DEF Restart, Start, StartFails, Listen, Exit, ListenFails, Kill,
                            LoginsStart, LoginsGone, loginVars
  <1>4. CASE Connect \/ ConnectFaulty \/ EditProfiles \/ UNCHANGED servingVars
    BY <1>1, <1>4 DEF Connect, ConnectFaulty, EditProfiles, servingVars, loginVars
  <1>5. CASE Time
    BY <1>5, TickBound DEF Time
  <1>6. CASE Serve
    BY <1>1, <1>6, BeginBound, EndBound, RefusedBound
       DEF Serve, Logout, Accept, loginVars
  <1> QED
    BY <1>3, <1>4, <1>5, <1>6 DEF ServingNext

\* FailuresBounded: recorded failures and attempts in progress from one
\* address never exceed the limit by more than the other handlers allow,
\* however allow, the check and recordFailure of attempts interleave.
THEOREM FailuresAreBounded == ServingSpec => []FailuresBounded
  <1>1. ServingInit => BoundInv
    BY AfreshBound DEF ServingInit, LoginInit
  <1>2. BoundInv /\ [ServingNext]_servingVars => BoundInv'
    BY BoundInvStep
  <1>3. BoundInv => FailuresBounded
    BY DEF BoundInv
  <1> QED
    BY <1>1, <1>2, <1>3, PTL DEF ServingSpec

-----------------------------------------------------------------------------
(* Type correctness: what the invariants above leave open *)

RestTyped ==
    /\ ConnectionTypeOK
    /\ users \subseteq Profiles
    /\ process \in {"down", "new", "serving", "closing"}
    /\ profiles \subseteq Profiles
    /\ faults \in 0..MaxFaults
    /\ edits \in 0..MaxEdits

LEMMA ConnectionTyped ==
    ASSUME ConnectionTypeOK,
           \/ RunConnected \/ RunRefused \/ StatusAuthorized \/ StatusFailed
           \/ ContextDone \/ RunReturns
           \/ New \/ NewReturns \/ NewCancels \/ NewFails \/ Close \/ CloseReturns \/ Gone
    PROVE  ConnectionTypeOK'
  BY DEF ConnectionTypeOK, RunConnected, RunRefused, StatusAuthorized, StatusFailed,
         ContextDone, RunReturns, New, NewReturns, NewCancels, NewFails, Close, CloseReturns, Gone

LEMMA RestTypedStep ==
    ASSUME RestTyped, [ServingNext]_servingVars
    PROVE  RestTyped'
  <1> USE DEF RestTyped
  <1>1. CASE Restart
    BY <1>1, ConnectionTyped
       DEF Restart, Start, StartFails, Listen, Exit, LoginsStart, LoginsGone, NoFault,
           connectionVars, loginVars, configVars, ConnectionTypeOK
  <1>2. CASE Connect
    BY <1>2, ConnectionTyped DEF Connect, NoFault, loginVars, configVars
  <1>3. CASE ConnectFaulty \/ ListenFails \/ Kill
    <2>1. faults' \in 0..MaxFaults
      BY <1>3, ServingAssumption DEF ConnectFaulty, ListenFails, Kill, Fault
    <2> QED
      BY <1>3, <2>1, ConnectionTyped
         DEF ConnectFaulty, ListenFails, Kill, LoginsStart, LoginsGone, loginVars, configVars
  <1>4. CASE Serve
    <2>1. UNCHANGED users
      BY <1>4 DEF Serve, LoginBegin, LoginFailed, LoginSucceeded, LoginRefused, Logout,
                  Accept, loginVars
    <2> QED
      BY <1>4, <2>1 DEF Serve, NoFault, connectionVars, configVars, ConnectionTypeOK
  <1>5. CASE Time \/ UNCHANGED servingVars
    BY <1>5 DEF Time, Tick, servingVars, connectionVars, loginVars, processVars, configVars,
                ConnectionTypeOK
  <1>6. CASE EditProfiles
    <2>1. edits' \in 0..MaxEdits
      BY <1>6, ServingAssumption DEF EditProfiles
    <2>2. profiles' \subseteq Profiles
      BY <1>6 DEF EditProfiles
    <2> QED
      BY <1>6, <2>1, <2>2
         DEF EditProfiles, connectionVars, loginVars, processVars, ConnectionTypeOK
  <1> QED
    BY <1>1, <1>2, <1>3, <1>4, <1>5, <1>6 DEF ServingNext

\* ServingTypeOK: the connection, the limiter, the tokens and the process have
\* their types, ages and counters stay within their bounds.
THEOREM ServingIsTyped == ServingSpec => []ServingTypeOK
  <1> DEFINE Typed == SessionInv /\ BoundInv /\ RestTyped
  <1>1. ServingInit => Typed
    <2> SUFFICES ASSUME ServingInit PROVE Typed
      OBVIOUS
    <2>1. BoundInv
      BY AfreshBound DEF ServingInit, LoginInit
    <2>2. RestTyped
      <3>1. ConnectionTypeOK
        BY DEF ServingInit, ConnectionInit, ConnectionTypeOK
      <3>2. 0 \in 0..MaxFaults /\ 0 \in 0..MaxEdits
        BY ServingAssumption
      <3> QED
        BY <3>1, <3>2 DEF ServingInit, LoginInit, RestTyped
    <2> QED
      BY <2>1, <2>2, SessionInvInit
  <1>2. Typed /\ [ServingNext]_servingVars => Typed'
    BY SessionInvStep, BoundInvStep, RestTypedStep
  <1>3. Typed => ServingTypeOK
    BY DEF SessionInv, BoundInv, LoginsTyped, RestTyped, ServingTypeOK, LoginTypeOK
  <1> HIDE DEF Typed
  <1> QED
    BY <1>1, <1>2, <1>3, PTL DEF ServingSpec
=============================================================================
