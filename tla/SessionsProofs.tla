---------------------------- MODULE SessionsProofs ----------------------------
(***************************************************************************)
(* The tokens of Sessions, for any number of logins, users and days: the   *)
(* row of a remembered login has no expiry and nothing takes it away.      *)
(***************************************************************************)
EXTENDS Sessions, TLAPS

USE DEF Row

\* What is kept about a remembered login: its row is there and never expires.
Remembered ==
    \A l \in Logins : login[l].phase = "done" /\ login[l].remember =>
        tokens[l] # None /\ tokens[l].expire = Never

Inv == TypeOK /\ Remembered

\* A row is not the absence of one.
LEMMA RowIsNotNone ==
    ASSUME TypeOK, NEW l \in Logins, tokens[l] # None
    PROVE  /\ tokens[l] \in Row
           /\ login[l].phase = "done"
BY DEF TypeOK

\* The initial states satisfy the invariant.
LEMMA InitInv == Init => Inv
BY SessionsAssumption
   DEF Init, Inv, TypeOK, Remembered, NoAnswer

\* The login handler's two steps.
LEMMA LoginInv ==
    ASSUME Inv, NEW l \in Logins,
           \/ \E u \in Users, remember \in BOOLEAN : VerifyCredentials(l, u, remember)
           \/ GenerateToken(l)
    PROVE  Inv'
<1> USE DEF Inv
<1>0. today \in Nat
  BY SessionsAssumption DEF TypeOK
<1>1. ASSUME NEW u \in Users, NEW remember \in BOOLEAN, VerifyCredentials(l, u, remember)
      PROVE  Inv'
  <2>1. /\ login[l].phase = "idle"
        /\ login' = [login EXCEPT ![l] = [@ EXCEPT !.phase = "verified", !.user = u,
                                                   !.remember = remember]]
        /\ UNCHANGED <<today, tokens, sockets, answer>>
    BY <1>1 DEF VerifyCredentials
  <2>2. TypeOK'
    <3>1. tokens[l] = None
      BY <2>1, RowIsNotNone
    <3>2. u # None
      BY SessionsAssumption
    <3>3. login' \in [Logins -> [phase: {"idle", "verified", "done", "lost"},
                                 user: Users \cup {None}, remember: BOOLEAN, issued: 0..LastDay]]
      BY <2>1 DEF TypeOK
    <3>4. /\ login'[l].user = u
          /\ \A k \in Logins \ {l} : login'[k] = login[k]
      BY <2>1 DEF TypeOK
    <3> QED
      BY <2>1, <3>1, <3>2, <3>3, <3>4 DEF TypeOK
  <2>3. Remembered'
    BY <2>1 DEF Remembered, TypeOK
  <2> QED
    BY <2>2, <2>3
<1>2. ASSUME GenerateToken(l)
      PROVE  Inv'
  <2> DEFINE row == [username |-> login[l].user,
                     expire |-> IF login[l].remember THEN Never ELSE today + 1]
  <2>1. /\ login[l].phase = "verified"
        /\ tokens' = [tokens EXCEPT ![l] = row]
        /\ login' = [login EXCEPT ![l] = [@ EXCEPT !.phase = "done", !.issued = today]]
        /\ UNCHANGED <<today, sockets, answer>>
    BY <1>2 DEF GenerateToken
  <2>2. login[l].user \in Users
    BY <2>1 DEF TypeOK
  <2>3. row \in Row
    BY <1>0, <2>2
  <2>4. tokens[l] = None
    BY <2>1, RowIsNotNone
  <2>5. TypeOK'
    BY <2>1, <2>3 DEF TypeOK
  <2>6. row # None
    BY <2>3, SessionsAssumption
  <2>7. Remembered'
    BY <2>1, <2>6 DEF Remembered, TypeOK
  <2> QED
    BY <2>5, <2>7
<1> QED
  BY <1>1, <1>2

\* The router and the sockets.
LEMMA RouterInv ==
    ASSUME Inv, NEW l \in Logins \cup {None}, NEW route \in RouteNames,
           \/ l \in Logins /\ UpgradeWebsocket(l)
           \/ l \in Logins /\ CloseWebsocket(l)
           \/ HandleRoute(l, route)
           \/ HandleOption(route)
    PROVE  Inv'
<1> USE DEF Inv
<1>1. /\ UNCHANGED <<today, tokens, login>>
      /\ sockets' \subseteq Logins
  <2>1. CASE l \in Logins /\ UpgradeWebsocket(l)
    BY <2>1 DEF UpgradeWebsocket, TypeOK
  <2>2. CASE l \in Logins /\ CloseWebsocket(l)
    BY <2>2 DEF CloseWebsocket, TypeOK
  <2>3. CASE HandleRoute(l, route)
    BY <2>3 DEF HandleRoute, TypeOK
  <2>4. CASE HandleOption(route)
    BY <2>4 DEF HandleOption, TypeOK
  <2> QED
    BY <2>1, <2>2, <2>3, <2>4
<1>2. answer' \in [to: RouteNames \cup {"preflight", "ws", "none"}, from: Logins \cup {None},
                   route: RouteNames \cup {None}, served: BOOLEAN]
  <2>1. CASE l \in Logins /\ UpgradeWebsocket(l)
    <3>1. Authenticated(l) \in BOOLEAN
      BY DEF Authenticated, Selects, Decodes
    <3> QED
      BY <2>1, <3>1 DEF UpgradeWebsocket
  <2>2. CASE l \in Logins /\ CloseWebsocket(l)
    BY <2>2 DEF CloseWebsocket, TypeOK
  <2>3. CASE HandleRoute(l, route)
    <3>1. Served(l, route) \in BOOLEAN
      BY DEF Served
    <3> QED
      BY <2>3, <3>1 DEF HandleRoute
  <2>4. CASE HandleOption(route)
    <3>1. (Method[route] \in AllowedMethods[route]) \in BOOLEAN
      OBVIOUS
    <3> QED
      BY <2>4, <3>1 DEF HandleOption
  <2> QED
    BY <2>1, <2>2, <2>3, <2>4
<1>3. TypeOK'
  BY <1>1, <1>2 DEF TypeOK
<1>4. Remembered'
  BY <1>1 DEF Remembered
<1> QED
  BY <1>3, <1>4

\* A restart takes the rows that expired, and no remembered one; days pass.
LEMMA ClockInv ==
    ASSUME Inv, Restart \/ NewDay
    PROVE  Inv'
<1> USE DEF Inv
<1>0. today \in Nat /\ LastDay \in Nat
  BY SessionsAssumption DEF TypeOK
<1>1. CASE Restart
  <2>1. \A l \in Logins : tokens'[l] = IF Expired(l) THEN None ELSE tokens[l]
    BY <1>1 DEF Restart
  <2>2. /\ tokens' \in [Logins -> Row \cup {None}]
        /\ \A l \in Logins : tokens'[l] # None => tokens'[l] = tokens[l]
    BY <1>1, <2>1 DEF Restart, TypeOK
  <2>3. \A l \in Logins : \/ login'[l] = login[l]
                           \/ /\ login[l].phase = "verified"
                              /\ login'[l] = [login[l] EXCEPT !.phase = "lost"]
    BY <1>1 DEF Restart
  <2>4. login' \in [Logins -> [phase: {"idle", "verified", "done", "lost"},
                               user: Users \cup {None}, remember: BOOLEAN, issued: 0..LastDay]]
    BY <1>1 DEF Restart, TypeOK
  <2>5. TypeOK'
    <3>1. NoAnswer \in [to: RouteNames \cup {"preflight", "ws", "none"},
                        from: Logins \cup {None}, route: RouteNames \cup {None},
                        served: BOOLEAN]
      BY DEF NoAnswer
    <3>2. \A l \in Logins : tokens'[l] # None =>
              login'[l].phase = "done" /\ tokens'[l].username = login'[l].user
      <4> SUFFICES ASSUME NEW l \in Logins, tokens'[l] # None
                   PROVE  login'[l].phase = "done" /\ tokens'[l].username = login'[l].user
        OBVIOUS
      <4>1. tokens[l] # None /\ tokens'[l] = tokens[l]
        BY <2>2
      <4>2. login[l].phase = "done" /\ tokens[l].username = login[l].user
        BY <4>1 DEF TypeOK
      <4> QED
        BY <2>3, <4>1, <4>2
    <3>3. \A l \in Logins : login'[l].phase \in {"verified", "done"} => login'[l].user # None
      BY <2>3, <2>4 DEF TypeOK
    <3>4. today' \in 0..LastDay /\ sockets' \subseteq Logins /\ answer' = NoAnswer
      BY <1>1 DEF Restart, TypeOK
    <3> QED
      BY <2>2, <2>4, <3>1, <3>2, <3>3, <3>4 DEF TypeOK
  <2>6. Remembered'
    <3> SUFFICES ASSUME NEW l \in Logins, login'[l].phase = "done", login'[l].remember
                 PROVE  tokens'[l] # None /\ tokens'[l].expire = Never
      BY DEF Remembered
    <3>1. login'[l] = login[l]
      BY <2>3 DEF TypeOK
    <3>2. tokens[l] # None /\ tokens[l].expire = Never
      BY <3>1 DEF Remembered
    <3> QED
      BY <2>1, <3>2 DEF Expired
  <2> QED
    BY <2>5, <2>6
<1>2. CASE NewDay
  <2>1. /\ today' = today + 1
        /\ today < LastDay
        /\ UNCHANGED <<tokens, login, sockets, answer>>
    BY <1>2 DEF NewDay
  <2>2. today' \in 0..LastDay /\ today' \in Nat /\ today' >= today
    BY <1>0, <2>1
  <2>3. TypeOK'
    BY <2>1, <2>2 DEF TypeOK
  <2>4. Remembered'
    BY <2>1 DEF Remembered
  <2> QED
    BY <2>3, <2>4
<1> QED
  BY <1>1, <1>2

\* Every step keeps the invariant.
LEMMA NextInv == Inv /\ [Next]_vars => Inv'
<1> SUFFICES ASSUME Inv, [Next]_vars
             PROVE  Inv'
  OBVIOUS
<1>1. ASSUME NEW l \in Logins, NEW u \in Users, NEW remember \in BOOLEAN,
             VerifyCredentials(l, u, remember)
      PROVE  Inv'
  BY <1>1, LoginInv
<1>2. ASSUME NEW l \in Logins, GenerateToken(l)
      PROVE  Inv'
  BY <1>2, LoginInv
<1>3. ASSUME NEW l \in Logins, UpgradeWebsocket(l) \/ CloseWebsocket(l)
      PROVE  Inv'
  <2>1. "ping" \in RouteNames
    BY DEF RouteNames
  <2> QED
    BY <1>3, <2>1, RouterInv
<1>4. ASSUME NEW l \in Logins \cup {None}, NEW route \in Asked, HandleRoute(l, route)
      PROVE  Inv'
  BY <1>4, RouterInv, SessionsAssumption
<1>5. ASSUME NEW route \in Asked, HandleOption(route)
      PROVE  Inv'
  BY <1>5, RouterInv, SessionsAssumption
<1>6. CASE Restart \/ NewDay
  BY <1>6, ClockInv
<1>7. CASE UNCHANGED vars
  BY <1>7 DEF vars, Inv, TypeOK, Remembered
<1> QED
  BY <1>1, <1>2, <1>3, <1>4, <1>5, <1>6, <1>7 DEF Next

\* The tokens table, the login requests and the sockets stay well formed: a row is of a
\* login whose password was verified, of its user (login.rs 34-131).
THEOREM SessionsTypeCorrect == Spec => []TypeOK
<1>1. Inv => TypeOK
  BY DEF Inv
<1> QED
  BY <1>1, InitInv, NextInv, PTL DEF Spec

\* A token with no expiry is selected for ever, restarts included (login.rs 121-128,
\* api_manager.rs 126 and 352, main.rs 481).
THEOREM RememberedForEver == Spec => []RememberedIsSelected
<1>1. Inv => RememberedIsSelected
  BY DEF Inv, Remembered, RememberedIsSelected, Selects
<1> QED
  BY <1>1, InitInv, NextInv, PTL DEF Spec
=============================================================================
