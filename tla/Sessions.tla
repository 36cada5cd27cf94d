------------------------------- MODULE Sessions -------------------------------
(***************************************************************************)
(* login.rs, the router's authentication in api_manager.rs, the permission *)
(* bits of models.rs and the cleaning of the tokens table in main.rs.      *)
(*                                                                         *)
(* Time is counted in UTC days: `expire` is 24 hours after the login and   *)
(* is compared with DATE('now') as text, so an expiry at any hour of a day *)
(* is greater than that day's date.  The random token of a login is named  *)
(* after it.  A request's token and permissions come from one query; the   *)
(* database is read and written by single statements.                      *)
(***************************************************************************)
EXTENDS Naturals, FiniteSets

CONSTANTS
    Logins,       \* login requests
    Users,        \* rows of the users table
    Permissions,  \* users.permissions, which no code of the server writes
    Asked,        \* the routes that are requested
    None,
    Never,        \* NULL in tokens.expire
    LastDay       \* bound on the days that pass

RouteNames == {"ping", "login", "dsn", "list_settings", "update_settings", "list_files",
               "upload_file", "rename_file", "create_connection", "disconnect_connection",
               "reconnect_connection", "start_print", "cancel_print", "terminal"}

Row == [username: Users, expire: Nat \cup {Never}]

ASSUME SessionsAssumption ==
    /\ None \notin Users \cup Logins \cup Row
    /\ Permissions \in [Users -> Nat]
    /\ Asked \subseteq RouteNames
    /\ LastDay \in Nat
    /\ Never \notin Nat

VARIABLES
    today,
    tokens,   \* the table: the row of each login's token, or None
    login,    \* how far each login request is
    sockets,  \* the tokens of the open websockets
    answer    \* the last answer of the router

vars == <<today, tokens, login, sockets, answer>>

TypeOK ==
    /\ today \in 0..LastDay
    /\ tokens \in [Logins -> Row \cup {None}]
    /\ login \in [Logins -> [phase: {"idle", "verified", "done", "lost"},
                             user: Users \cup {None}, remember: BOOLEAN, issued: 0..LastDay]]
    /\ sockets \subseteq Logins
    /\ answer \in [to: RouteNames \cup {"preflight", "ws", "none"}, from: Logins \cup {None},
                   route: RouteNames \cup {None}, served: BOOLEAN]
    \* A row is of a login that is done, of its user.
    /\ \A l \in Logins : login[l].phase \in {"verified", "done"} => login[l].user # None
    /\ \A l \in Logins : tokens[l] # None =>
          login[l].phase = "done" /\ tokens[l].username = login[l].user

NoAnswer == [to |-> "none", from |-> None, route |-> None, served |-> FALSE]

Init ==
    /\ today = 0
    /\ tokens = [l \in Logins |-> None]
    /\ login = [l \in Logins |-> [phase |-> "idle", user |-> None, remember |-> FALSE,
                                  issued |-> 0]]
    /\ sockets = {}
    /\ answer = NoAnswer

-----------------------------------------------------------------------------
(* login.rs                                                                *)

\* The password is right; a wrong one changes nothing.
VerifyCredentials(l, u, remember) ==
    /\ login[l].phase = "idle"
    /\ login' = [login EXCEPT ![l] = [@ EXCEPT !.phase = "verified", !.user = u,
                                               !.remember = remember]]
    /\ UNCHANGED <<today, tokens, sockets, answer>>

\* A wrong GenerateToken: the token is stored before the password is looked at.
GenerateTokenFirst(l) ==
    /\ login[l].phase = "idle"
    /\ \E u \in Users : tokens' = [tokens EXCEPT ![l] = [username |-> u, expire |-> today + 1]]
    /\ UNCHANGED <<today, login, sockets, answer>>

\* details.remember() is of the request's body, not of the row.
GenerateToken(l) ==
    /\ login[l].phase = "verified"
    /\ tokens' = [tokens EXCEPT ![l] =
                    [username |-> login[l].user,
                     expire |-> IF login[l].remember THEN Never ELSE today + 1]]
    /\ login' = [login EXCEPT ![l] = [@ EXCEPT !.phase = "done", !.issued = today]]
    /\ UNCHANGED <<today, sockets, answer>>

-----------------------------------------------------------------------------
(* models.rs                                                               *)

Bit == [admin |-> 0, edit_connection |-> 1, file_access |-> 2, file_edit |-> 3,
        print_state_edit |-> 4, settings_edit |-> 5, users_edit |-> 6, terminal_read |-> 7,
        terminal_send |-> 8, webcam |-> 9, update |-> 10]

IsSet(n, k) == (n \div (2^k)) % 2 = 1

\* The column is an INTEGER, raw_permissions a u8: a row that does not fit is an error.
Decodes(n) == n < 2^8

Holds(n, p) == Decodes(n) /\ (IsSet(n, Bit.admin) \/ IsSet(n, Bit[p]))

-----------------------------------------------------------------------------
(* api_manager.rs                                                          *)

\* where (b.expire < DATE('now') OR b.expire is null) AND b.token = ?
Selects(l) ==
    /\ tokens[l] # None
    /\ tokens[l].expire = Never \/ tokens[l].expire < today

Authenticated(l) == Selects(l) /\ Decodes(Permissions[tokens[l].username])

OpenRoutes == {"ping", "login", "dsn"}

Needs == [list_settings         |-> {},
          update_settings       |-> {"settings_edit"},
          list_files            |-> {"file_access"},
          upload_file           |-> {"file_edit", "file_access"},
          rename_file           |-> {"file_edit", "file_access"},
          create_connection     |-> {"edit_connection"},
          disconnect_connection |-> {"edit_connection"},
          reconnect_connection  |-> {"edit_connection"},
          start_print           |-> {"print_state_edit"},
          cancel_print          |-> {"print_state_edit"},
          terminal              |-> {"terminal_send"}]

Served(l, route) ==
    \/ route \in OpenRoutes
    \/ /\ l # None
       /\ Authenticated(l)
       /\ \A p \in Needs[route] : Holds(Permissions[tokens[l].username], p)

\* The holder of a token, or somebody without one (None), requests a route.
HandleRoute(l, route) ==
    /\ l # None => login[l].phase = "done"
    /\ answer' = [to |-> route, from |-> l, route |-> route, served |-> Served(l, route)]
    /\ UNCHANGED <<today, tokens, login, sockets>>

\* The method and path of each route.
Method == [ping |-> "GET", login |-> "POST", dsn |-> "GET", list_settings |-> "GET",
           update_settings |-> "POST", list_files |-> "GET", upload_file |-> "POST",
           rename_file |-> "POST", create_connection |-> "PUT", disconnect_connection |-> "DELETE",
           reconnect_connection |-> "POST", start_print |-> "PUT", cancel_print |-> "DELETE",
           terminal |-> "POST"]

\* Access-Control-Allow-Methods for the path of each route.
AllowedMethods == [ping |-> {"GET"}, login |-> {"POST"}, dsn |-> {"GET"},
                   list_settings |-> {"GET", "POST"}, update_settings |-> {"GET", "POST"},
                   list_files |-> {"GET", "POST"}, upload_file |-> {"GET", "POST"},
                   rename_file |-> {"POST"},
                   create_connection |-> {"PUT", "DELETE", "POST"},
                   disconnect_connection |-> {"PUT", "DELETE", "POST"},
                   reconnect_connection |-> {"PUT", "DELETE", "POST"},
                   start_print |-> {"PUT"}, cancel_print |-> {"PUT"}, terminal |-> {"POST"}]

\* A browser on another origin asks whether it may use the route's method.
HandleOption(route) ==
    /\ answer' = [to |-> "preflight", from |-> None, route |-> route,
                  served |-> Method[route] \in AllowedMethods[route]]
    /\ UNCHANGED <<today, tokens, login, sockets>>

\* An upgrade request for /ws with the token as its protocol.
UpgradeWebsocket(l) ==
    /\ login[l].phase = "done"
    /\ sockets' = IF Authenticated(l) THEN sockets \cup {l} ELSE sockets
    /\ answer' = [to |-> "ws", from |-> l, route |-> None, served |-> Authenticated(l)]
    /\ UNCHANGED <<today, tokens, login>>

CloseWebsocket(l) ==
    /\ l \in sockets
    /\ sockets' = sockets \ {l}
    /\ UNCHANGED <<today, tokens, login, answer>>

-----------------------------------------------------------------------------
(* main.rs and the clock                                                   *)

\* A wrong Expired: NULL counts as expired.
ExpiredOrNull(l) == tokens[l] # None /\ (tokens[l].expire = Never \/ tokens[l].expire < today)

\* DELETE FROM tokens where expire < DATE('now')
Expired(l) == tokens[l] # None /\ tokens[l].expire # Never /\ tokens[l].expire < today

\* The process ends, with every request and socket, and setup_db runs again.
Restart ==
    /\ tokens' = [l \in Logins |-> IF Expired(l) THEN None ELSE tokens[l]]
    /\ login' = [l \in Logins |-> IF login[l].phase = "verified"
                                  THEN [login[l] EXCEPT !.phase = "lost"] ELSE login[l]]
    /\ sockets' = {}
    /\ answer' = NoAnswer
    /\ UNCHANGED today

NewDay ==
    /\ today < LastDay
    /\ today' = today + 1
    /\ UNCHANGED <<tokens, login, sockets, answer>>

Next ==
    \/ \E l \in Logins, u \in Users, remember \in BOOLEAN : VerifyCredentials(l, u, remember)
    \/ \E l \in Logins : GenerateToken(l) \/ UpgradeWebsocket(l) \/ CloseWebsocket(l)
    \/ \E l \in Logins \cup {None}, route \in Asked : HandleRoute(l, route)
    \/ \E route \in Asked : HandleOption(route)
    \/ Restart
    \/ NewDay

Spec == Init /\ [][Next]_vars

-----------------------------------------------------------------------------
(* What passes.                                                            *)

\* A login that asked to be remembered has a token that is selected from then on,
\* whatever day it is and however often the server was restarted (login.rs 121-128,
\* main.rs 481).
RememberedIsSelected ==
    \A l \in Logins : login[l].phase = "done" /\ login[l].remember => Selects(l)

-----------------------------------------------------------------------------
(* What a comment says and the code does not do.                           *)

\* login.rs: "Validates credentials and exchanges for a token."  The token works on the
\* day it was issued.
FreshTokenServes ==
    answer.to = "list_settings" /\ answer.from # None /\ login[answer.from].issued = today
      => answer.served
=============================================================================
