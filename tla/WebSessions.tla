---------------------------- MODULE WebSessions -----------------------------
(***************************************************************************)
(* Sign-in, sessions and roles of the dashboard (web/src/auth): the OAuth  *)
(* callback that creates a session, the gate require_role in front of      *)
(* every page, logout, the periodic snapshot and the reload at a restart.  *)
(*                                                                         *)
(* A request is a task: it may be suspended while Twitch answers and while *)
(* the session file is written, and others run meanwhile.  The session id  *)
(* and its csrf value are random and used once; here both are the number   *)
(* of the login attempt.  The HTTP client has no timeout; the longest call *)
(* to Twitch of a behaviour takes MaxCall.                                 *)
(***************************************************************************)
EXTENDS Integers, FiniteSets

CONSTANTS
  Users,        \* Twitch users
  Broadcaster,  \* state.broadcaster_id
  Browsers,     \* who may have a request in flight
  WebSettings,  \* pairs <<session_ttl_secs, mod_check_refresh_secs>>
  None,
  MaxLogins,    \* bound on the login attempts
  MaxTime,      \* bound on the clock
  MaxCall,      \* bound on the length of a call to Twitch
  MaxChanges,   \* bound on the changes of roles and settings
  MaxStarts     \* bound on the restarts

Sids == 1 .. MaxLogins
Roles == {"viewer", "mod", "owner"}
Times == -1 .. MaxTime
Never == -1     \* DateTime::MIN_UTC

Session == [user : Users, role : Roles, seen : Times, checked : Times]
Tables == [Sids -> Session \cup {None}]
Persisters == Browsers \cup {"tick"}

\* allow: the user was on the allowlist when the callback asked Twitch.
Asking == [op : {"callback"}, st : {"exchange", "modcheck"}, sid : Sids, user : Users,
           at : Times, allow : BOOLEAN]
\* When the gate began, the interval it read, and whether Twitch failed it.
Gate == [op : {"gate"}, st : {"modcheck", "admitted"}, sid : Sids, user : Users,
         role : Roles, at : Times, refresh : Nat, failed : BOOLEAN]
Saving == [op : {"callback", "logout"}, st : {"persist", "write"}, sid : Sids]
Visit == Asking \cup Gate \cup Saving

ASSUME SessionsAssumption ==
  /\ None \notin Users \cup Sids /\ Broadcaster # None
  /\ None \notin Tables /\ None \notin Visit
  /\ MaxLogins \in Nat /\ MaxTime \in Nat /\ MaxCall \in Nat
  /\ MaxChanges \in Nat /\ MaxStarts \in Nat
  /\ WebSettings \subseteq Nat \X Nat /\ WebSettings # {}
  /\ "tick" \notin Browsers

VARIABLES
  now,
  web,         \* settings.web, read on every request
  mods,        \* the moderators as Twitch knows them
  hidden,      \* settings.twitch.hidden_admins
  allowlist,   \* settings.twitch.viewer_allowlist
  owner,       \* config.toml, read at the start
  attempts,    \* logins begun
  oauth_state, \* the cookie tw1337_oauth_state
  issued,      \* the session ids that were sent to a browser
  table,       \* SessionTable.inner
  sessions_file, \* sessions.ron
  snap,        \* what the holder of write_lock is saving
  req,         \* the requests in flight
  process_start, \* history: when this process started
  last,        \* history: when a user was last entitled to a role
  gone,        \* history: sessions whose logout was answered and saved
  changes, starts

roles == <<web, mods, hidden, allowlist, owner, changes>>
login == <<attempts, oauth_state, issued>>
disk == <<sessions_file, snap, gone>>
past == <<process_start, last, starts>>
vars == <<now, roles, login, table, disk, req, past>>

TypeOK ==
  /\ now \in 0 .. MaxTime /\ process_start \in 0 .. MaxTime /\ web \in WebSettings
  /\ mods \subseteq Users /\ hidden \subseteq Users /\ allowlist \subseteq Users
  /\ owner \in Users \cup {None}
  /\ attempts \in 0 .. MaxLogins /\ oauth_state \in Sids \cup {None} /\ issued \subseteq Sids
  /\ table \in Tables /\ sessions_file \in Tables /\ snap \in [Persisters -> Tables \cup {None}]
  /\ req \in [Browsers -> Visit \cup {None}]
  /\ last \in [Users -> [Roles -> Times]]
  /\ gone \subseteq Sids /\ changes \in 0 .. MaxChanges /\ starts \in 0 .. MaxStarts

NoSessions == [s \in Sids |-> None]

Entitled(u, role) ==
  CASE role = "owner"  -> owner = u
    [] role = "mod"    -> u \in mods \cup hidden \cup {Broadcaster}
    [] role = "viewer" -> u \in allowlist

Init ==
  /\ now = 0 /\ process_start = 0 /\ changes = 0 /\ starts = 0
  /\ web \in WebSettings
  /\ mods \in SUBSET Users /\ hidden = {} /\ allowlist \in SUBSET Users
  /\ owner \in Users \cup {None}
  /\ attempts = 0 /\ oauth_state = None /\ issued = {}
  /\ table = NoSessions /\ sessions_file = NoSessions /\ snap = [w \in Persisters |-> None]
  /\ req = [r \in Browsers |-> None]
  /\ last = [u \in Users |-> [role \in Roles |-> Never]]
  /\ gone = {}

-----------------------------------------------------------------------------
(* The session table *)

Rank(role) == CASE role = "viewer" -> 1 [] role = "mod" -> 2 [] role = "owner" -> 3

insert_at(sid, u, role) ==
  [table EXCEPT ![sid] = [user |-> u, role |-> role, seen |-> now, checked |-> now]]

Live(sid) == table[sid] # None /\ now - table[sid].seen <= web[1]

\* The table after get_and_touch: the session slides, or has expired.
get_and_touch(sid) ==
  [table EXCEPT ![sid] = IF Live(sid) THEN [@ EXCEPT !.seen = now] ELSE None]

drop_session(sid) == [table EXCEPT ![sid] = None]

record_role_check(sid) ==
  [table EXCEPT ![sid] = IF @ = None THEN None ELSE [@ EXCEPT !.checked = now]]

\* Mutant: the stored time of the last check is believed.
LoadBelieving(content) == content

\* load: the first request of a restored session checks its role again.
load(content) ==
  [s \in Sids |-> IF content[s] = None THEN None ELSE [content[s] EXCEPT !.checked = Never]]

\* Mutant: the snapshot is taken before the lock.
PersistUnlocked(w) == snap' = [snap EXCEPT ![w] = table]

\* persist: the snapshot is taken with write_lock held ...
persist(w) ==
  /\ \A x \in Persisters : snap[x] = None
  /\ snap' = [snap EXCEPT ![w] = table]

\* ... until it is written; a disk that refuses it is only logged.
Written(w, ok) ==
  /\ sessions_file' = IF ok THEN snap[w] ELSE sessions_file
  /\ snap' = [snap EXCEPT ![w] = None]

-----------------------------------------------------------------------------
(* Requests *)

Go(r, st) == req' = [req EXCEPT ![r].st = st]
Done(r) == req' = [req EXCEPT ![r] = None]
Begin(r, request) == req' = [req EXCEPT ![r] = request]
Asks(sid, u) ==
  [op |-> "callback", st |-> "exchange", sid |-> sid, user |-> u, at |-> now, allow |-> FALSE]
Passes(sid, st) ==
  [op |-> "gate", st |-> st, sid |-> sid, user |-> table[sid].user, role |-> table[sid].role,
   at |-> now, refresh |-> web[2], failed |-> FALSE]
Saves(op, sid) == [op |-> op, st |-> "persist", sid |-> sid]

\* The response of the callback clears the state cookie.
AnswerCallback(r) == Done(r) /\ oauth_state' = None

auth_start ==
  /\ attempts < MaxLogins
  /\ attempts' = attempts + 1 /\ oauth_state' = attempts'
  /\ UNCHANGED <<now, roles, issued, table, disk, req, past>>

\* callback with the state of the cookie.  Twitch redeems a code once: of two
\* requests with the same one only the first is followed.
callback(r, u) ==
  /\ req[r] = None /\ oauth_state # None
  /\ \A x \in Browsers : req[x] # None => req[x].sid # oauth_state
  /\ Begin(r, Asks(oauth_state, u))
  /\ UNCHANGED <<now, roles, login, table, disk, past>>

\* Shared by both checks of a moderator: no call to Twitch is needed.
shortcut(u) == u \in hidden \/ u = Broadcaster

Insert(r, role) ==
  /\ table' = insert_at(req[r].sid, req[r].user, role)
  /\ Begin(r, Saves("callback", req[r].sid))
  /\ UNCHANGED oauth_state

\* oauth_http_call: the answer of Twitch, rewritten for the parser, or an error.
TokenAnswers == BOOLEAN

\* The token exchange and the user lookup have answered, or failed.
exchange_code(r, ok) ==
  /\ req[r] # None /\ req[r].st = "exchange"
  /\ IF ~ok THEN AnswerCallback(r) /\ UNCHANGED table
     ELSE IF owner = req[r].user THEN Insert(r, "owner")
     ELSE IF shortcut(req[r].user) THEN Insert(r, "mod")
     ELSE /\ req' = [req EXCEPT ![r].st = "modcheck", ![r].at = now,
                                ![r].allow = (req[r].user \in allowlist)]
          /\ UNCHANGED <<oauth_state, table>>
  /\ UNCHANGED <<now, roles, attempts, issued, disk, past>>

\* check_is_mod_with_token has answered.
user_moderates_channel(r, ok) ==
  /\ req[r] # None /\ req[r].op = "callback" /\ req[r].st = "modcheck"
  /\ IF ok /\ req[r].user \in mods THEN Insert(r, "mod")
     ELSE IF ok /\ req[r].allow THEN Insert(r, "viewer")
     ELSE AnswerCallback(r) /\ UNCHANGED table
  /\ UNCHANGED <<now, roles, attempts, issued, disk, past>>

\* Mutant: a check that failed counts as one that was made.
StampAlways(r, ok) == record_role_check(req[r].sid)

\* Only an answer of Twitch is recorded as a check.
Stamp(r, ok) == IF ok THEN record_role_check(req[r].sid) ELSE table

NeedsCheck(sid) ==
  table[sid].checked = Never \/ now - table[sid].checked > web[2]

\* The three groups of routes and the role each asks for.
build_router == {"viewer", "mod", "owner"}

\* require_role up to its answer or to the call of Twitch.
require_role(r, sid, min) ==
  /\ req[r] = None /\ sid \in issued
  /\ LET s == table[sid]
         touched == get_and_touch(sid)
         kept == [touched[sid] EXCEPT !.checked = now]
         unless(allowed) ==
           IF allowed
           THEN /\ Begin(r, Passes(sid, "admitted"))
                /\ table' = [table EXCEPT ![sid] = kept]
           ELSE table' = drop_session(sid) /\ UNCHANGED req
     IN IF ~Live(sid) \/ Rank(s.role) < Rank(min)
        THEN table' = touched /\ UNCHANGED req
        ELSE IF ~NeedsCheck(sid)
        THEN table' = touched /\ Begin(r, Passes(sid, "admitted"))
        ELSE CASE s.role = "owner"  -> unless(owner = s.user)
               [] s.role = "viewer" -> unless(s.user \in allowlist)
               [] s.role = "mod"    ->
                    IF shortcut(s.user) THEN unless(TRUE)
                    ELSE table' = touched /\ Begin(r, Passes(sid, "modcheck"))
  /\ UNCHANGED <<now, roles, login, disk, past>>

\* is_moderator has answered; a failure admits on the stale check.
is_moderator(r, ok) ==
  /\ req[r] # None /\ req[r].op = "gate" /\ req[r].st = "modcheck"
  /\ IF ok /\ req[r].user \notin mods
     THEN table' = drop_session(req[r].sid) /\ Done(r)
     ELSE /\ table' = Stamp(r, ok)
          /\ req' = [req EXCEPT ![r].st = "admitted", ![r].failed = ~ok]
  /\ UNCHANGED <<now, roles, login, disk, past>>

\* The page behind the gate has answered.
Served(r) ==
  /\ req[r] # None /\ req[r].st = "admitted"
  /\ Done(r)
  /\ UNCHANGED <<now, roles, login, table, disk, past>>

\* The form carries the csrf value of the session it was rendered for.
verify(csrf, sid) == csrf = sid

\* logout; the form carries a csrf value, that of this session or not.
logout(r, sid, csrf) ==
  /\ req[r] = None /\ sid \in issued
  /\ IF Live(sid) /\ verify(csrf, sid)
     THEN /\ table' = drop_session(sid)
          /\ Begin(r, Saves("logout", sid))
     ELSE table' = get_and_touch(sid) /\ UNCHANGED req
  /\ UNCHANGED <<now, roles, login, disk, past>>

BeginPersist(r) ==
  /\ req[r] # None /\ req[r].st = "persist"
  /\ persist(r) /\ Go(r, "write")
  /\ UNCHANGED <<now, roles, login, table, sessions_file, gone, past>>

\* The end of callback and logout: the cookies are issued or removed.
Respond(r, ok) ==
  /\ req[r] # None /\ req[r].st = "write"
  /\ Written(r, ok)
  /\ IF req[r].op = "callback"
     THEN AnswerCallback(r) /\ issued' = issued \cup {req[r].sid} /\ UNCHANGED gone
     ELSE /\ Done(r) /\ UNCHANGED <<oauth_state, issued>>
          /\ gone' = IF ok THEN gone \cup {req[r].sid} ELSE gone
  /\ UNCHANGED <<now, roles, attempts, table, past>>

\* The snapshot task, every 300 s.
BeginSnapshot ==
  /\ persist("tick")
  /\ UNCHANGED <<now, roles, login, table, sessions_file, gone, req, past>>

EndSnapshot(ok) ==
  /\ snap["tick"] # None
  /\ Written("tick", ok)
  /\ UNCHANGED <<now, roles, login, table, gone, req, past>>

-----------------------------------------------------------------------------
(* The world around it *)

\* The last time u was entitled to the role.
LastEntitled(u, role) == IF Entitled(u, role) THEN now ELSE last[u][role]
Remember == last' = [u \in Users |-> [role \in Roles |-> LastEntitled(u, role)]]

\* MaxCall bounds the model, the code bounds no call.
Tick ==
  /\ now < MaxTime
  /\ \A r \in Browsers :
       req[r] # None /\ req[r].st \in {"exchange", "modcheck"} => now - req[r].at < MaxCall
  /\ now' = now + 1 /\ Remember
  /\ UNCHANGED <<roles, login, table, disk, req, process_start, starts>>

\* Twitch changes the moderators, the dashboard or an edit of the file the settings.
Change ==
  /\ changes < MaxChanges /\ changes' = changes + 1
  /\ Remember
  /\ \/ mods' \in SUBSET Users /\ UNCHANGED <<hidden, allowlist, web>>
     \/ hidden' \in SUBSET Users /\ UNCHANGED <<mods, allowlist, web>>
     \/ allowlist' \in SUBSET Users /\ UNCHANGED <<mods, hidden, web>>
     \/ web' \in WebSettings /\ UNCHANGED <<mods, hidden, allowlist>>
  /\ UNCHANGED <<now, owner, login, table, disk, req, process_start, starts>>

\* The process ends at any point and starts again; a session file it cannot
\* parse is an empty one, and config.toml may name another owner.
Restart(readable) ==
  /\ starts < MaxStarts /\ starts' = starts + 1
  /\ process_start' = now /\ Remember
  /\ owner' \in Users \cup {None}
  /\ table' = IF readable THEN load(sessions_file) ELSE NoSessions
  /\ req' = [r \in Browsers |-> None]
  /\ snap' = [w \in Persisters |-> None]
  /\ UNCHANGED <<now, web, mods, hidden, allowlist, changes, login, sessions_file, gone>>

Next ==
  \/ auth_start
  \/ \E r \in Browsers :
       \/ \E u \in Users : callback(r, u)
       \/ \E ok \in TokenAnswers : exchange_code(r, ok)
       \/ \E ok \in BOOLEAN : user_moderates_channel(r, ok)
                              \/ is_moderator(r, ok) \/ Respond(r, ok)
       \/ \E sid \in Sids : \/ \E min \in build_router : require_role(r, sid, min)
                            \/ \E csrf \in Sids \cup {None} : logout(r, sid, csrf)
       \/ BeginPersist(r) \/ Served(r)
  \/ BeginSnapshot
  \/ \E ok \in BOOLEAN : EndSnapshot(ok) \/ Restart(ok)
  \/ Tick \/ Change

Spec == Init /\ [][Next]_vars

-----------------------------------------------------------------------------
(* Who is admitted was entitled to the role of the session at some time    *)
(* since the refresh interval before the gate began, less the length of a  *)
(* call to Twitch, and since the process started, whatever was cached,     *)
(* restored or checked by another request meanwhile; only a request whose  *)
(* own check Twitch failed is let through.                                 *)
RolesAreFresh ==
  \A r \in Browsers :
    req[r] # None /\ req[r].st = "admitted" /\ ~req[r].failed =>
      /\ LastEntitled(req[r].user, req[r].role) >= req[r].at - req[r].refresh - MaxCall
      /\ LastEntitled(req[r].user, req[r].role) >= process_start

(* A session whose logout was answered and saved is never again in the     *)
(* table, not after a snapshot that was under way nor after a restart.     *)
LoggedOutStaysOut == \A s \in gone : table[s] = None

=============================================================================
