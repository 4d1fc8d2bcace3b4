------------------------------- MODULE Accounts -------------------------------
(* Users, sessions and settings (cmd/web/users.go, settings.go, middlewares.go).
   A request carries its browser's session cookie; authenticate looks the cookie's
   user up, the next middlewares admit the request or turn it away, and the
   handler runs one or two statements. Everything may happen between two
   statements, and a session changes only when its answer arrives: the cookie is
   the whole session. User names are left out: a login names a user. Two history
   variables say which requests others have overtaken; nothing depends on them. *)
EXTENDS Naturals, Sequences

CONSTANTS
    Users,      \* the UUIDs that may be drawn, none twice
    Browsers,
    Requests,   \* slots for requests in progress
    Passwords, Blank, \* what a form's password may be; Blank: left empty
    Values,     \* what a settings form may hold
    Nobody,     \* a session without userID
    Keep,       \* an answer that does not set the cookie
    Never, Deleted, \* no row: not yet, or no longer
    None,
    MaxRequests, MaxFaults

Row == [password : Passwords, admin : BOOLEAN]

ASSUME NamesAssumption ==
    /\ Nobody \notin Users /\ Keep \notin Users \cup {Nobody}
    /\ Blank \notin Passwords
    /\ {Never, Deleted, None} \cap Row = {} /\ Never # Deleted
ASSUME FormsAssumption == Users # {} /\ Values # {}
ASSUME BoundsAssumption == {MaxRequests, MaxFaults} \subseteq Nat

VARIABLES
    users,     \* the users table
    settings,  \* the rows of the settings table
    cookie,    \* for each browser, the userID in its session
    req,       \* for each slot, the request and where its handler is
    sent, faults,
    crossed,   \* edits that read a row which another edit has written since
    outdated   \* requests whose browser's session has changed since they were sent

history == <<crossed, outdated>>
vars == <<users, settings, cookie, req, sent, faults, history>>

-------------------------------------------------------------------------------
\* The pages of administrators.
AdminOps == {"add", "edit", "delete", "save"}
Ops == {"login", "logout", "page"} \cup AdminOps

\* browser, who: where it came from and the userID in its session; user, form:
\* what it asks; seen: exists: what its handler read; sets, ok: its answer.
Asked ==
    [op : Ops, browser : Browsers, user : Users,
     form : [password : Passwords \cup {Blank}, admin : BOOLEAN, value : Values]]

RequestTypes ==
    [at : {"auth", "read", "write", "answer"}, asked : Asked, who : Users \cup {Nobody},
     seen : Row \cup {None}, exists : BOOLEAN, sets : Users \cup {Nobody, Keep}, ok : BOOLEAN]

ASSUME NoneAssumption == None \notin RequestTypes

Under(r) == req[r] # None
At(r, place, op) == Under(r) /\ req[r].at = place /\ req[r].asked.op = op

TypeOK ==
    /\ users \in [Users -> Row \cup {Never, Deleted}]
    /\ settings \in Seq(Values)
    /\ cookie \in [Browsers -> Users \cup {Nobody}]
    /\ req \in [Requests -> RequestTypes \cup {None}]
    /\ \A r \in Requests : At(r, "write", "edit") => req[r].seen \in Row
    /\ sent \in 0..MaxRequests /\ faults \in 0..MaxFaults
    /\ crossed \subseteq Requests /\ outdated \subseteq Requests

-------------------------------------------------------------------------------
(* A request is sent and authenticated. *)

\* A user that is added is drawn anew, others are known from the pages.
Sensible(asked) ==
    /\ asked.op \in {"edit", "delete", "login"} => users[asked.user] # Never
    /\ asked.op = "add" =>
        /\ users[asked.user] = Never
        /\ \A q \in Requests : Under(q) => ~(req[q].asked.op = "add" /\ req[q].asked.user = asked.user)

\* The forms of each page.
Request(b, op, users1, passwords, admins, values) ==
    {[op |-> op, browser |-> b, user |-> u, form |-> [password |-> p, admin |-> d, value |-> v]] :
        u \in users1, p \in passwords, d \in admins, v \in values}

Forms(b) ==
    LET user == {CHOOSE u \in Users : TRUE}
        value == {CHOOSE v \in Values : TRUE}
    IN  UNION {Request(b, "login", Users, Passwords, {FALSE}, value),
               Request(b, "add", Users, Passwords, BOOLEAN, value),
               Request(b, "edit", Users, Passwords \cup {Blank}, BOOLEAN, value),
               Request(b, "delete", Users, {Blank}, {FALSE}, value),
               Request(b, "save", user, {Blank}, {FALSE}, Values),
               Request(b, "page", user, {Blank}, {FALSE}, value),
               Request(b, "logout", user, {Blank}, {FALSE}, value)}

Send(r, asked) ==
    /\ ~Under(r) /\ sent < MaxRequests
    /\ Sensible(asked)
    /\ req' = [req EXCEPT ![r] = [at |-> "auth", asked |-> asked, who |-> cookie[asked.browser],
                                  seen |-> None, exists |-> FALSE, sets |-> Keep, ok |-> FALSE]]
    /\ sent' = sent + 1
    /\ UNCHANGED <<users, settings, cookie, faults, history>>

Found(r) == req[r].who # Nobody /\ users[req[r].who] \in Row
IsAdmin(r) == Found(r) /\ users[req[r].who].admin

\* Where the handler of an admitted request begins.
Begins(op) ==
    CASE op \in {"login", "edit", "save"} -> "read"
      [] op \in {"add", "delete"} -> "write"
      [] OTHER -> "answer"

Admits(r) ==
    CASE req[r].asked.op = "login" -> ~Found(r)
      [] req[r].asked.op \in AdminOps -> IsAdmin(r)
      [] OTHER -> Found(r)

Answers(r, ok, sets) == req' = [req EXCEPT ![r].at = "answer", ![r].ok = ok, ![r].sets = sets]

\* authenticate reads the user's row, and the route's middlewares let the
\* request through. A logout has nothing left to do but to save the session.
Admit(r) ==
    /\ Under(r) /\ req[r].at = "auth" /\ Admits(r)
    /\ LET op == req[r].asked.op
       IN  IF Begins(op) = "answer" THEN Answers(r, TRUE, IF op = "logout" THEN Nobody ELSE Keep)
           ELSE req' = [req EXCEPT ![r].at = Begins(op)]
    /\ UNCHANGED <<users, settings, cookie, sent, faults, history>>

\* A faulty variant, for the mutants of PROJECT.json: a new session is begun.
TurnAwayAfresh(r) ==
    /\ Under(r) /\ req[r].at = "auth" /\ ~Admits(r)
    /\ Answers(r, FALSE, IF req[r].asked.op = "login" THEN Keep ELSE Nobody)
    /\ UNCHANGED <<users, settings, cookie, sent, faults, history>>

\* Without a user requireAuthenticatedUser saves the session it got, with the
\* page to come back to; the routes of the edit page do not have it.
TurnAway(r) ==
    /\ Under(r) /\ req[r].at = "auth" /\ ~Admits(r)
    /\ Answers(r, FALSE, IF Found(r) \/ req[r].asked.op \in {"login", "edit"} THEN Keep
                         ELSE req[r].who)
    /\ UNCHANGED <<users, settings, cookie, sent, faults, history>>

-------------------------------------------------------------------------------
(* The handlers. *)

\* login: the row by name, the password compared, the session saved.
LoginUser(r) ==
    /\ At(r, "read", "login")
    /\ LET user == req[r].asked.user
           matches == users[user] \in Row /\ users[user].password = req[r].asked.form.password
       IN  Answers(r, matches, IF matches THEN user ELSE Keep)
    /\ UNCHANGED <<users, settings, cookie, sent, faults, history>>

CreateNewUser(r) ==
    /\ At(r, "write", "add")
    /\ LET form == req[r].asked.form
       IN  users' = [users EXCEPT ![req[r].asked.user] =
                        [password |-> form.password, admin |-> form.admin]]
    /\ Answers(r, TRUE, Keep)
    /\ UNCHANGED <<settings, cookie, sent, faults, history>>

\* A row that is not there is no error.
DeleteUser(r) ==
    /\ At(r, "write", "delete")
    /\ users' = [users EXCEPT ![req[r].asked.user] = Deleted]
    /\ Answers(r, TRUE, Keep)
    /\ UNCHANGED <<settings, cookie, sent, faults, history>>

\* updateUser reads the row ...
ReadUser(r) ==
    /\ At(r, "read", "edit")
    /\ LET row == users[req[r].asked.user]
       IN  IF row \in Row THEN req' = [req EXCEPT ![r].at = "write", ![r].seen = row]
           ELSE Answers(r, FALSE, Keep)
    /\ UNCHANGED <<users, settings, cookie, sent, faults, history>>

\* A faulty variant: the password that stays is the editor's own.
EditedOfSelf(r) ==
    LET form == req[r].asked.form
    IN  [password |-> IF form.password # Blank THEN form.password
                      ELSE IF Found(r) THEN users[req[r].who].password
                      ELSE req[r].seen.password,
         admin |-> form.admin]

Edited(r) ==
    LET form == req[r].asked.form
    IN  [password |-> IF form.password = Blank THEN req[r].seen.password ELSE form.password,
         admin |-> form.admin]

EditsCrossed(r) ==
    {q \in Requests \ {r} : At(q, "write", "edit") /\ req[q].asked.user = req[r].asked.user}

\* A faulty variant: the statement is an upsert.
UpdateUserUpserts(r) ==
    /\ At(r, "write", "edit")
    /\ users' = [users EXCEPT ![req[r].asked.user] = Edited(r)]
    /\ Answers(r, TRUE, Keep)
    /\ crossed' = crossed \cup EditsCrossed(r)
    /\ UNCHANGED <<settings, cookie, sent, faults, outdated>>

\* ... and writes the whole of it; with the row gone that is no error.
UpdateUser(r) ==
    /\ At(r, "write", "edit")
    /\ users' = [users EXCEPT ![req[r].asked.user] = IF @ \in Row THEN Edited(r) ELSE @]
    /\ Answers(r, TRUE, Keep)
    /\ crossed' = crossed \cup EditsCrossed(r)
    /\ UNCHANGED <<settings, cookie, sent, faults, outdated>>

\* settingPage
CheckSettingsExist(r) ==
    /\ At(r, "read", "save")
    /\ req' = [req EXCEPT ![r].at = "write", ![r].exists = (settings # <<>>)]
    /\ UNCHANGED <<users, settings, cookie, sent, faults, history>>

\* Faulty variant: the statement has no WHERE.
InsertSettingsAnyway(r) ==
    /\ At(r, "write", "save") /\ ~req[r].exists
    /\ settings' = Append(settings, req[r].asked.form.value)
    /\ Answers(r, TRUE, Keep)
    /\ UNCHANGED <<users, cookie, sent, faults, history>>

\* INSERT ... WHERE NOT EXISTS ... RETURNING: refused, it returns no row, which
\* the handler answers as an error.
InsertSettings(r) ==
    /\ At(r, "write", "save") /\ ~req[r].exists
    /\ settings' = IF settings = <<>> THEN <<req[r].asked.form.value>> ELSE settings
    /\ Answers(r, settings = <<>>, Keep)
    /\ UNCHANGED <<users, cookie, sent, faults, history>>

UpdateSettings(r) ==
    /\ At(r, "write", "save") /\ req[r].exists
    /\ settings' = [i \in DOMAIN settings |-> req[r].asked.form.value]
    /\ Answers(r, TRUE, Keep)
    /\ UNCHANGED <<users, cookie, sent, faults, history>>

-------------------------------------------------------------------------------
\* A statement fails, or its context has ended: an error page.
StatementFails(r) ==
    /\ Under(r) /\ req[r].at # "answer" /\ faults < MaxFaults
    /\ req[r].at = "auth" => req[r].who # Nobody
    /\ Answers(r, FALSE, Keep)
    /\ faults' = faults + 1
    /\ UNCHANGED <<users, settings, cookie, sent, history>>

Changes(b) == cookie'[b] # cookie[b]

\* The answer reaches the browser, with the session as its request got it but
\* for what the handler set.
Answered(r) ==
    /\ Under(r) /\ req[r].at = "answer"
    /\ cookie' = IF req[r].sets = Keep THEN cookie
                 ELSE [cookie EXCEPT ![req[r].asked.browser] = req[r].sets]
    /\ req' = [req EXCEPT ![r] = None]
    /\ crossed' = crossed \ {r}
    /\ outdated' = (outdated \cup {q \in Requests : Under(q) /\ Changes(req[q].asked.browser)}) \ {r}
    /\ UNCHANGED <<users, settings, sent, faults>>

\* The process ends and starts again, with or without -create-default-user: a
\* further administrator each time, named as the one before.
Restart(u) ==
    /\ faults < MaxFaults /\ faults' = faults + 1
    /\ req' = [r \in Requests |-> None]
    /\ \/ UNCHANGED users
       \/ /\ users[u] = Never
          /\ \E p \in Passwords : users' = [users EXCEPT ![u] = [password |-> p, admin |-> TRUE]]
    /\ crossed' = {} /\ outdated' = {}
    /\ UNCHANGED <<settings, cookie, sent>>

-------------------------------------------------------------------------------
\* The first start made one administrator.
Init ==
    /\ \E first \in Users, p \in Passwords :
        users = [u \in Users |-> IF u = first THEN [password |-> p, admin |-> TRUE] ELSE Never]
    /\ settings = <<>>
    /\ cookie = [b \in Browsers |-> Nobody]
    /\ req = [r \in Requests |-> None]
    /\ sent = 0 /\ faults = 0
    /\ crossed = {} /\ outdated = {}

Next ==
    \/ \E r \in Requests :
        \/ \E b \in Browsers : \E asked \in Forms(b) : Send(r, asked)
        \/ Admit(r) \/ TurnAway(r) \/ LoginUser(r)
        \/ CreateNewUser(r) \/ DeleteUser(r) \/ ReadUser(r) \/ UpdateUser(r)
        \/ CheckSettingsExist(r) \/ InsertSettings(r) \/ UpdateSettings(r)
        \/ StatementFails(r) \/ Answered(r)
    \/ \E u \in Users : Restart(u)

Spec == Init /\ [][Next]_vars

-------------------------------------------------------------------------------
\* A user's password changes only to one that an edit of that user asked for. An
\* edit that leaves the field empty changes none, a demotion or a renaming beside
\* it, except that it writes back the hash it had read over the one of an edit
\* that came between (users.go:215-267).
PasswordsAsAsked ==
    [][\A u \in Users : users[u] \in Row /\ users'[u] \in Row /\ users'[u].password # users[u].password =>
        \E r \in Requests :
            /\ At(r, "write", "edit") /\ req[r].asked.user = u
            /\ \/ req[r].asked.form.password = users'[u].password
               \/ r \in crossed /\ req[r].seen.password = users'[u].password]_vars

\* A user who was deleted stays so, whatever edits had read the row before
\* (users.go:215, 262).
DeletedUsersStay == [][\A u \in Users : users[u] = Deleted => users'[u] = Deleted]_vars

\* A browser's session changes by the answers of a login and a logout only:
\* neither a page it may not see nor a failing statement ends it. But each of
\* these answers may carry the whole session, so that one which was asked before
\* such a change and comes after it brings back the session it was asked with,
\* and never another's (middlewares.go:118-172, users.go:141-182).
SessionsFollowLogins ==
    [][\A b \in Browsers : Changes(b) =>
        \E r \in Requests :
            /\ Under(r) /\ req[r].at = "answer" /\ req[r].asked.browser = b
            /\ \/ req[r].asked.op \in {"login", "logout"} /\ req[r].ok
               \/ r \in outdated /\ cookie'[b] = req[r].who]_vars

\* Two saves that both found no settings do not both store theirs
\* (settings.go:15, 72).
OneSettings == Len(settings) <= 1

\* Nor are both answered as saved: the later one is told (settings.go:78).
FirstSaveOnce ==
    \A p, q \in Requests :
        p # q /\ At(p, "answer", "save") /\ At(q, "answer", "save") /\ req[p].ok /\ req[q].ok
            => req[p].exists \/ req[q].exists
===============================================================================
