---------------------------- MODULE AccountsProofs ----------------------------
(* Theorems about Accounts: for any users, browsers, passwords and number of
   requests in progress. *)
EXTENDS Accounts, SequenceTheorems, TLAPS

\* What the handler of a request does before its answer arrives.
Handles(r) ==
    \/ Admit(r) \/ TurnAway(r) \/ LoginUser(r)
    \/ CreateNewUser(r) \/ DeleteUser(r) \/ ReadUser(r) \/ UpdateUser(r)
    \/ CheckSettingsExist(r) \/ InsertSettings(r) \/ UpdateSettings(r)
    \/ StatementFails(r)

\* A request that goes on remains the request it was, and the others are not
\* touched.
GoesOn(r) ==
    /\ Under(r)
    /\ req' \in [Requests -> RequestTypes \cup {None}]
    /\ req'[r] \in RequestTypes
    /\ req'[r].asked = req[r].asked /\ req'[r].who = req[r].who
    /\ \A q \in Requests \ {r} : req'[q] = req[q]

-------------------------------------------------------------------------------
LEMMA Typed ==
    ASSUME TypeOK, NEW r \in Requests, Under(r)
    PROVE  /\ req[r] \in RequestTypes
           /\ req[r].asked \in Asked /\ req[r].asked.op \in Ops
           /\ req[r].asked.browser \in Browsers /\ req[r].asked.user \in Users
           /\ req[r].asked.form \in [password : Passwords \cup {Blank}, admin : BOOLEAN, value : Values]
           /\ req[r].who \in Users \cup {Nobody}
<1>1. req[r] \in RequestTypes
  BY DEF TypeOK, Under
<1>2. req[r].asked \in Asked /\ req[r].who \in Users \cup {Nobody}
  BY <1>1 DEF RequestTypes
<1>3. QED BY <1>1, <1>2 DEF Asked

LEMMA AnswersGoesOn ==
    ASSUME TypeOK, NEW r \in Requests, Under(r),
           NEW ok \in BOOLEAN, NEW sets \in Users \cup {Nobody, Keep}, Answers(r, ok, sets)
    PROVE  /\ GoesOn(r)
           /\ req'[r].at = "answer" /\ req'[r].ok = ok /\ req'[r].sets = sets
           /\ req'[r].exists = req[r].exists
<1>1. req[r] \in RequestTypes
  BY Typed
<1>2. req'[r] = [[[req[r] EXCEPT !.at = "answer"] EXCEPT !.ok = ok] EXCEPT !.sets = sets]
  BY DEF TypeOK, Answers
<1>3. /\ req'[r] \in RequestTypes
      /\ req'[r].asked = req[r].asked /\ req'[r].who = req[r].who
      /\ req'[r].at = "answer" /\ req'[r].ok = ok /\ req'[r].sets = sets
      /\ req'[r].exists = req[r].exists
  BY <1>1, <1>2 DEF RequestTypes
<1>4. \A q \in Requests \ {r} : req'[q] = req[q]
  BY DEF TypeOK, Answers
<1>5. req' \in [Requests -> RequestTypes \cup {None}]
  BY <1>3 DEF TypeOK, Answers
<1>6. QED BY <1>3, <1>4, <1>5 DEF GoesOn

\* What an answer sets, and what a handler holds.
Holds(r) ==
    /\ req'[r].at = "answer" =>
        \/ req[r].asked.op \in {"login", "logout"} /\ req'[r].ok
        \/ req'[r].sets \in {Keep, req[r].who}
    /\ req'[r].at = "write" /\ req[r].asked.op = "edit" =>
        req'[r].seen \in Row /\ req'[r].seen = users[req[r].asked.user]
    /\ req'[r].at = "answer" /\ req[r].asked.op = "save" /\ req'[r].ok /\ ~req'[r].exists =>
        settings = <<>> /\ settings' # <<>>

LEMMA MovesGoOn ==
    ASSUME TypeOK, NEW r \in Requests, Under(r), NEW new \in RequestTypes,
           req' = [req EXCEPT ![r] = new],
           new.asked = req[r].asked, new.who = req[r].who
    PROVE  GoesOn(r) /\ req'[r] = new
BY DEF TypeOK, GoesOn

LEMMA HandlerSteps ==
    ASSUME TypeOK, NEW r \in Requests, Handles(r)
    PROVE  GoesOn(r) /\ Holds(r) /\ req[r].at # "answer" /\ cookie' = cookie
<1> USE DEF At, Holds
<1>0. Under(r) /\ req[r].at # "answer" /\ cookie' = cookie
  BY DEF Handles, Admit, TurnAway, LoginUser, CreateNewUser, DeleteUser, ReadUser, UpdateUser,
         CheckSettingsExist, InsertSettings, UpdateSettings, StatementFails
<1>a. /\ req[r] \in RequestTypes
      /\ req[r].asked.op \in Ops /\ req[r].asked.user \in Users
      /\ req[r].who \in Users \cup {Nobody}
  BY <1>0, Typed
<1>1. CASE Admit(r)
  <2>1. CASE Begins(req[r].asked.op) = "answer"
    <3>1. req[r].asked.op \in {"logout", "page"}
      BY <1>a, <2>1 DEF Begins, Ops, AdminOps
    <3>2. Answers(r, TRUE, IF req[r].asked.op = "logout" THEN Nobody ELSE Keep)
      BY <1>1, <2>1 DEF Admit
    <3>3. CASE req[r].asked.op = "logout"
      BY <1>0, <3>2, <3>3, AnswersGoesOn
    <3>4. CASE req[r].asked.op = "page"
      BY <1>0, <3>2, <3>4, AnswersGoesOn
    <3>5. QED BY <3>1, <3>3, <3>4
  <2>2. CASE Begins(req[r].asked.op) # "answer"
    <3> DEFINE new == [req[r] EXCEPT !.at = Begins(req[r].asked.op)]
    <3>1. req' = [req EXCEPT ![r] = new]
      BY <1>1, <2>2 DEF Admit
    <3>2. /\ Begins(req[r].asked.op) \in {"read", "write"}
          /\ req[r].asked.op = "edit" => Begins(req[r].asked.op) = "read"
      BY <1>a, <2>2 DEF Begins, Ops, AdminOps
    <3>3. /\ new \in RequestTypes /\ new.asked = req[r].asked /\ new.who = req[r].who
          /\ new.at = Begins(req[r].asked.op)
      BY <1>a, <3>2 DEF RequestTypes
    <3>4. GoesOn(r) /\ req'[r] = new
      BY <1>0, <3>1, <3>3, MovesGoOn
    <3>5. QED BY <1>0, <3>2, <3>3, <3>4
  <2>3. QED BY <2>1, <2>2
<1>2. CASE TurnAway(r)
  <2>1. CASE Found(r) \/ req[r].asked.op \in {"login", "edit"}
    <3>1. Answers(r, FALSE, Keep)
      BY <1>2, <2>1 DEF TurnAway
    <3>2. QED BY <1>0, <3>1, AnswersGoesOn
  <2>2. CASE ~(Found(r) \/ req[r].asked.op \in {"login", "edit"})
    <3>1. Answers(r, FALSE, req[r].who)
      BY <1>2, <2>2 DEF TurnAway
    <3>2. QED BY <1>0, <1>a, <3>1, AnswersGoesOn
  <2>3. QED BY <2>1, <2>2
<1>3. CASE LoginUser(r)
  <2> DEFINE user == req[r].asked.user
             matches == users[user] \in Row /\ users[user].password = req[r].asked.form.password
  <2>1. Answers(r, matches, IF matches THEN user ELSE Keep) /\ req[r].asked.op = "login"
    BY <1>3 DEF LoginUser
  <2>2. CASE matches
    <3>1. Answers(r, TRUE, user)
      BY <2>1, <2>2 DEF Answers
    <3>2. QED BY <1>0, <1>a, <2>1, <3>1, AnswersGoesOn
  <2>3. CASE ~matches
    <3>1. Answers(r, FALSE, Keep)
      BY <2>1, <2>3 DEF Answers
    <3>2. QED BY <1>0, <2>1, <3>1, AnswersGoesOn
  <2>4. QED BY <2>2, <2>3
<1>4. CASE CreateNewUser(r) \/ DeleteUser(r) \/ UpdateUser(r) \/ UpdateSettings(r)
  <2>1. /\ Answers(r, TRUE, Keep)
        /\ req[r].asked.op = "save" => req[r].exists
    BY <1>4 DEF CreateNewUser, DeleteUser, UpdateUser, UpdateSettings
  <2>2. QED BY <1>0, <2>1, AnswersGoesOn
<1>5. CASE ReadUser(r)
  <2> DEFINE row == users[req[r].asked.user]
             new == [[req[r] EXCEPT !.at = "write"] EXCEPT !.seen = row]
  <2>1. CASE row \in Row
    <3>1. req' = [req EXCEPT ![r] = new]
      BY <1>5, <2>1 DEF ReadUser
    <3>2. /\ new \in RequestTypes /\ new.asked = req[r].asked /\ new.who = req[r].who
          /\ new.at = "write" /\ new.seen = row
      BY <1>a, <2>1 DEF RequestTypes
    <3>3. GoesOn(r) /\ req'[r] = new
      BY <1>0, <3>1, <3>2, MovesGoOn
    <3>4. QED BY <1>0, <2>1, <3>2, <3>3
  <2>2. CASE row \notin Row
    <3>1. Answers(r, FALSE, Keep)
      BY <1>5, <2>2 DEF ReadUser
    <3>2. QED BY <1>0, <3>1, AnswersGoesOn
  <2>3. QED BY <2>1, <2>2
<1>6. CASE CheckSettingsExist(r)
  <2> DEFINE new == [[req[r] EXCEPT !.at = "write"] EXCEPT !.exists = (settings # <<>>)]
  <2>1. req' = [req EXCEPT ![r] = new] /\ req[r].asked.op = "save"
    BY <1>6 DEF CheckSettingsExist
  <2>2. /\ new \in RequestTypes /\ new.asked = req[r].asked /\ new.who = req[r].who
        /\ new.at = "write"
    BY <1>a DEF RequestTypes
  <2>3. GoesOn(r) /\ req'[r] = new
    BY <1>0, <2>1, <2>2, MovesGoOn
  <2>4. QED BY <1>0, <2>1, <2>2, <2>3
<1>7. CASE InsertSettings(r)
  <2>1. CASE settings = <<>>
    <3>1. Answers(r, TRUE, Keep) /\ settings' = <<req[r].asked.form.value>>
      BY <1>7, <2>1 DEF InsertSettings, Answers
    <3>2. <<req[r].asked.form.value>> # <<>>
      OBVIOUS
    <3>3. QED BY <1>0, <2>1, <3>1, <3>2, AnswersGoesOn
  <2>2. CASE settings # <<>>
    <3>1. Answers(r, FALSE, Keep)
      BY <1>7, <2>2 DEF InsertSettings, Answers
    <3>2. QED BY <1>0, <3>1, AnswersGoesOn
  <2>3. QED BY <2>1, <2>2
<1>8. CASE StatementFails(r)
  <2>1. Answers(r, FALSE, Keep)
    BY <1>8 DEF StatementFails
  <2>2. QED BY <1>0, <2>1, AnswersGoesOn
<1>9. QED BY <1>1, <1>2, <1>3, <1>4, <1>5, <1>6, <1>7, <1>8 DEF Handles

-------------------------------------------------------------------------------
\* Of two requests that add a user, and of users known before, none meet.
AddsAreNew ==
    \A r \in Requests : Under(r) /\ req[r].asked.op = "add" =>
        /\ req[r].asked.form.password \in Passwords
        /\ req[r].at # "answer" => users[req[r].asked.user] = Never
        /\ \A q \in Requests :
            Under(q) /\ req[q].asked.op = "add" /\ req[q].asked.user = req[r].asked.user => q = r

KnownUsers ==
    \A r \in Requests :
        Under(r) /\ req[r].asked.op \in {"edit", "delete", "login"} => users[req[r].asked.user] # Never

\* A first save that was answered as saved has stored something.
SavedIsThere ==
    \A r \in Requests :
        At(r, "answer", "save") /\ req[r].ok /\ ~req[r].exists => settings # <<>>

Sound == TypeOK /\ AddsAreNew /\ KnownUsers /\ OneSettings /\ SavedIsThere /\ FirstSaveOnce

\* What a handler does to the users table.
LEMMA UsersSteps ==
    ASSUME Sound, NEW r \in Requests, Handles(r)
    PROVE  \/ users' = users
           \/ /\ req[r].asked.op = "add" /\ users[req[r].asked.user] = Never
              /\ \E row \in Row : users' = [users EXCEPT ![req[r].asked.user] = row]
              /\ req'[r].at = "answer"
           \/ /\ req[r].asked.op = "delete"
              /\ users' = [users EXCEPT ![req[r].asked.user] = Deleted]
           \/ /\ At(r, "write", "edit")
              /\ users[req[r].asked.user] \in Row /\ Edited(r) \in Row
              /\ users' = [users EXCEPT ![req[r].asked.user] = Edited(r)]
<1>0. TypeOK /\ Under(r)
  BY HandlerSteps DEF Sound, GoesOn
<1>a. /\ req[r] \in RequestTypes /\ req[r].asked.user \in Users
      /\ req[r].asked.form \in [password : Passwords \cup {Blank}, admin : BOOLEAN, value : Values]
  BY <1>0, Typed
<1>1. CASE CreateNewUser(r)
  <2> DEFINE row == [password |-> req[r].asked.form.password, admin |-> req[r].asked.form.admin]
  <2>1. req[r].asked.op = "add" /\ req[r].at = "write" /\ Under(r)
    BY <1>1 DEF CreateNewUser, At
  <2>2. req[r].asked.form.password \in Passwords /\ users[req[r].asked.user] = Never
    BY <2>1 DEF Sound, AddsAreNew
  <2>3. row \in Row
    BY <1>a, <2>2 DEF Row
  <2>4. users' = [users EXCEPT ![req[r].asked.user] = row]
    BY <1>1 DEF CreateNewUser
  <2>5. req'[r].at = "answer"
    BY <1>0, <1>1, AnswersGoesOn DEF CreateNewUser
  <2>6. QED BY <2>1, <2>2, <2>3, <2>4, <2>5
<1>2. CASE DeleteUser(r)
  BY <1>2 DEF DeleteUser, At
<1>3. CASE UpdateUser(r)
  <2>1. At(r, "write", "edit")
    BY <1>3 DEF UpdateUser
  <2>2. CASE users[req[r].asked.user] \in Row
    <3>1. req[r].seen \in Row
      BY <1>0, <2>1 DEF TypeOK
    <3>2. Edited(r) \in Row
      BY <1>a, <3>1 DEF Edited, Row
    <3>3. users' = [users EXCEPT ![req[r].asked.user] = Edited(r)]
      BY <1>3, <2>2 DEF UpdateUser
    <3>4. QED BY <2>1, <2>2, <3>2, <3>3
  <2>3. CASE users[req[r].asked.user] \notin Row
    <3>1. users' = [users EXCEPT ![req[r].asked.user] = @]
      BY <1>3, <2>3 DEF UpdateUser
    <3>2. QED BY <1>0, <3>1 DEF TypeOK
  <2>4. QED BY <2>2, <2>3
<1>4. CASE Admit(r) \/ TurnAway(r) \/ LoginUser(r) \/ ReadUser(r) \/ CheckSettingsExist(r)
           \/ InsertSettings(r) \/ UpdateSettings(r) \/ StatementFails(r)
  BY <1>4 DEF Admit, TurnAway, LoginUser, ReadUser, CheckSettingsExist, InsertSettings,
              UpdateSettings, StatementFails
<1>5. QED BY <1>1, <1>2, <1>3, <1>4 DEF Handles

\* ... and to the settings, and to the bounds.
LEMMA SettingsSteps ==
    ASSUME TypeOK, OneSettings, NEW r \in Requests, Handles(r)
    PROVE  /\ settings' \in Seq(Values) /\ Len(settings') <= 1
           /\ settings # <<>> => settings' # <<>>
<1>0. Under(r) /\ req[r].asked.form.value \in Values
  BY HandlerSteps, Typed DEF GoesOn
<1>1. settings \in Seq(Values) /\ Len(settings) <= 1
  BY DEF TypeOK, OneSettings
<1>2. CASE settings' = settings
  BY <1>1, <1>2
<1>3. CASE InsertSettings(r) /\ settings = <<>>
  <2>1. settings' = <<req[r].asked.form.value>>
    BY <1>3 DEF InsertSettings
  <2>2. QED BY <1>0, <1>3, <2>1
<1>4. CASE UpdateSettings(r)
  <2> DEFINE v == req[r].asked.form.value
  <2>1. settings' = [i \in DOMAIN settings |-> v]
    BY <1>4 DEF UpdateSettings
  <2>2. DOMAIN settings = 1..Len(settings) /\ Len(settings) \in Nat
    BY <1>1
  <2>3. settings' \in Seq(Values) /\ Len(settings') = Len(settings)
    BY <1>0, <2>1, <2>2
  <2>4. QED BY <1>1, <2>3
<1>5. CASE InsertSettings(r) /\ settings # <<>>
  BY <1>1, <1>5 DEF InsertSettings
<1>6. QED
  BY <1>2, <1>3, <1>4, <1>5
  DEF Handles, Admit, TurnAway, LoginUser, CreateNewUser, DeleteUser, ReadUser, UpdateUser,
      CheckSettingsExist, StatementFails

-------------------------------------------------------------------------------
LEMMA FormsTyped ==
    ASSUME NEW b \in Browsers, NEW asked \in Forms(b)
    PROVE  /\ asked \in Asked
           /\ asked.op = "add" => asked.form.password \in Passwords
<1>1. (CHOOSE u \in Users : TRUE) \in Users /\ (CHOOSE v \in Values : TRUE) \in Values
  BY FormsAssumption
<1> DEFINE user == {CHOOSE u \in Users : TRUE}
           value == {CHOOSE v \in Values : TRUE}
<1>2. \/ asked \in Request(b, "login", Users, Passwords, {FALSE}, value)
      \/ asked \in Request(b, "add", Users, Passwords, BOOLEAN, value)
      \/ asked \in Request(b, "edit", Users, Passwords \cup {Blank}, BOOLEAN, value)
      \/ asked \in Request(b, "delete", Users, {Blank}, {FALSE}, value)
      \/ asked \in Request(b, "save", user, {Blank}, {FALSE}, Values)
      \/ asked \in Request(b, "page", user, {Blank}, {FALSE}, value)
      \/ asked \in Request(b, "logout", user, {Blank}, {FALSE}, value)
  BY DEF Forms
<1>3. ASSUME NEW op \in Ops, NEW users1 \in SUBSET Users,
             NEW passwords \in SUBSET (Passwords \cup {Blank}), NEW admins \in SUBSET BOOLEAN,
             NEW values \in SUBSET Values,
             op = "add" => passwords = Passwords,
             asked \in Request(b, op, users1, passwords, admins, values)
      PROVE  asked \in Asked /\ (asked.op = "add" => asked.form.password \in Passwords)
  <2>1. PICK u \in users1, p \in passwords, d \in admins, v \in values :
            asked = [op |-> op, browser |-> b, user |-> u,
                     form |-> [password |-> p, admin |-> d, value |-> v]]
    BY <1>3 DEF Request
  <2>2. QED BY <1>3, <2>1 DEF Asked
<1>4. user \subseteq Users /\ value \subseteq Values
  BY <1>1
<1>5. {"login", "add", "edit", "delete", "save", "page", "logout"} \subseteq Ops
  BY DEF Ops, AdminOps
<1> HIDE DEF user, value
<1>6. CASE asked \in Request(b, "login", Users, Passwords, {FALSE}, value)
  BY <1>3, <1>4, <1>5, <1>6
<1>7. CASE asked \in Request(b, "add", Users, Passwords, BOOLEAN, value)
  BY <1>3, <1>4, <1>5, <1>7
<1>8. CASE asked \in Request(b, "edit", Users, Passwords \cup {Blank}, BOOLEAN, value)
  BY <1>3, <1>4, <1>5, <1>8
<1>9. CASE asked \in Request(b, "delete", Users, {Blank}, {FALSE}, value)
  BY <1>3, <1>4, <1>5, <1>9
<1>10. CASE \/ asked \in Request(b, "save", user, {Blank}, {FALSE}, Values)
            \/ asked \in Request(b, "page", user, {Blank}, {FALSE}, value)
            \/ asked \in Request(b, "logout", user, {Blank}, {FALSE}, value)
  BY <1>3, <1>4, <1>5, <1>10
<1>11. QED BY <1>2, <1>6, <1>7, <1>8, <1>9, <1>10

LEMMA SendSteps ==
    ASSUME TypeOK, NEW r \in Requests, NEW b \in Browsers, NEW asked \in Forms(b), Send(r, asked)
    PROVE  /\ ~Under(r) /\ UNCHANGED <<users, settings, cookie>>
           /\ req' \in [Requests -> RequestTypes \cup {None}]
           /\ req'[r].at = "auth" /\ req'[r].asked = asked /\ req'[r].who = cookie[asked.browser]
           /\ \A q \in Requests \ {r} : req'[q] = req[q]
<1> DEFINE new == [at |-> "auth", asked |-> asked, who |-> cookie[asked.browser],
                   seen |-> None, exists |-> FALSE, sets |-> Keep, ok |-> FALSE]
<1>1. asked \in Asked /\ asked.browser \in Browsers
  BY FormsTyped DEF Asked
<1>2. new \in RequestTypes
  BY <1>1 DEF TypeOK, RequestTypes
<1>3. req' = [req EXCEPT ![r] = new]
  BY DEF Send
<1>4. QED BY <1>2, <1>3 DEF TypeOK, Send

LEMMA SendKeepsSound ==
    ASSUME Sound, NEW r \in Requests, NEW b \in Browsers, NEW asked \in Forms(b), Send(r, asked)
    PROVE  Sound'
<1>0. TypeOK
  BY DEF Sound
<1>1. /\ ~Under(r) /\ UNCHANGED <<users, settings, cookie>>
      /\ req' \in [Requests -> RequestTypes \cup {None}]
      /\ req'[r].at = "auth" /\ req'[r].asked = asked
      /\ \A q \in Requests \ {r} : req'[q] = req[q]
  BY <1>0, SendSteps
<1>2. Sensible(asked) /\ sent' = sent + 1 /\ sent < MaxRequests /\ UNCHANGED <<faults, crossed, outdated>>
  BY DEF Send, history
<1>3. TypeOK'
  BY <1>0, <1>1, <1>2, BoundsAssumption DEF TypeOK, At, Under
<1>4. AddsAreNew'
  BY <1>0, <1>1, <1>2, FormsTyped DEF Sound, AddsAreNew, Sensible, Under
<1>5. KnownUsers'
  BY <1>1, <1>2 DEF Sound, KnownUsers, Sensible, Under
<1>6. OneSettings' /\ SavedIsThere' /\ FirstSaveOnce'
  BY <1>1 DEF Sound, OneSettings, SavedIsThere, FirstSaveOnce, At, Under
<1>7. QED BY <1>3, <1>4, <1>5, <1>6 DEF Sound

\* A handler that writes a user's row overtakes the edits that have read it.
LEMMA HistorySteps ==
    ASSUME TypeOK, NEW r \in Requests, Handles(r)
    PROVE  /\ outdated' = outdated /\ crossed \subseteq crossed' /\ crossed' \subseteq Requests
           /\ UpdateUser(r) => EditsCrossed(r) \subseteq crossed'
<1>1. CASE UpdateUser(r)
  BY <1>1 DEF UpdateUser, EditsCrossed, TypeOK
<1>2. CASE ~UpdateUser(r)
  BY <1>2
  DEF Handles, Admit, TurnAway, LoginUser, CreateNewUser, DeleteUser, ReadUser, CheckSettingsExist,
      InsertSettings, UpdateSettings, StatementFails, history, TypeOK
<1>3. QED BY <1>1, <1>2

LEMMA HandlerKeepsSound ==
    ASSUME Sound, NEW r \in Requests, Handles(r)
    PROVE  Sound'
<1>0. TypeOK
  BY DEF Sound
<1>1. GoesOn(r) /\ Holds(r) /\ req[r].at # "answer" /\ cookie' = cookie
  BY <1>0, HandlerSteps
<1>2. /\ Under(r) /\ req[r].asked.user \in Users
      /\ \A q \in Requests : Under(q)' <=> Under(q)
      /\ \A q \in Requests : Under(q) => req'[q].asked = req[q].asked
  BY <1>0, <1>1, NoneAssumption, Typed DEF GoesOn, Under
<1>3. /\ settings' \in Seq(Values) /\ Len(settings') <= 1
      /\ settings # <<>> => settings' # <<>>
  BY <1>0, SettingsSteps DEF Sound
<1>4. sent' = sent /\ faults' \in 0..MaxFaults
  <2>1. faults \in 0..MaxFaults
    BY <1>0 DEF TypeOK
  <2>2. CASE StatementFails(r)
    BY <2>1, <2>2, BoundsAssumption DEF StatementFails
  <2>3. CASE ~StatementFails(r)
    BY <2>1, <2>3
    DEF Handles, Admit, TurnAway, LoginUser, CreateNewUser, DeleteUser, ReadUser, UpdateUser,
        CheckSettingsExist, InsertSettings, UpdateSettings
  <2>4. sent' = sent
    BY DEF Handles, Admit, TurnAway, LoginUser, CreateNewUser, DeleteUser, ReadUser, UpdateUser,
           CheckSettingsExist, InsertSettings, UpdateSettings, StatementFails
  <2>5. QED BY <2>2, <2>3, <2>4
<1>5. /\ users' \in [Users -> Row \cup {Never, Deleted}]
      /\ \A u \in Users : users[u] # Never => users'[u] # Never
      /\ \A u \in Users : users[u] = Never /\ users'[u] # Never =>
            req[r].asked.op = "add" /\ req[r].asked.user = u /\ req'[r].at = "answer"
  <2>1. users \in [Users -> Row \cup {Never, Deleted}] /\ Never \notin Row /\ Never # Deleted
    BY <1>0, NamesAssumption DEF TypeOK
  <2>2. CASE users' = users
    BY <2>1, <2>2
  <2>3. CASE /\ req[r].asked.op = "add" /\ req'[r].at = "answer"
             /\ \E row \in Row : users' = [users EXCEPT ![req[r].asked.user] = row]
    BY <1>2, <2>1, <2>3
  <2>4. CASE req[r].asked.op = "delete" /\ users' = [users EXCEPT ![req[r].asked.user] = Deleted]
    <3>1. users[req[r].asked.user] # Never
      BY <1>2, <2>4 DEF Sound, KnownUsers
    <3>2. QED BY <1>2, <2>1, <2>4, <3>1
  <2>5. CASE /\ users[req[r].asked.user] \in Row /\ Edited(r) \in Row
             /\ users' = [users EXCEPT ![req[r].asked.user] = Edited(r)]
    BY <1>2, <2>1, <2>5
  <2>6. QED BY <2>2, <2>3, <2>4, <2>5, UsersSteps
<1>6. TypeOK'
  <2>1. \A q \in Requests : At(q, "write", "edit")' => req'[q].seen \in Row
    BY <1>0, <1>1, <1>2 DEF TypeOK, At, GoesOn, Holds
  <2>2. cookie' \in [Browsers -> Users \cup {Nobody}] /\ sent' \in 0..MaxRequests
    BY <1>0, <1>1, <1>4 DEF TypeOK
  <2>3. crossed' \subseteq Requests /\ outdated' \subseteq Requests
    BY <1>0, HistorySteps DEF TypeOK
  <2>4. QED BY <1>1, <1>3, <1>4, <1>5, <2>1, <2>2, <2>3 DEF TypeOK, GoesOn
<1>7. AddsAreNew'
  <2> SUFFICES ASSUME NEW q \in Requests, Under(q), req[q].asked.op = "add"
               PROVE  /\ req[q].asked.form.password \in Passwords
                      /\ req'[q].at # "answer" => users'[req[q].asked.user] = Never
                      /\ \A p \in Requests :
                          Under(p) /\ req[p].asked.op = "add" /\ req[p].asked.user = req[q].asked.user
                              => p = q
    BY <1>2 DEF AddsAreNew
  <2>1. req[q].asked.user \in Users
    BY <1>0, Typed
  <2>2. ASSUME req'[q].at # "answer" PROVE req[q].at # "answer"
    BY <1>1, <2>2 DEF GoesOn
  <2>3. ASSUME req'[q].at # "answer" PROVE users'[req[q].asked.user] = Never
    BY <1>2, <1>5, <2>1, <2>2, <2>3 DEF Sound, AddsAreNew
  <2>4. QED BY <2>3 DEF Sound, AddsAreNew
<1>8. KnownUsers'
  BY <1>0, <1>2, <1>5, Typed DEF Sound, KnownUsers
<1>9. OneSettings' /\ SavedIsThere'
  BY <1>1, <1>2, <1>3 DEF Sound, OneSettings, SavedIsThere, At, GoesOn, Holds
<1>10. FirstSaveOnce'
  BY <1>1, <1>2 DEF Sound, FirstSaveOnce, SavedIsThere, At, GoesOn, Holds
<1>11. QED BY <1>6, <1>7, <1>8, <1>9, <1>10 DEF Sound

LEMMA AnsweredSteps ==
    ASSUME TypeOK, NEW r \in Requests, Answered(r)
    PROVE  /\ req' \in [Requests -> RequestTypes \cup {None}] /\ req'[r] = None
           /\ \A q \in Requests \ {r} : req'[q] = req[q]
           /\ \A q \in Requests : Under(q)' => Under(q) /\ req'[q] = req[q] /\ q # r
           /\ UNCHANGED <<users, settings, sent, faults>>
           /\ cookie' \in [Browsers -> Users \cup {Nobody}]
           /\ \A b \in Browsers : cookie'[b] # cookie[b] =>
                req[r].asked.browser = b /\ req[r].sets # Keep /\ cookie'[b] = req[r].sets
           /\ crossed' = crossed \ {r} /\ outdated' \subseteq Requests
           /\ \A q \in Requests \ {r} : q \notin outdated' /\ Under(q) =>
                q \notin outdated /\ cookie'[req[q].asked.browser] = cookie[req[q].asked.browser]
<1>1. Under(r) /\ req' = [req EXCEPT ![r] = None] /\ UNCHANGED <<users, settings, sent, faults>>
  BY DEF Answered
<1>2. req[r].asked.browser \in Browsers /\ req[r].sets \in Users \cup {Nobody, Keep}
  BY <1>1, Typed DEF RequestTypes
<1>3. /\ req' \in [Requests -> RequestTypes \cup {None}] /\ req'[r] = None
      /\ \A q \in Requests \ {r} : req'[q] = req[q]
      /\ \A q \in Requests : Under(q)' => Under(q) /\ req'[q] = req[q] /\ q # r
  BY <1>1 DEF TypeOK, Under
<1>4. /\ cookie' \in [Browsers -> Users \cup {Nobody}]
      /\ \A b \in Browsers : cookie'[b] # cookie[b] =>
            req[r].asked.browser = b /\ req[r].sets # Keep /\ cookie'[b] = req[r].sets
  BY <1>2 DEF Answered, TypeOK
<1>5. /\ crossed' = crossed \ {r}
      /\ outdated' = (outdated \cup {q \in Requests : Under(q) /\ Changes(req[q].asked.browser)}) \ {r}
  BY DEF Answered
<1>6. outdated' \subseteq Requests
  BY <1>5 DEF TypeOK
<1>7. \A q \in Requests \ {r} : q \notin outdated' /\ Under(q) =>
        q \notin outdated /\ cookie'[req[q].asked.browser] = cookie[req[q].asked.browser]
  BY <1>5 DEF Changes
<1>8. QED BY <1>1, <1>3, <1>4, <1>5, <1>6, <1>7

LEMMA AnsweredKeepsSound ==
    ASSUME Sound, NEW r \in Requests, Answered(r)
    PROVE  Sound'
<1>0. TypeOK
  BY DEF Sound
<1>1. /\ req' \in [Requests -> RequestTypes \cup {None}]
      /\ \A q \in Requests : Under(q)' => Under(q) /\ req'[q] = req[q]
      /\ UNCHANGED <<users, settings, sent, faults>>
      /\ cookie' \in [Browsers -> Users \cup {Nobody}]
      /\ crossed' \subseteq Requests /\ outdated' \subseteq Requests
  <2>1. crossed \subseteq Requests
    BY <1>0 DEF TypeOK
  <2>2. QED BY <1>0, <2>1, AnsweredSteps
<1>2. TypeOK'
  BY <1>0, <1>1 DEF TypeOK, At
<1>3. AddsAreNew' /\ KnownUsers'
  BY <1>1 DEF Sound, AddsAreNew, KnownUsers
<1>4. OneSettings' /\ SavedIsThere' /\ FirstSaveOnce'
  BY <1>1 DEF Sound, OneSettings, SavedIsThere, FirstSaveOnce, At
<1>5. QED BY <1>2, <1>3, <1>4 DEF Sound

LEMMA RestartSteps ==
    ASSUME TypeOK, NEW u \in Users, Restart(u)
    PROVE  /\ \A r \in Requests : ~Under(r)'
           /\ UNCHANGED <<settings, cookie>>
           /\ \A v \in Users : users[v] # Never => users'[v] = users[v]
           /\ TypeOK'
<1>1. /\ req' = [r \in Requests |-> None] /\ UNCHANGED <<settings, cookie, sent>>
      /\ faults < MaxFaults /\ faults' = faults + 1 /\ crossed' = {} /\ outdated' = {}
  BY DEF Restart
<1>2. \A r \in Requests : ~Under(r)'
  BY <1>1 DEF Under
<1>3. /\ users' \in [Users -> Row \cup {Never, Deleted}]
      /\ \A v \in Users : users[v] # Never => users'[v] = users[v]
  <2>1. CASE users' = users
    BY <2>1 DEF TypeOK
  <2>2. ASSUME users[u] = Never, NEW p \in Passwords,
               users' = [users EXCEPT ![u] = [password |-> p, admin |-> TRUE]]
        PROVE  /\ users' \in [Users -> Row \cup {Never, Deleted}]
               /\ \A v \in Users : users[v] # Never => users'[v] = users[v]
    <3>1. [password |-> p, admin |-> TRUE] \in Row
      BY DEF Row
    <3>2. QED BY <2>2, <3>1 DEF TypeOK
  <2>3. QED BY <2>1, <2>2 DEF Restart
<1>4. TypeOK'
  BY <1>1, <1>2, <1>3, BoundsAssumption DEF TypeOK, At
<1>5. QED BY <1>1, <1>2, <1>3, <1>4

LEMMA RestartKeepsSound ==
    ASSUME Sound, NEW u \in Users, Restart(u)
    PROVE  Sound'
<1>1. /\ \A r \in Requests : ~Under(r)'
      /\ UNCHANGED settings /\ TypeOK'
  BY RestartSteps DEF Sound
<1>2. QED
  BY <1>1 DEF Sound, AddsAreNew, KnownUsers, OneSettings, SavedIsThere, FirstSaveOnce, At

LEMMA SoundInit == Init => Sound
<1> SUFFICES ASSUME Init PROVE Sound
  OBVIOUS
<1>1. \A r \in Requests : ~Under(r)
  BY DEF Init, Under
<1>2. users \in [Users -> Row \cup {Never, Deleted}]
  <2>1. PICK first \in Users, p \in Passwords :
            users = [u \in Users |-> IF u = first THEN [password |-> p, admin |-> TRUE] ELSE Never]
    BY DEF Init
  <2>2. [password |-> p, admin |-> TRUE] \in Row
    BY DEF Row
  <2>3. QED BY <2>1, <2>2
<1>3. settings = <<>> /\ settings \in Seq(Values) /\ Len(settings) = 0
  BY DEF Init
<1>4. /\ cookie \in [Browsers -> Users \cup {Nobody}]
      /\ req \in [Requests -> RequestTypes \cup {None}]
      /\ sent \in 0..MaxRequests /\ faults \in 0..MaxFaults
      /\ crossed \subseteq Requests /\ outdated \subseteq Requests
  BY BoundsAssumption DEF Init
<1>5. TypeOK
  BY <1>1, <1>2, <1>3, <1>4 DEF TypeOK, At
<1>6. QED
  BY <1>1, <1>3, <1>5
  DEF Sound, AddsAreNew, KnownUsers, OneSettings, SavedIsThere, FirstSaveOnce, At

LEMMA SoundStep == Sound /\ [Next]_vars => Sound'
<1> SUFFICES ASSUME Sound, [Next]_vars PROVE Sound'
  OBVIOUS
<1>1. ASSUME NEW r \in Requests, Handles(r) PROVE Sound'
  BY <1>1, HandlerKeepsSound
<1>2. CASE UNCHANGED vars
  BY <1>2 DEF vars, history, Sound, TypeOK, AddsAreNew, KnownUsers, OneSettings, SavedIsThere, FirstSaveOnce,
              At, Under
<1>3. QED
  BY <1>1, <1>2, SendKeepsSound, AnsweredKeepsSound, RestartKeepsSound DEF Next, Handles

LEMMA AlwaysSound == Spec => []Sound
BY SoundInit, SoundStep, PTL DEF Spec

-------------------------------------------------------------------------------
\* Every reachable state is well typed: an edit writes back a row it has read
\* (users.go:215-267).
THEOREM TypeCorrect == Spec => []TypeOK
<1>1. Sound => TypeOK
  BY DEF Sound
<1>2. QED BY <1>1, AlwaysSound, PTL

\* However many saves overlap, the table of settings has one row at most
\* (settings.go:15, 72).
THEOREM SettingsStayOne == Spec => []OneSettings
<1>1. Sound => OneSettings
  BY DEF Sound
<1>2. QED BY <1>1, AlwaysSound, PTL

\* Of the saves that found no settings one at most is answered as saved
\* (settings.go:78).
THEOREM FirstSavesAreOne == Spec => []FirstSaveOnce
<1>1. Sound => FirstSaveOnce
  BY DEF Sound
<1>2. QED BY <1>1, AlwaysSound, PTL

\* No edit, addition or start brings a deleted user back (users.go:215, 262).
THEOREM DeletedStayDeleted == Spec => DeletedUsersStay
<1>1. Sound /\ [Next]_vars =>
        [\A u \in Users : users[u] = Deleted => users'[u] = Deleted]_vars
  <2> SUFFICES ASSUME Sound, [Next]_vars, NEW u \in Users, users[u] = Deleted
               PROVE  users'[u] = Deleted
    OBVIOUS
  <2>0. Deleted # Never /\ Deleted \notin Row /\ users \in [Users -> Row \cup {Never, Deleted}]
    BY NamesAssumption DEF Sound, TypeOK
  <2>1. ASSUME NEW r \in Requests, Handles(r) PROVE users'[u] = Deleted
    <3>1. req[r].asked.user \in Users
      BY <2>1, HandlerSteps, Typed DEF Sound, GoesOn
    <3>2. QED BY <2>0, <2>1, <3>1, UsersSteps
  <2>2. ASSUME NEW r \in Requests, NEW b \in Browsers, NEW asked \in Forms(b), Send(r, asked)
        PROVE  users' = users
    BY <2>2 DEF Send
  <2>3. ASSUME NEW r \in Requests, Answered(r) PROVE users' = users
    BY <2>3 DEF Answered
  <2>4. UNCHANGED vars => users' = users
    BY DEF vars
  <2>5. ASSUME NEW v \in Users, Restart(v) PROVE users'[u] = Deleted
    BY <2>0, <2>5, RestartSteps DEF Sound
  <2>6. QED BY <2>1, <2>2, <2>3, <2>4, <2>5 DEF Handles, Next
<1>2. QED BY <1>1, AlwaysSound, PTL DEF Spec, DeletedUsersStay

-------------------------------------------------------------------------------
(* Overtaken requests. *)

\* The hash an edit is about to write back is still the user's, unless another
\* edit came between.
SeenStands ==
    \A r \in Requests \ crossed :
        At(r, "write", "edit") /\ users[req[r].asked.user] \in Row =>
            users[req[r].asked.user].password = req[r].seen.password

\* The session a request came with is still its browser's, unless it changed
\* since; an answer that is not a login's or a logout's gives back none but this.
SessionCarried ==
    \A r \in Requests : Under(r) =>
        /\ r \notin outdated => req[r].who = cookie[req[r].asked.browser]
        /\ req[r].at = "answer" =>
            \/ req[r].asked.op \in {"login", "logout"} /\ req[r].ok
            \/ req[r].sets \in {Keep, req[r].who}

Kept == Sound /\ SeenStands /\ SessionCarried

\* The users table changes under an edit by nobody else's edit.
LEMMA PasswordsChange ==
    ASSUME Sound, NEW r \in Requests, Handles(r), NEW u \in Users,
           users[u] \in Row, users'[u] \in Row, users'[u].password # users[u].password
    PROVE  At(r, "write", "edit") /\ req[r].asked.user = u /\ users'[u] = Edited(r)
<1>1. /\ users \in [Users -> Row \cup {Never, Deleted}]
      /\ Never \notin Row /\ Deleted \notin Row
  BY NamesAssumption DEF Sound, TypeOK
<1>2. req[r].asked.user \in Users
  BY HandlerSteps, Typed DEF Sound, GoesOn
<1>3. CASE req[r].asked.op = "add" /\ users[req[r].asked.user] = Never
           /\ \E row \in Row : users' = [users EXCEPT ![req[r].asked.user] = row]
  BY <1>1, <1>2, <1>3
<1>4. CASE users' = [users EXCEPT ![req[r].asked.user] = Deleted]
  BY <1>1, <1>2, <1>4
<1>5. CASE /\ At(r, "write", "edit") /\ users[req[r].asked.user] \in Row
           /\ users' = [users EXCEPT ![req[r].asked.user] = Edited(r)]
  BY <1>1, <1>2, <1>5
<1>6. CASE users' = users
  BY <1>6
<1>7. QED BY <1>3, <1>4, <1>5, <1>6, UsersSteps

LEMMA SendKeeps ==
    ASSUME Kept, NEW r \in Requests, NEW b \in Browsers, NEW asked \in Forms(b), Send(r, asked)
    PROVE  Kept'
<1>0. Sound /\ TypeOK
  BY DEF Kept, Sound
<1>1. /\ ~Under(r) /\ UNCHANGED <<users, settings, cookie>>
      /\ req'[r].at = "auth" /\ req'[r].asked = asked /\ req'[r].who = cookie[asked.browser]
      /\ \A q \in Requests \ {r} : req'[q] = req[q]
  BY <1>0, SendSteps
<1>2. UNCHANGED <<crossed, outdated>>
  BY DEF Send, history
<1>3. SeenStands' /\ SessionCarried'
  BY <1>1, <1>2 DEF Kept, SeenStands, SessionCarried, At, Under
<1>4. QED BY <1>0, <1>3, SendKeepsSound DEF Kept

LEMMA HandlerKeeps ==
    ASSUME Kept, NEW r \in Requests, Handles(r)
    PROVE  Kept'
<1>0. Sound /\ TypeOK
  BY DEF Kept, Sound
<1>1. GoesOn(r) /\ Holds(r) /\ cookie' = cookie
  BY <1>0, HandlerSteps
<1>2. /\ Under(r) /\ \A q \in Requests : Under(q)' <=> Under(q)
      /\ \A q \in Requests : Under(q) => req'[q].asked = req[q].asked /\ req'[q].who = req[q].who
  BY <1>1, NoneAssumption DEF GoesOn, Under
<1>3. outdated' = outdated /\ crossed \subseteq crossed' /\ (UpdateUser(r) => EditsCrossed(r) \subseteq crossed')
  BY <1>0, HistorySteps
<1>4. SeenStands'
  <2> SUFFICES ASSUME NEW q \in Requests, q \notin crossed', At(q, "write", "edit")',
                      users'[req'[q].asked.user] \in Row
               PROVE  users'[req'[q].asked.user].password = req'[q].seen.password
    BY DEF SeenStands
  <2> DEFINE u == req[q].asked.user
  <2>1. Under(q) /\ req[q].asked.op = "edit" /\ req'[q].asked.user = u /\ u \in Users
    BY <1>0, <1>2, Typed DEF At
  <2>2. CASE q = r
    <3>1. req'[r].seen \in Row /\ req'[r].seen = users[u]
      BY <1>1, <2>1, <2>2 DEF Holds, At
    <3>2. ~At(r, "write", "edit") \/ users'[u].password = users[u].password
      <4>1. CASE At(r, "write", "edit")
        <5>1. UpdateUser(r) \/ StatementFails(r)
          BY <4>1 DEF Handles, Admit, TurnAway, LoginUser, CreateNewUser, DeleteUser, ReadUser,
                      CheckSettingsExist, InsertSettings, UpdateSettings, At
        <5>2. req'[r].at = "answer"
          BY <1>0, <1>2, <5>1, AnswersGoesOn DEF UpdateUser, StatementFails
        <5>3. QED BY <2>2, <5>2 DEF At
      <4>2. QED BY <4>1
    <3>3. users'[u] \in Row /\ users[u] \in Row
      BY <2>1, <3>1
    <3>4. users'[u].password = users[u].password
      BY <1>0, <2>1, <3>2, <3>3, PasswordsChange
    <3>5. QED BY <2>1, <2>2, <3>1, <3>4
  <2>3. CASE q # r
    <3>1. At(q, "write", "edit") /\ req'[q] = req[q]
      BY <1>1, <2>3 DEF GoesOn, At, Under
    <3>2. users[u] \in Row
      <4>1. users[u] # Never
        BY <1>0, <2>1 DEF Sound, KnownUsers
      <4>2. users[u] # Deleted
        <5>1. SUFFICES ASSUME users[u] = Deleted PROVE FALSE
          OBVIOUS
        <5>2. /\ users \in [Users -> Row \cup {Never, Deleted}] /\ Deleted \notin Row
              /\ Never # Deleted /\ req[r].asked.user \in Users
          BY <1>0, <1>2, NamesAssumption, Typed DEF TypeOK
        <5>3. users'[u] = Deleted
          BY <1>0, <2>1, <5>1, <5>2, UsersSteps
        <5>4. QED BY <2>1, <5>2, <5>3
      <4>3. QED BY <1>0, <2>1, <4>1, <4>2 DEF TypeOK
    <3>3. ~(UpdateUser(r) /\ req[r].asked.user = u)
      BY <1>3, <2>1, <2>3, <3>1 DEF EditsCrossed
    <3>4. users'[u].password = users[u].password
      <4>1. SUFFICES ASSUME users'[u].password # users[u].password PROVE FALSE
        OBVIOUS
      <4>2. At(r, "write", "edit") /\ req[r].asked.user = u /\ users' # users
        BY <1>0, <2>1, <3>2, <4>1, PasswordsChange
      <4>3. UpdateUser(r)
        BY <4>2 DEF Handles, Admit, TurnAway, LoginUser, CreateNewUser, DeleteUser, ReadUser,
                    CheckSettingsExist, InsertSettings, UpdateSettings, StatementFails, At
      <4>4. QED BY <3>3, <4>2, <4>3
    <3>5. QED BY <1>3, <2>1, <3>1, <3>2, <3>4 DEF Kept, SeenStands
  <2>4. QED BY <2>2, <2>3
<1>5. SessionCarried'
  BY <1>1, <1>2, <1>3 DEF Kept, SessionCarried, GoesOn, Holds
<1>6. QED BY <1>0, <1>4, <1>5, HandlerKeepsSound DEF Kept

\* Whose answer changes a browser's session.
LEMMA CookiesChange ==
    ASSUME Kept, NEW r \in Requests, Answered(r), NEW b \in Browsers, cookie'[b] # cookie[b]
    PROVE  /\ Under(r) /\ req[r].at = "answer" /\ req[r].asked.browser = b
           /\ \/ req[r].asked.op \in {"login", "logout"} /\ req[r].ok
              \/ r \in outdated /\ cookie'[b] = req[r].who
<1>1. req[r].asked.browser = b /\ req[r].sets # Keep /\ cookie'[b] = req[r].sets
  BY AnsweredSteps DEF Kept, Sound
<1>2. Under(r) /\ req[r].at = "answer"
  BY DEF Answered
<1>3. CASE ~(req[r].asked.op \in {"login", "logout"} /\ req[r].ok)
  <2>1. cookie'[b] = req[r].who
    BY <1>1, <1>2, <1>3 DEF Kept, SessionCarried
  <2>2. r \in outdated
    BY <1>1, <1>2, <2>1 DEF Kept, SessionCarried
  <2>3. QED BY <1>1, <1>2, <2>1, <2>2
<1>4. QED BY <1>1, <1>2, <1>3

LEMMA AnsweredKeeps ==
    ASSUME Kept, NEW r \in Requests, Answered(r)
    PROVE  Kept'
<1>0. Sound /\ TypeOK
  BY DEF Kept, Sound
<1>1. /\ \A q \in Requests : Under(q)' => Under(q) /\ req'[q] = req[q] /\ q # r
      /\ UNCHANGED users /\ crossed' = crossed \ {r}
      /\ \A q \in Requests \ {r} : q \notin outdated' /\ Under(q) =>
            q \notin outdated /\ cookie'[req[q].asked.browser] = cookie[req[q].asked.browser]
  BY <1>0, AnsweredSteps
<1>2. SeenStands'
  BY <1>1 DEF Kept, SeenStands, At
<1>3. SessionCarried'
  BY <1>1 DEF Kept, SessionCarried
<1>4. QED BY <1>0, <1>2, <1>3, AnsweredKeepsSound DEF Kept

LEMMA KeptStep == Kept /\ [Next]_vars => Kept'
<1> SUFFICES ASSUME Kept, [Next]_vars PROVE Kept'
  OBVIOUS
<1>1. ASSUME NEW r \in Requests, Handles(r) PROVE Kept'
  BY <1>1, HandlerKeeps
<1>2. ASSUME NEW u \in Users, Restart(u) PROVE Kept'
  <2>1. Sound' /\ \A r \in Requests : ~Under(r)'
    BY <1>2, RestartSteps, RestartKeepsSound DEF Kept, Sound
  <2>2. QED BY <2>1 DEF Kept, SeenStands, SessionCarried, At
<1>3. CASE UNCHANGED vars
  <2>1. Sound'
    BY <1>3, SoundStep DEF Kept
  <2>2. QED BY <1>3, <2>1 DEF vars, history, Kept, SeenStands, SessionCarried, At, Under
<1>4. QED BY <1>1, <1>2, <1>3, SendKeeps, AnsweredKeeps DEF Next, Handles

LEMMA AlwaysKept == Spec => []Kept
<1>1. Init => Kept
  <2> SUFFICES ASSUME Init PROVE Kept
    OBVIOUS
  <2>1. \A r \in Requests : ~Under(r)
    BY DEF Init, Under
  <2>2. QED BY <2>1, SoundInit DEF Kept, SeenStands, SessionCarried, At
<1>2. QED BY <1>1, KeptStep, PTL DEF Spec

\* A password changes by an edit that asked for it; an edit that left the field
\* empty changes none but one that was set since it read the row, to the one it
\* had read (users.go:215-267).
THEOREM PasswordsStay == Spec => PasswordsAsAsked
<1> DEFINE Asks(r, u) ==
        /\ At(r, "write", "edit") /\ req[r].asked.user = u
        /\ \/ req[r].asked.form.password = users'[u].password
           \/ r \in crossed /\ req[r].seen.password = users'[u].password
           Changed(u) == users[u] \in Row /\ users'[u] \in Row /\ users'[u].password # users[u].password
<1>1. Kept /\ [Next]_vars => [\A u \in Users : Changed(u) => \E r \in Requests : Asks(r, u)]_vars
  <2> SUFFICES ASSUME Kept, Next, NEW u \in Users, Changed(u)
               PROVE  \E r \in Requests : Asks(r, u)
    OBVIOUS
  <2>0. Sound /\ TypeOK
    BY DEF Kept, Sound
  <2>1. ASSUME NEW r \in Requests, Handles(r) PROVE Asks(r, u)
    <3>1. At(r, "write", "edit") /\ req[r].asked.user = u /\ users'[u] = Edited(r)
      BY <2>0, <2>1, PasswordsChange
    <3>2. r \in crossed \/ req[r].seen.password = users[u].password
      BY <3>1 DEF Kept, SeenStands
    <3>3. QED BY <3>1, <3>2 DEF Edited
  <2>2. users' # users
    OBVIOUS
  <2>3. ASSUME NEW v \in Users, Restart(v) PROVE FALSE
    BY <2>0, <2>3, RestartSteps, NamesAssumption
  <2>4. PICK r \in Requests : Handles(r)
    BY <2>2, <2>3 DEF Next, Handles, Send, Answered
  <2>5. QED BY <2>1, <2>4
<1>2. QED BY <1>1, AlwaysKept, PTL DEF Spec, PasswordsAsAsked

\* A browser's session changes by an answered login or logout, or by an answer
\* that one of these has overtaken, which brings back the session its request
\* was sent with (middlewares.go:118-172, users.go:141-182).
THEOREM SessionsStay == Spec => SessionsFollowLogins
<1> DEFINE Turns(r, b) ==
        /\ Under(r) /\ req[r].at = "answer" /\ req[r].asked.browser = b
        /\ \/ req[r].asked.op \in {"login", "logout"} /\ req[r].ok
           \/ r \in outdated /\ cookie'[b] = req[r].who
<1>1. Kept /\ [Next]_vars => [\A b \in Browsers : Changes(b) => \E r \in Requests : Turns(r, b)]_vars
  <2> SUFFICES ASSUME Kept, Next, NEW b \in Browsers, cookie'[b] # cookie[b]
               PROVE  \E r \in Requests : Turns(r, b)
    BY DEF Changes
  <2>0. TypeOK
    BY DEF Kept, Sound
  <2>1. ASSUME NEW r \in Requests, Handles(r) PROVE FALSE
    BY <2>0, <2>1, HandlerSteps
  <2>2. PICK r \in Requests : Answered(r)
    BY <2>1 DEF Next, Handles, Send, Restart
  <2>3. QED BY <2>2, CookiesChange
<1>2. QED BY <1>1, AlwaysKept, PTL DEF Spec, SessionsFollowLogins
===============================================================================
