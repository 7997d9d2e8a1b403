------------------------------ MODULE Accounts ------------------------------
(***************************************************************************)
(* server/auth and the account routes of server/httpServer.ts: the user    *)
(* store with its file, the login service with its sliding sessions and    *)
(* its lockout, and the handlers on both.  Everything is a function of the *)
(* record Fresh describes; a handler returns the record it leaves (to) and *)
(* its HTTP status.  A password is a model value, the hash it stands for;  *)
(* tokens are numbered, as randomBytes(32) never repeats one.              *)
(***************************************************************************)
EXTENDS Integers, Functions, SequencesExt

CONSTANTS
  ValidNames,         \* names that match the pattern of createUser
  Passwords,          \* of at least 8 characters
  ShortPassword,      \* any other one
  AdminName, AdminPassword,  \* XBMAP_ADMIN_USERNAME, XBMAP_ADMIN_PASSWORD
  ValidFlags,         \* flag names that match the pattern of setFlag
  Ttl,                \* sessionTtlMs
  MaxFailedAttempts,
  LockoutMs

EmptyStore == [users |-> <<>>, workspaces |-> <<>>, flags |-> <<>>]

(* Functions with a finite domain: users by name, workspaces by name,      *)
(* flags by name, sessions by token.  data is what the process has, file   *)
(* the image on disk ({}: none, or one that does not parse), saveDue the   *)
(* debounce timer.                                                         *)
Fresh(file) ==
  [data |-> EmptyStore, file |-> file, saveDue |-> FALSE,
   sessions |-> <<>>, issued |-> 0, failed |-> 0, lockedUntil |-> 0]

Without(f, x) == Restrict(f, DOMAIN f \ {x})

Changed(a, data) == [a EXCEPT !.data = data, !.saveDue = TRUE]

-----------------------------------------------------------------------------
(* UserStore *)

Has(a, name) == name \in DOMAIN a.data.users

RoleOf(a, name) == IF Has(a, name) THEN a.data.users[name].role ELSE "none"

Creatable(a, name, password) ==
  name \in ValidNames /\ password \in Passwords /\ ~Has(a, name)

CreateUser(a, name, password, role, disabled) ==
  LET user == [role |-> role, password |-> password, disabled |-> disabled]
  IN  Changed(a, [a.data EXCEPT !.users = (name :> user) @@ @])

(* setPassword(): FALSE, and nothing done, for a password that is short. *)
SetPassword(a, name, password) ==
  IF Has(a, name) /\ password \in Passwords
  THEN Changed(a, [a.data EXCEPT !.users[name].password = password])
  ELSE a

SetDisabled(a, name, disabled) ==
  IF Has(a, name) THEN Changed(a, [a.data EXCEPT !.users[name].disabled = disabled]) ELSE a

DeleteUser(a, name) ==
  Changed(a, [a.data EXCEPT !.users = Without(@, name), !.workspaces = Without(@, name)])

SetWorkspace(a, name, workspace) ==
  Changed(a, [a.data EXCEPT !.workspaces = (name :> workspace) @@ @])

SetFlag(a, name, value) == Changed(a, [a.data EXCEPT !.flags = (name :> value) @@ @])

ActiveAdmins(a) == {n \in DOMAIN a.data.users :
                      a.data.users[n].role = "admin" /\ ~a.data.users[n].disabled}

(* ensureBootstrapAdmin(): the promotion itself schedules no save. *)
EnsureBootstrapAdmin(a) ==
  LET promoted == [a EXCEPT !.data.users[AdminName].role = "admin",
                            !.data.users[AdminName].disabled = FALSE]
  IN  IF ActiveAdmins(a) # {} THEN a
      ELSE IF Creatable(a, AdminName, AdminPassword)
           THEN CreateUser(a, AdminName, AdminPassword, "admin", FALSE)
           ELSE IF Has(a, AdminName)
                THEN SetPassword(promoted, AdminName, AdminPassword)
                ELSE a

(* open() and the bootstrap of startServer(). *)
Boot(file) ==
  LET opened == [Fresh(file) EXCEPT !.data = IF file = {} THEN EmptyStore
                                           ELSE CHOOSE image \in file : TRUE]
  IN  EnsureBootstrapAdmin(opened)

(* The timer's write and flush(); a flush leaves the timer alone. *)
WriteNow(a) == [a EXCEPT !.file = {a.data}]
SaveTimerFires(a) == [WriteNow(a) EXCEPT !.saveDue = FALSE]

-----------------------------------------------------------------------------
(* AuthService *)

(* The verify function of startServer(): an account of the store wins over *)
(* the bootstrap pair of the environment.                                  *)
Verified(a, name, password) ==
  IF Has(a, name)
  THEN ~a.data.users[name].disabled /\ a.data.users[name].password = password
  ELSE name = AdminName /\ password = AdminPassword

Locked(a, now) == a.lockedUntil > now

FailedAttempt(a, now) ==
  IF a.failed + 1 >= MaxFailedAttempts
  THEN [a EXCEPT !.failed = 0, !.lockedUntil = now + LockoutMs]
  ELSE [a EXCEPT !.failed = @ + 1]

CreateSession(a, name, now) ==
  [a EXCEPT !.issued = @ + 1,
            !.sessions = (a.issued + 1 :> [username |-> name, expiresAt |-> now + Ttl]) @@ @]

(* authenticate() and the login route: a locked service counts nothing. *)
Login(a, name, password, now) ==
  IF Locked(a, now) THEN [to |-> a, status |-> 423]
  ELSE IF Verified(a, name, password)
       THEN [to |-> CreateSession([a EXCEPT !.failed = 0, !.lockedUntil = 0], name, now),
             status |-> 200]
       ELSE [to |-> FailedAttempt(a, now),
             status |-> IF Locked(FailedAttempt(a, now), now) THEN 423 ELSE 401]

Live(a, token, now) ==
  token \in DOMAIN a.sessions /\ a.sessions[token].expiresAt > now

(* validateSession(): a live session slides, an expired one is removed. *)
Validated(a, token, now) ==
  IF Live(a, token, now)
  THEN [a EXCEPT !.sessions[token].expiresAt = now + Ttl]
  ELSE [a EXCEPT !.sessions = Without(@, token)]

Logout(a, token) == [to |-> [a EXCEPT !.sessions = Without(@, token)], status |-> 200]

-----------------------------------------------------------------------------
(* The account routes.  Each reads the session of its cookie, which slides *)
(* it, whatever the answer is.                                             *)

UserOf(a, token) == a.sessions[token].username

Answer(b, ok, to, refused) ==
  IF ok THEN [to |-> to, status |-> 200] ELSE [to |-> b, status |-> refused]

PutWorkspace(a, token, isObject, workspace, now) ==
  LET b == Validated(a, token, now)
  IN  IF ~Live(a, token, now) THEN [to |-> b, status |-> 401]
      ELSE Answer(b, isObject /\ Has(b, UserOf(b, token)),
                  SetWorkspace(b, UserOf(b, token), workspace), 400)

IsAdmin(a, token, now) == Live(a, token, now) /\ RoleOf(a, UserOf(a, token)) = "admin"

(* The guard requireAdminRole before what a handler answers.               *)
ForAdmins(a, token, now, answer) ==
  IF IsAdmin(a, token, now) THEN answer
  ELSE [to |-> Validated(a, token, now), status |-> 403]

(* PATCH feature-flags sets the entries of the body one by one, up to the  *)
(* first whose value is no boolean or whose name is refused.               *)
GoodFlag(entry) == entry.isBoolean /\ entry.name \in ValidFlags
PatchFlags(a, token, entries, now) ==
  LET bad == {i \in DOMAIN entries : ~GoodFlag(entries[i])}
      first == IF bad = {} THEN Len(entries) + 1 ELSE Min(bad)
      set(b, entry) == SetFlag(b, entry.name, entry.value)
      patch(b) == [to |-> FoldLeft(set, b, SubSeq(entries, 1, first - 1)),
                   status |-> IF bad = {} THEN 200 ELSE 400]
  IN  ForAdmins(a, token, now, patch(Validated(a, token, now)))

PostUser(a, token, name, password, role, now) ==
  LET post(b) ==
        IF Creatable(b, name, password)
        THEN [to |-> CreateUser(b, name, password, role, FALSE), status |-> 201]
        ELSE [to |-> b, status |-> 400]
  IN  ForAdmins(a, token, now, post(Validated(a, token, now)))

(* PATCH admin/users: disabled and password are sets of at most one value, *)
(* what the body holds.  A role in the body is read and ignored.           *)
PatchUser(a, token, name, disabled, password, now) ==
  LET flagged(b) == IF disabled = {} THEN b
                    ELSE SetDisabled(b, name, CHOOSE d \in disabled : TRUE)
      keyed(b) == IF password = {} THEN b
                  ELSE SetPassword(b, name, CHOOSE p \in password : TRUE)
      patch(b) == IF ~Has(b, name) THEN [to |-> b, status |-> 404]
                  ELSE Answer(flagged(b), password \subseteq Passwords,
                              keyed(flagged(b)), 400)
  IN  ForAdmins(a, token, now, patch(Validated(a, token, now)))

RemoveUser(a, token, name, now) ==
  LET remove(b) == IF Has(b, name) THEN [to |-> DeleteUser(b, name), status |-> 204]
                   ELSE [to |-> b, status |-> 404]
  IN  ForAdmins(a, token, now, remove(Validated(a, token, now)))
=============================================================================
