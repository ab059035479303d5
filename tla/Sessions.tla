------------------------------ MODULE Sessions ------------------------------
(***************************************************************************)
(* Accounts and sessions of the auth-service: AuthService (signup, login,  *)
(* refreshAccessToken, logout), the blacklist it keeps in Redis, the User  *)
(* rows it reads and writes one UPDATE at a time, the cookies through      *)
(* which AuthController hands the tokens to a browser, and the two ways a  *)
(* row is changed through UserService.updateUser.                          *)
(*                                                                         *)
(* A request is handled by a Handler that reads, awaits and writes; any    *)
(* number of them interleave.  A pair of tokens is an index of `tokens`;   *)
(* cookie[b] is the pair browser b holds, 0 when it holds none.  Every     *)
(* awaited call may fail, which ends the request with an error and keeps   *)
(* what it wrote before.  The expiry of tokens and of blacklist entries is *)
(* not modelled.  No route calls AuthService.logout (POST /auth/logout     *)
(* is about the cookies only, ClearCookies below); it is modelled as the   *)
(* operation of the service that it is.                                    *)
(***************************************************************************)
EXTENDS Naturals, Sequences

CONSTANTS
    Emails,     \* the addresses people sign up with; one account each
    Browsers,   \* browsers; any of them may log into any account
    NoUser,     \* "there is no row"
    Handlers,   \* requests that can be in flight at a time
    MaxTokens,  \* bound: pairs of tokens ever issued
    MaxVersion, \* bound: no refresh starts on a row whose version is higher
    MaxEdits    \* bound: no profile edit starts after that many of an account

\* tokenVersion, whether refreshTokenHash is set, and the profile columns (the
\* role, which only a promotion writes, is read from tokens, never from here).
\* bcrypt reads 72 bytes, which end inside the user id of the token: the hash
\* tells users apart, and one token of a user from another it does not.
User == [version: Nat, hash: BOOLEAN, profile: Nat]

ASSUME SessionsAssumption ==
    /\ MaxTokens \in Nat \ {0}
    /\ MaxVersion \in Nat
    /\ MaxEdits \in Nat
    /\ NoUser \notin User

VARIABLES
    account,    \* account[e]: the User row, NoUser when there is none
    tokens,     \* the pairs issued so far, with what their payload says
    revoked,    \* the blacklist: refresh and access tokens of some pairs
    cookie,     \* cookie[b]: the pair in the browser's cookies, 0 for none
    req         \* req[h]: the request h is handling

VARIABLES       \* history, read by the properties only
    spent,      \* spent[t]: refreshes answered with new tokens for pair t
    overlapped, \* overlapped[e]: two refreshes of e read before either wrote
    ended,      \* ended[e]: logged out, with no refresh of e left to write
    settled,    \* pairs blacklisted while no refresh of theirs was in flight
    edited,     \* edited[e]: the profile the last edit of e has stored
    shown,      \* shown[e]: the profile the last answer to an edit of e showed
    raced       \* raced[e]: a promotion of e was in flight during an edit

rowVars == <<account, tokens, revoked, cookie>>
history == <<spent, overlapped, ended, settled, edited, shown, raced>>
vars == <<rowVars, req, history>>

Steps == {"idle", "signup", "login", "verify", "rotate", "bump", "alert",
          "logout", "access", "remove", "edit", "read", "promote"}
Idle == [step |-> "idle"]

Account(h) == account[req[h].email]

Begin(h, r) == req[h] = Idle /\ req' = [req EXCEPT ![h] = r]
Goto(h, s) == req' = [req EXCEPT ![h].step = s]
End(h) == req' = [req EXCEPT ![h] = Idle]

\* Requests other than h that have read e's row and have yet to write it.
Writers(e, h) ==
    {g \in Handlers \ {h} :
        /\ req[g].step \in {"rotate", "bump", "alert"}
        /\ req[g].email = e}

Init ==
    /\ account = [e \in Emails |-> NoUser]
    /\ tokens = <<>>
    /\ revoked = {}
    /\ cookie = [b \in Browsers |-> 0]
    /\ req = [h \in Handlers |-> Idle]
    /\ spent = [t \in 1 .. MaxTokens |-> 0]
    /\ overlapped = [e \in Emails |-> FALSE]
    /\ ended = [e \in Emails |-> FALSE]
    /\ settled = {}
    /\ edited = [e \in Emails |-> 0]
    /\ shown = [e \in Emails |-> 0]
    /\ raced = [e \in Emails |-> FALSE]

-----------------------------------------------------------------------------
\* signup

\* The address is looked up; the password is hashed while others interleave.
SignupLookup(h, e) ==
    /\ account[e] = NoUser
    /\ Begin(h, [step |-> "signup", email |-> e])
    /\ UNCHANGED <<rowVars, history>>

\* ConflictException: the request changes nothing.
SignupRefused(h, e) ==
    /\ req[h] = Idle
    /\ account[e] # NoUser
    /\ UNCHANGED vars

\* The INSERT.  The unique index on email refuses a second row.
SignupSave(h) ==
    /\ req[h].step = "signup"
    /\ Account(h) = NoUser
    /\ account' = [account EXCEPT ![req[h].email] =
           [version |-> 0, hash |-> FALSE, profile |-> 0]]
    /\ End(h)
    /\ UNCHANGED <<tokens, revoked, cookie, spent, overlapped, ended, settled,
                   edited, shown, raced>>

-----------------------------------------------------------------------------
\* login

\* The row is read, the tokens are made from what was read.
LoginRead(h, b, e) ==
    /\ account[e] # NoUser
    /\ Len(tokens) < MaxTokens
    /\ Begin(h, [step |-> "login", browser |-> b, email |-> e,
                 version |-> account[e].version])
    /\ UNCHANGED <<rowVars, history>>

Issue(e, v, origin) ==
    /\ Len(tokens) < MaxTokens
    /\ tokens' = Append(tokens, [email |-> e, version |-> v, from |-> origin])

\* updateRefreshToken: only the hash column.
SetHash(e) == account' = [account EXCEPT ![e].hash = TRUE]

\* Mutant: the cookies get the pair that would be issued next.
SetCookiesAhead(b, t) == cookie' = [cookie EXCEPT ![b] = t + 1]

\* AuthController: the pair goes into the browser's two cookies.
SetCookies(b, t) == cookie' = [cookie EXCEPT ![b] = t]

\* An answer with a new pair; it may be lost on its way.
Answer(b, t) ==
    \/ SetCookies(b, t)
    \/ UNCHANGED cookie

\* The hash is stored and the pair is answered.
LoginSave(h) ==
    /\ req[h].step = "login"
    /\ Issue(req[h].email, req[h].version, "login")
    /\ SetHash(req[h].email)
    /\ Answer(req[h].browser, Len(tokens'))
    /\ ended' = [ended EXCEPT ![req[h].email] = FALSE]
    /\ End(h)
    /\ UNCHANGED <<revoked, spent, overlapped, settled, edited,
                   shown, raced>>

-----------------------------------------------------------------------------
\* refreshAccessToken

\* Mutant: the blacklist is not consulted.
RefusedNever(t, kind) == FALSE

Refused(t, kind) == <<t, kind>> \in revoked

\* The blacklist, then the signature.
RefreshCheck(h, b) ==
    /\ cookie[b] # 0
    /\ ~Refused(cookie[b], "refresh")
    /\ Begin(h, [step |-> "verify", browser |-> b, token |-> cookie[b],
                 email |-> tokens[cookie[b]].email])
    /\ UNCHANGED <<rowVars, history>>

\* Two refreshes of one account whose reads and writes overlap.
Overlaps(h) ==
    overlapped' = [overlapped EXCEPT ![req[h].email] =
                       @ \/ Writers(req[h].email, h) # {}]

\* Mutant: a missing hash is taken for a match.
MatchesAlways(h) == TRUE

\* bcrypt.compare succeeds for every token of a user whose hash is set.
Matches(h) == Account(h).hash

\* Mutant: the version in the payload is not compared.
VersionIgnored(h) == TRUE

VersionMatches(h) == tokens[req[h].token].version = Account(h).version

\* The row is read and the token agrees with it.
RefreshRead(h) ==
    /\ req[h].step = "verify"
    /\ Matches(h)
    /\ VersionMatches(h)
    /\ Account(h).version <= MaxVersion
    /\ req' = [req EXCEPT ![h] = [step |-> "rotate", browser |-> @.browser,
                   token |-> @.token, email |-> @.email,
                   version |-> Account(h).version]]
    /\ Overlaps(h)
    /\ UNCHANGED <<rowVars, spent, ended, settled, edited, shown, raced>>

\* The row is read and the token is of another version: a "security event".
RefreshStale(h) ==
    /\ req[h].step = "verify"
    /\ Matches(h)
    /\ ~VersionMatches(h)
    /\ Account(h).version <= MaxVersion
    /\ req' = [req EXCEPT ![h] = [step |-> "alert", email |-> @.email,
                   token |-> @.token, version |-> Account(h).version]]
    /\ Overlaps(h)
    /\ UNCHANGED <<rowVars, spent, ended, settled, edited, shown, raced>>

\* "Invalid refresh token": there is no hash, the session is over.
RefreshRefused(h) ==
    /\ req[h].step = "verify"
    /\ ~Matches(h)
    /\ End(h)
    /\ UNCHANGED <<rowVars, history>>

SetVersion(e, v) == account' = [account EXCEPT ![e].version = v]

Raised(h) == req[h].version + 1

RefreshAlert(h) ==
    /\ req[h].step = "alert"
    /\ SetVersion(req[h].email, Raised(h))
    /\ End(h)
    /\ UNCHANGED <<tokens, revoked, cookie, history>>

\* The new pair, made from the row as it was read, and its hash.
RefreshRotate(h) ==
    /\ req[h].step = "rotate"
    /\ Issue(req[h].email, req[h].version, "refresh")
    /\ SetHash(req[h].email)
    /\ req' = [req EXCEPT ![h] = [step |-> "bump", browser |-> @.browser,
                   token |-> @.token, email |-> @.email,
                   version |-> @.version, new |-> Len(tokens')]]
    /\ UNCHANGED <<revoked, cookie, history>>

\* The version is raised and the new pair is answered.
RefreshBump(h) ==
    /\ req[h].step = "bump"
    /\ SetVersion(req[h].email, Raised(h))
    /\ spent' = [spent EXCEPT ![req[h].token] = @ + 1]
    /\ Answer(req[h].browser, req[h].new)
    /\ End(h)
    /\ UNCHANGED <<tokens, revoked, overlapped, ended, settled,
                   edited, shown, raced>>

-----------------------------------------------------------------------------
\* logout

Logout(h, b) ==
    /\ cookie[b] # 0
    /\ Begin(h, [step |-> "logout", token |-> cookie[b],
                 email |-> tokens[cookie[b]].email])
    /\ UNCHANGED <<rowVars, history>>

AddToBlacklist(h, kind) == revoked' = revoked \cup {<<req[h].token, kind>>}

\* Requests that have passed the check of the blacklist with the pair t.
Refreshing(t) ==
    {g \in Handlers : /\ req[g].step \in {"verify", "rotate", "bump"}
                      /\ req[g].token = t}

LogoutRefresh(h) ==
    /\ req[h].step = "logout"
    /\ AddToBlacklist(h, "refresh")
    /\ settled' = settled \cup {t \in {req[h].token} : Refreshing(t) = {}}
    /\ Goto(h, "access")
    /\ UNCHANGED <<account, tokens, cookie, spent, overlapped, ended,
                   edited, shown, raced>>

LogoutAccess(h) ==
    /\ req[h].step = "access"
    /\ AddToBlacklist(h, "access")
    /\ Goto(h, "remove")
    /\ UNCHANGED <<account, tokens, cookie, history>>

\* removeRefreshToken: only the hash column.
RemoveHash(e) == account' = [account EXCEPT ![e].hash = FALSE]

\* The user is the one the token names.  `ended`, unless a refresh is under way
\* (a login that is under way will say so itself).
LogoutRemove(h) ==
    /\ req[h].step = "remove"
    /\ RemoveHash(req[h].email)
    /\ ended' = [ended EXCEPT ![req[h].email] = Writers(req[h].email, h) = {}]
    /\ End(h)
    /\ UNCHANGED <<tokens, revoked, cookie, spent, overlapped, settled,
                   edited, shown, raced>>

\* POST /auth/logout, or the browser drops its cookies.  (The controller sets
\* the headers that clear them and never sends the response it took over.)
ClearCookies(b) ==
    /\ cookie[b] # 0
    /\ cookie' = [cookie EXCEPT ![b] = 0]
    /\ UNCHANGED <<account, tokens, revoked, req, history>>

-----------------------------------------------------------------------------
\* JwtStrategy.validate, and what a validated request changes

Authenticated(b) == cookie[b] # 0 /\ ~Refused(cookie[b], "access")

\* updateUser.
WriteProfile(e, p) == account' = [account EXCEPT ![e].profile = p]

\* PATCH /profile by browser b: the guard consults the blacklist, ...
EditCheck(h, b) ==
    /\ Authenticated(b)
    /\ edited[tokens[cookie[b]].email] < MaxEdits
    /\ Begin(h, [step |-> "edit", email |-> tokens[cookie[b]].email])
    /\ UNCHANGED <<rowVars, history>>

Promoting(e) ==
    \E g \in Handlers : req[g].step = "promote" /\ req[g].email = e

\* ... the columns it names are written, ...
EditWrite(h) ==
    LET e == req[h].email IN
    /\ req[h].step = "edit"
    /\ WriteProfile(e, edited[e] + 1)
    /\ edited' = [edited EXCEPT ![e] = @ + 1]
    /\ raced' = [raced EXCEPT ![e] = @ \/ Promoting(e)]
    /\ Goto(h, "read")
    /\ UNCHANGED <<tokens, revoked, cookie, spent, overlapped, ended, settled,
                   shown>>

\* ... and the row is read back and answered.
EditAnswer(h) ==
    /\ req[h].step = "read"
    /\ shown' = [shown EXCEPT ![req[h].email] = Account(h).profile]
    /\ End(h)
    /\ UNCHANGED <<rowVars, spent, overlapped, ended, settled, edited, raced>>

\* PATCH /user/:id/promote-admin by an administrator: the row is read, ...
PromoteRead(h, e) ==
    /\ account[e] # NoUser
    /\ Begin(h, [step |-> "promote", email |-> e,
                 profile |-> account[e].profile])
    /\ UNCHANGED <<rowVars, history>>

\* Mutant: the profile columns the promotion does not name are cleared.
PromoteClears(h) ==
    /\ req[h].step = "promote"
    /\ WriteProfile(req[h].email, 0)
    /\ End(h)
    /\ UNCHANGED <<tokens, revoked, cookie, history>>

\* ... and its profile columns are written back, with the role, as read.
PromoteWrite(h) ==
    /\ req[h].step = "promote"
    /\ WriteProfile(req[h].email, req[h].profile)
    /\ End(h)
    /\ UNCHANGED <<tokens, revoked, cookie, history>>

\* An awaited call throws, or the process dies: what was written stays.
RequestFails(h) ==
    /\ req[h] # Idle
    /\ End(h)
    /\ UNCHANGED <<rowVars, history>>

-----------------------------------------------------------------------------
Next ==
    \/ \E h \in Handlers :
        \/ \E e \in Emails :
            \/ SignupLookup(h, e)
            \/ SignupRefused(h, e)
            \/ PromoteRead(h, e)
            \/ \E b \in Browsers : LoginRead(h, b, e)
        \/ \E b \in Browsers :
            \/ RefreshCheck(h, b)
            \/ Logout(h, b)
            \/ EditCheck(h, b)
        \/ SignupSave(h)
        \/ LoginSave(h)
        \/ RefreshRead(h)
        \/ RefreshStale(h)
        \/ RefreshRefused(h)
        \/ RefreshAlert(h)
        \/ RefreshRotate(h)
        \/ RefreshBump(h)
        \/ LogoutRefresh(h)
        \/ LogoutAccess(h)
        \/ LogoutRemove(h)
        \/ EditWrite(h)
        \/ EditAnswer(h)
        \/ PromoteWrite(h)
        \/ RequestFails(h)
    \/ \E b \in Browsers : ClearCookies(b)

Spec == Init /\ [][Next]_vars

-----------------------------------------------------------------------------
\* Type correctness of the state and of the requests in flight.
TypeOK ==
    /\ \A e \in Emails : account[e] = NoUser \/ account[e] \in User
    /\ \A t \in DOMAIN tokens :
           tokens[t] \in [email: Emails, version: Nat,
                          from: {"login", "refresh"}]
    /\ Len(tokens) <= MaxTokens
    /\ revoked \subseteq (DOMAIN tokens) \X {"refresh", "access"}
    /\ \A b \in Browsers : cookie[b] = 0 \/ cookie[b] \in DOMAIN tokens
    /\ \A h \in Handlers :
           /\ req[h].step \in Steps
           /\ req[h] # Idle => req[h].email \in Emails
           /\ req[h].step \in {"verify", "rotate", "bump", "alert", "logout",
                               "access", "remove"}
              => /\ req[h].token \in DOMAIN tokens
                 /\ tokens[req[h].token].email = req[h].email

\* A refresh token is exchanged for new tokens at most once ("rotation"), as
\* long as the refreshes of the account do not overlap; logins, logouts, lost
\* answers and failures in the middle of a refresh do not change that.
SpentOnce ==
    \A t \in DOMAIN tokens : overlapped[tokens[t].email] \/ spent[t] <= 1

\* After a logout no refresh brings the session back: until the next login the
\* row has no hash, whatever requests were started before or after (a refresh
\* that had read the row before the logout is the exception `ended` leaves out).
LogoutEndsSessions ==
    \A e \in Emails : ended[e] => ~account[e].hash

\* A blacklisted pair is never exchanged again, even if the account logs in
\* once more and its hash is set; a refresh that had passed the check of the
\* blacklist before the logout is the exception `settled` leaves out.
RevokedStaysRevoked ==
    [][\A t \in settled : spent'[t] = spent[t]]_vars

\* A profile edit that was written stays, whether or not its owner got an
\* answer, and no answer showed an edit the row does not hold; unless a
\* promotion was in flight when an edit was written: promoteToAdmin writes back
\* every column it read.
ProfileIsLastEdit ==
    \A e \in Emails : (account[e] # NoUser /\ ~raced[e])
        => account[e].profile = edited[e] /\ shown[e] <= edited[e]

\* "Generates new pair of tokens": the pair a refresh answered, the newest one
\* there is, can be refreshed in its turn.  The code gives the new pair the
\* version it increments right afterwards.
RefreshedSessionContinues ==
    \A b \in Browsers :
        /\ cookie[b] # 0 /\ cookie[b] = Len(tokens)
        /\ tokens[cookie[b]].from = "refresh"
        /\ spent[cookie[b]] = 0
        /\ \A h \in Handlers : req[h] = Idle
        => tokens[cookie[b]].version = account[tokens[cookie[b]].email].version
=============================================================================
