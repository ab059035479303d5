--------------------------- MODULE SessionsProofs ---------------------------
(***************************************************************************)
(* Proofs about Sessions, for any accounts, browsers and requests in       *)
(* flight, and any number of tokens, versions and edits.                   *)
(*                                                                         *)
(* The argument for rotation: while the refreshes of an account do not     *)
(* overlap, the one that has read the row has read its current version,    *)
(* the version its token carries; it leaves a higher one behind, so that a *)
(* token that was exchanged is of an old version for ever.  The arguments  *)
(* for logout and for profiles say which requests in flight could still    *)
(* undo what was written, and that none of them is.                        *)
(***************************************************************************)
EXTENDS Sessions, TLAPS

Token == [email: Emails, version: Nat, from: {"login", "refresh"}]

\* What a request remembers at each of its steps.
Request ==
    {Idle}
    \cup [step: {"signup"}, email: Emails]
    \cup [step: {"login"}, browser: Browsers, email: Emails, version: Nat]
    \cup [step: {"verify"}, browser: Browsers, token: Nat, email: Emails]
    \cup [step: {"rotate"}, browser: Browsers, token: Nat, email: Emails, version: Nat]
    \cup [step: {"bump"}, browser: Browsers, token: Nat, email: Emails, version: Nat, new: Nat]
    \cup [step: {"alert"}, email: Emails, token: Nat, version: Nat]
    \cup [step: {"logout", "access", "remove"}, token: Nat, email: Emails]
    \cup [step: {"edit", "read"}, email: Emails]
    \cup [step: {"promote"}, email: Emails, profile: Nat]

Shapes ==
    /\ account \in [Emails -> User \cup {NoUser}]
    /\ tokens \in Seq(Token) /\ Len(tokens) <= MaxTokens
    /\ revoked \subseteq (1 .. Len(tokens)) \X {"refresh", "access"}
    /\ cookie \in [Browsers -> 0 .. Len(tokens)]
    /\ req \in [Handlers -> Request]
    /\ spent \in [1 .. MaxTokens -> Nat]
    /\ overlapped \in [Emails -> BOOLEAN]
    /\ ended \in [Emails -> BOOLEAN]
    /\ settled \subseteq 1 .. Len(tokens)
    /\ edited \in [Emails -> Nat] /\ shown \in [Emails -> Nat]
    /\ raced \in [Emails -> BOOLEAN]

Writing == {"rotate", "bump", "alert"}
Holding == Writing \cup {"verify", "logout", "access", "remove"}

\* A request holds a token of its account; tokens, and the requests that have
\* looked the account up, are of accounts that exist.
Known ==
    /\ \A h \in Handlers : req[h].step \in Holding =>
           req[h].token \in 1 .. Len(tokens) /\ tokens[req[h].token].email = req[h].email
    /\ \A h \in Handlers : req[h].step = "bump" => req[h].new \in 1 .. Len(tokens)
    /\ \A h \in Handlers : req[h].step \notin {"idle", "signup"} =>
           account[req[h].email] # NoUser
    /\ \A t \in 1 .. Len(tokens) : account[tokens[t].email] # NoUser

\* One refresh at a time, unless they were seen to overlap: ...
OneWriter ==
    \A g, h \in Handlers :
        (/\ req[g].step \in Writing /\ req[h].step \in Writing
         /\ req[g].email = req[h].email /\ ~overlapped[req[g].email]) => g = h

\* ... it has read what the row still says, ...
Current ==
    \A g \in Handlers :
        (req[g].step \in Writing /\ ~overlapped[req[g].email]) =>
            req[g].version = account[req[g].email].version

\* ... and the token it exchanges is of that version and was not exchanged.
Unspent ==
    \A g \in Handlers :
        (req[g].step \in {"rotate", "bump"} /\ ~overlapped[req[g].email]) =>
            tokens[req[g].token].version = req[g].version /\ spent[req[g].token] = 0

\* An exchanged token is of an older version than the row.
SpentIsOld ==
    \A t \in 1 .. Len(tokens) :
        (~overlapped[tokens[t].email] /\ spent[t] # 0) =>
            spent[t] = 1 /\ tokens[t].version < account[tokens[t].email].version

FutureIsUnspent ==
    \A t \in 1 .. MaxTokens : t > Len(tokens) => spent[t] = 0

\* No refresh that would store a hash is under way in an ended session.
EndedIsOver ==
    \A e \in Emails : ended[e] =>
        /\ account[e] # NoUser /\ account[e].hash = FALSE
        /\ \A h \in Handlers : ~(req[h].step = "rotate" /\ req[h].email = e)

\* No refresh with a settled token has passed the blacklist.
SettledIsRevoked ==
    \A t \in settled :
        /\ <<t, "refresh">> \in revoked
        /\ \A h \in Handlers : req[h].step \in {"verify", "rotate", "bump"} => req[h].token # t

\* A promotion would write back the last edit.
LastEdit ==
    /\ \A e \in Emails : account[e] = NoUser => edited[e] = 0 /\ shown[e] = 0
    /\ \A h \in Handlers : (req[h].step = "promote" /\ ~raced[req[h].email]) =>
           req[h].profile = edited[req[h].email]
    /\ ProfileIsLastEdit

\* The inductive invariant.
IInv ==
    /\ Shapes /\ Known
    /\ OneWriter /\ Current /\ Unspent /\ SpentIsOld /\ FutureIsUnspent
    /\ EndedIsOver /\ SettledIsRevoked /\ LastEdit
-----------------------------------------------------------------------------
(* Lemmas about requests, rows and tokens *)

LEMMA NoRow == NoUser \notin User /\ MaxTokens \in Nat
BY SessionsAssumption

\* What can be read from a request at each of its steps.
LEMMA RequestShape ==
    ASSUME NEW r \in Request
    PROVE  /\ r.step \in Steps /\ (r.step = "idle" <=> r = Idle)
           /\ r.step # "idle" => r.email \in Emails
           /\ r.step \in {"login", "rotate", "bump", "alert"} => r.version \in Nat
           /\ r.step \in {"login", "verify", "rotate", "bump"} => r.browser \in Browsers
           /\ r.step \in Holding => r.token \in Nat
           /\ r.step = "bump" => r.new \in Nat
           /\ r.step = "promote" => r.profile \in Nat
BY DEF Request, Idle, Steps, Holding, Writing

\* An UPDATE of one column of an existing row leaves the others as they are.
LEMMA HashColumn ==
    ASSUME NEW e \in Emails, account \in [Emails -> User \cup {NoUser}], account[e] # NoUser,
           SetHash(e) \/ RemoveHash(e)
    PROVE  /\ account' \in [Emails -> User \cup {NoUser}]
           /\ \A f \in Emails : f # e => account'[f] = account[f]
           /\ account'[e] \in User
           /\ account'[e].version = account[e].version
           /\ account'[e].profile = account[e].profile
           /\ RemoveHash(e) => account'[e].hash = FALSE
BY NoRow DEF SetHash, RemoveHash, User

LEMMA VersionColumn ==
    ASSUME NEW e \in Emails, NEW v \in Nat, account \in [Emails -> User \cup {NoUser}],
           account[e] # NoUser, SetVersion(e, v)
    PROVE  /\ account' \in [Emails -> User \cup {NoUser}]
           /\ \A f \in Emails : f # e => account'[f] = account[f]
           /\ account'[e] \in User
           /\ account'[e].version = v
           /\ account'[e].profile = account[e].profile /\ account'[e].hash = account[e].hash
BY NoRow DEF SetVersion, User

LEMMA ProfileColumn ==
    ASSUME NEW e \in Emails, NEW p \in Nat, account \in [Emails -> User \cup {NoUser}],
           account[e] # NoUser, WriteProfile(e, p)
    PROVE  /\ account' \in [Emails -> User \cup {NoUser}]
           /\ \A f \in Emails : f # e => account'[f] = account[f]
           /\ account'[e] \in User
           /\ account'[e].profile = p
           /\ account'[e].version = account[e].version /\ account'[e].hash = account[e].hash
BY NoRow DEF WriteProfile, User

\* A new pair of tokens comes after the others and changes none of them.
LEMMA IssueAppends ==
    ASSUME NEW e \in Emails, NEW v \in Nat, NEW origin \in {"login", "refresh"},
           tokens \in Seq(Token), Issue(e, v, origin)
    PROVE  /\ tokens' \in Seq(Token)
           /\ Len(tokens') = Len(tokens) + 1 /\ Len(tokens') <= MaxTokens
           /\ \A t \in 1 .. Len(tokens) : tokens'[t] = tokens[t]
           /\ tokens'[Len(tokens')].email = e /\ tokens'[Len(tokens')].version = v
<1>1. [email |-> e, version |-> v, from |-> origin] \in Token
  BY DEF Token
<1> QED BY <1>1, NoRow DEF Issue
-----------------------------------------------------------------------------
(* The inductive invariant *)

\* The initial states satisfy it.
LEMMA InitEstablishesIInv == Init => IInv
<1> SUFFICES ASSUME Init PROVE IInv
  OBVIOUS
<1>1. \A h \in Handlers : req[h] \in Request /\ req[h].step = "idle"
  BY DEF Init, Idle, Request
<1>2. Shapes
  BY <1>1, NoRow DEF Init, Shapes
<1>3. Known /\ OneWriter /\ Current /\ Unspent /\ SpentIsOld /\ FutureIsUnspent /\ EndedIsOver /\ SettledIsRevoked /\ LastEdit
  BY <1>1, <1>2, NoRow DEF Init, Known, OneWriter, Current, Unspent, SpentIsOld,
     FutureIsUnspent, EndedIsOver, SettledIsRevoked, LastEdit, ProfileIsLastEdit, Holding, Writing
<1> QED BY <1>2, <1>3 DEF IInv

(***************************************************************************)
(* Every step keeps it: one step per action; under it, what the action     *)
(* does to its request and to the row, then the conjuncts.                 *)
(***************************************************************************)
LEMMA StepKeepsIInv ==
    ASSUME IInv, [Next]_vars
    PROVE  IInv'
<1> USE DEF IInv, rowVars, history
<1>a. /\ Len(tokens) \in Nat /\ Len(tokens) <= MaxTokens
      /\ \A t \in 1 .. Len(tokens) : tokens[t].email \in Emails /\ tokens[t].version \in Nat
  <2>1. \A t \in 1 .. Len(tokens) : tokens[t] \in Token
    BY DEF Shapes
  <2>2. Len(tokens) \in Nat /\ Len(tokens) <= MaxTokens
    BY DEF Shapes
  <2> QED BY <2>1, <2>2 DEF Token
<1>b. \A h \in Handlers : req[h].step # "idle" => req[h].email \in Emails
  BY RequestShape DEF Shapes
<1>c. \A e \in Emails : account[e] # NoUser => account[e].version \in Nat
  BY NoRow DEF Shapes, User
<1>e. \A t \in 1 .. MaxTokens : spent[t] \in Nat
  BY DEF Shapes
<1>d. /\ settled \subseteq 1 .. Len(tokens)
      /\ DOMAIN overlapped = Emails /\ DOMAIN ended = Emails
      /\ DOMAIN edited = Emails /\ DOMAIN shown = Emails /\ DOMAIN raced = Emails
  BY DEF Shapes
<1>1. ASSUME NEW h \in Handlers, NEW e \in Emails, SignupLookup(h, e) PROVE IInv'
  <2>1. /\ req' \in [Handlers -> Request] /\ \A g \in Handlers : g # h => req'[g] = req[g]
        /\ req'[h].step = "signup" /\ req'[h].email = e
    BY <1>1 DEF SignupLookup, Begin, Shapes, Request, Idle
  <2>2. Shapes'
    BY <1>1, NoRow, <2>1 DEF SignupLookup, Shapes
  <2>3. Known'
    BY <1>1, NoRow, <2>1, <1>a, <1>b DEF SignupLookup, Known, Holding, Writing
  <2>4. OneWriter'
    BY <1>1, NoRow, <2>1, <1>b DEF SignupLookup, OneWriter, Writing
  <2>5. Current'
    BY <1>1, NoRow, <2>1, <1>b DEF SignupLookup, Current, Writing
  <2>6. Unspent'
    BY <1>1, NoRow, <2>1, <1>b DEF SignupLookup, Unspent
  <2>7. SpentIsOld'
    BY <1>1, NoRow, <2>1, <1>a, <1>c, <1>e DEF SignupLookup, SpentIsOld
  <2>8. FutureIsUnspent'
    BY <1>1, NoRow, <2>1, <1>e DEF SignupLookup, FutureIsUnspent
  <2>9. EndedIsOver'
    BY <1>1, NoRow, <2>1, <1>b, <1>d DEF SignupLookup, EndedIsOver
  <2>10. SettledIsRevoked'
    BY <1>1, NoRow, <2>1 DEF SignupLookup, SettledIsRevoked
  <2>11. LastEdit'
    BY <1>1, NoRow, <2>1, <1>b, <1>d DEF SignupLookup, LastEdit, ProfileIsLastEdit
  <2> QED BY <2>1, <2>2, <2>3, <2>4, <2>5, <2>6, <2>7, <2>8, <2>9, <2>10, <2>11
<1>2. ASSUME NEW h \in Handlers, NEW e \in Emails, SignupRefused(h, e) PROVE IInv'
  <2>1. UNCHANGED vars
    BY <1>2 DEF SignupRefused
  <2>2. Shapes'
    BY <1>2, NoRow, <2>1 DEF SignupRefused, Shapes, vars
  <2>3. Known'
    BY <1>2, NoRow, <2>1, <1>a, <1>b DEF SignupRefused, Known, Holding, Writing, vars
  <2>4. OneWriter'
    BY <1>2, NoRow, <2>1, <1>b DEF SignupRefused, OneWriter, Writing, vars
  <2>5. Current'
    BY <1>2, NoRow, <2>1, <1>b DEF SignupRefused, Current, Writing, vars
  <2>6. Unspent'
    BY <1>2, NoRow, <2>1, <1>b DEF SignupRefused, Unspent, vars
  <2>7. SpentIsOld'
    BY <1>2, NoRow, <2>1, <1>a, <1>c, <1>e DEF SignupRefused, SpentIsOld, vars
  <2>8. FutureIsUnspent'
    BY <1>2, NoRow, <2>1, <1>e DEF SignupRefused, FutureIsUnspent, vars
  <2>9. EndedIsOver'
    BY <1>2, NoRow, <2>1, <1>b, <1>d DEF SignupRefused, EndedIsOver, vars
  <2>10. SettledIsRevoked'
    BY <1>2, NoRow, <2>1 DEF SignupRefused, SettledIsRevoked, vars
  <2>11. LastEdit'
    BY <1>2, NoRow, <2>1, <1>b, <1>d DEF SignupRefused, LastEdit, ProfileIsLastEdit, vars
  <2> QED BY <2>1, <2>2, <2>3, <2>4, <2>5, <2>6, <2>7, <2>8, <2>9, <2>10, <2>11
<1>3. ASSUME NEW h \in Handlers, SignupSave(h) PROVE IInv'
  <2>1. /\ req' \in [Handlers -> Request] /\ \A g \in Handlers : g # h => req'[g] = req[g]
        /\ req'[h].step = "idle"
    BY <1>3 DEF SignupSave, End, Shapes, Request, Idle
  <2>2. /\ req[h].email \in Emails /\ account[req[h].email] = NoUser
        /\ account' \in [Emails -> User \cup {NoUser}] /\ account'[req[h].email] \in User
        /\ account'[req[h].email].profile = 0
        /\ \A f \in Emails : f # req[h].email => account'[f] = account[f]
    BY <1>3, RequestShape DEF SignupSave, Account, Shapes, User
  <2>3. Shapes'
    BY <1>3, NoRow, <2>1, <2>2 DEF SignupSave, Shapes
  <2>4. Known'
    BY <1>3, NoRow, <2>1, <2>2, <1>a, <1>b DEF SignupSave, Known, Holding, Writing
  <2>5. OneWriter'
    BY <1>3, NoRow, <2>1, <1>b DEF SignupSave, OneWriter, Writing
  <2>6. Unspent'
    BY <1>3, NoRow, <2>1, <1>b DEF SignupSave, Unspent
  <2>7. Current'
    BY <1>3, NoRow, <2>1, <2>2, <1>b DEF SignupSave, Current, Writing, Known, Holding
  <2>8. SpentIsOld'
    BY <1>3, NoRow, <2>2, <1>a, <1>c, <1>e DEF SignupSave, SpentIsOld, Known
  <2>9. FutureIsUnspent'
    BY <1>3, NoRow, <1>e DEF SignupSave, FutureIsUnspent
  <2>10. EndedIsOver'
    BY <1>3, NoRow, <2>1, <2>2, <1>b, <1>d DEF SignupSave, EndedIsOver
  <2>11. LastEdit'
    BY <1>3, NoRow, <2>1, <2>2, <1>b, <1>d DEF SignupSave, LastEdit, ProfileIsLastEdit
  <2>12. SettledIsRevoked'
    BY <1>3, NoRow, <2>1 DEF SignupSave, SettledIsRevoked
  <2> QED BY <2>1, <2>2, <2>3, <2>4, <2>5, <2>6, <2>7, <2>8, <2>9, <2>10, <2>11, <2>12
<1>4. ASSUME NEW h \in Handlers, NEW b \in Browsers, NEW e \in Emails, LoginRead(h, b, e) PROVE IInv'
  <2>1. account[e] \in User /\ account[e].version \in Nat
    BY <1>4, NoRow DEF LoginRead, Shapes, User
  <2>2. /\ req' \in [Handlers -> Request] /\ \A g \in Handlers : g # h => req'[g] = req[g]
        /\ req'[h].step = "login" /\ req'[h].email = e
    BY <1>4, <2>1 DEF LoginRead, Begin, Shapes, Request, Idle
  <2>3. Shapes'
    BY <1>4, NoRow, <2>2 DEF LoginRead, Shapes
  <2>4. Known'
    BY <1>4, NoRow, <2>2, <1>a, <1>b DEF LoginRead, Known, Holding, Writing
  <2>5. OneWriter'
    BY <1>4, NoRow, <2>2, <1>b DEF LoginRead, OneWriter, Writing
  <2>6. Current'
    BY <1>4, NoRow, <2>2, <1>b DEF LoginRead, Current, Writing
  <2>7. Unspent'
    BY <1>4, NoRow, <2>2, <1>b DEF LoginRead, Unspent
  <2>8. SpentIsOld'
    BY <1>4, NoRow, <2>2, <1>a, <1>c, <1>e DEF LoginRead, SpentIsOld
  <2>9. FutureIsUnspent'
    BY <1>4, NoRow, <2>2, <1>e DEF LoginRead, FutureIsUnspent
  <2>10. EndedIsOver'
    BY <1>4, NoRow, <2>2, <1>b, <1>d DEF LoginRead, EndedIsOver
  <2>11. SettledIsRevoked'
    BY <1>4, NoRow, <2>2 DEF LoginRead, SettledIsRevoked
  <2>12. LastEdit'
    BY <1>4, NoRow, <2>2, <1>b, <1>d DEF LoginRead, LastEdit, ProfileIsLastEdit
  <2> QED BY <2>1, <2>2, <2>3, <2>4, <2>5, <2>6, <2>7, <2>8, <2>9, <2>10, <2>11, <2>12
<1>5. ASSUME NEW h \in Handlers, LoginSave(h) PROVE IInv'
  <2>1. /\ req[h].step = "login" /\ req[h].email \in Emails /\ account[req[h].email] # NoUser
        /\ req[h].browser \in Browsers /\ req[h].version \in Nat
    BY <1>5, RequestShape DEF LoginSave, Shapes, Known
  <2>2. /\ req' \in [Handlers -> Request] /\ \A g \in Handlers : g # h => req'[g] = req[g]
        /\ req'[h].step = "idle"
    BY <1>5 DEF LoginSave, End, Shapes, Request, Idle
  <2>3. /\ account' \in [Emails -> User \cup {NoUser}] /\ account'[req[h].email] \in User
        /\ \A f \in Emails : f # req[h].email => account'[f] = account[f]
    BY <1>5, <2>1, HashColumn DEF LoginSave, Shapes, Raised
  <2>4. account'[req[h].email].version = account[req[h].email].version
    BY <1>5, <2>1, HashColumn DEF LoginSave, Shapes, Raised
  <2>5. account'[req[h].email].profile = account[req[h].email].profile
    BY <1>5, <2>1, HashColumn DEF LoginSave, Shapes, Raised
  <2>6. /\ tokens' \in Seq(Token) /\ Len(tokens') = Len(tokens) + 1 /\ Len(tokens') <= MaxTokens
        /\ \A t \in 1 .. Len(tokens) : tokens'[t] = tokens[t]
        /\ tokens'[Len(tokens')].email = req[h].email
    BY <1>5, <2>1, IssueAppends DEF LoginSave, Shapes
  <2>7. cookie' \in [Browsers -> 0 .. Len(tokens')]
    BY <1>5, <1>a, <2>1, <2>6 DEF LoginSave, Answer, SetCookies, Shapes
  <2>8. ended' \in [Emails -> BOOLEAN]
    BY <1>5 DEF LoginSave, Shapes
  <2>9. Shapes'
    BY <1>5, NoRow, <2>2, <2>3, <2>6, <2>7, <2>8 DEF LoginSave, Shapes
  <2>10. \A t \in 1 .. Len(tokens') : account'[tokens'[t].email] # NoUser
    <3>1. \A f \in Emails : account[f] # NoUser => account'[f] # NoUser
      BY <2>3, NoRow
    <3>2. ASSUME NEW t \in 1 .. Len(tokens) PROVE account'[tokens'[t].email] # NoUser
      <4>1. tokens'[t] = tokens[t] /\ account[tokens[t].email] # NoUser /\ tokens[t].email \in Emails
        BY <1>a, <2>6, <3>2 DEF Known
      <4> QED BY <3>1, <4>1
    <3>3. account'[tokens'[Len(tokens')].email] # NoUser
      BY <2>1, <2>6, <3>1
    <3> QED BY <1>a, <2>6, <3>2, <3>3
  <2>11. Known'
    <3>1. \A f \in Emails : account[f] # NoUser => account'[f] # NoUser
      BY <2>3, NoRow
    <3>2. \A g \in Handlers : req'[g] = req[g] \/ req'[g].step = "idle"
      BY <2>2
    <3>3. 1 .. Len(tokens) \subseteq 1 .. Len(tokens')
      BY <1>a, <2>6
    <3>4. \A g \in Handlers : req'[g].step \in Holding =>
              req'[g].token \in 1 .. Len(tokens') /\ tokens'[req'[g].token].email = req'[g].email
      BY <2>6, <3>2, <3>3 DEF Known, Holding, Writing
    <3>5. \A g \in Handlers : req'[g].step = "bump" => req'[g].new \in 1 .. Len(tokens')
      BY <3>2, <3>3 DEF Known
    <3>6. \A g \in Handlers : req'[g].step \notin {"idle", "signup"} => account'[req'[g].email] # NoUser
      BY <1>b, <3>1, <3>2 DEF Known
    <3> QED BY <2>10, <3>4, <3>5, <3>6 DEF Known
  <2>12. OneWriter'
    BY <1>5, NoRow, <2>2, <1>b DEF LoginSave, OneWriter, Writing
  <2>13. Current'
    BY <1>5, NoRow, <2>1, <2>2, <2>3, <2>4, <1>b DEF LoginSave, Current, Writing
  <2>14. Unspent'
    BY <1>5, NoRow, <2>2, <2>6, <1>b DEF LoginSave, Unspent, Known, Holding, Writing
  <2>15. \A t \in 1 .. Len(tokens') : t \in 1 .. Len(tokens) \/ spent[t] = 0
    BY <1>5, <1>a, <2>6 DEF LoginSave, FutureIsUnspent
  <2>16. SpentIsOld'
    <3>1. UNCHANGED <<spent, overlapped>>
      BY <1>5 DEF LoginSave
    <3>2. \A e \in Emails : account[e] # NoUser => account'[e].version = account[e].version
      BY <2>3, <2>4
    <3> QED BY <2>6, <2>15, <3>1, <3>2, <1>a, <1>e DEF SpentIsOld, Known
  <2>17. FutureIsUnspent'
    BY <1>5, NoRow, <1>a, <2>6, <1>e DEF LoginSave, FutureIsUnspent
  <2>18. EndedIsOver'
    BY <1>5, NoRow, <2>1, <2>2, <2>3, <1>b, <1>d DEF LoginSave, EndedIsOver
  <2>19. SettledIsRevoked'
    BY <1>5, NoRow, <2>2 DEF LoginSave, SettledIsRevoked
  <2>20. LastEdit'
    BY <1>5, NoRow, <2>1, <2>2, <2>3, <2>5, <1>b, <1>d
       DEF LoginSave, LastEdit, ProfileIsLastEdit
  <2> QED BY <2>1, <2>2, <2>3, <2>4, <2>5, <2>6, <2>7, <2>8, <2>9, <2>10, <2>11, <2>12,
             <2>13, <2>14, <2>15, <2>16, <2>17, <2>18, <2>19, <2>20
<1>6. ASSUME NEW h \in Handlers, NEW b \in Browsers, RefreshCheck(h, b) PROVE IInv'
  <2>1. /\ cookie[b] \in 1 .. Len(tokens) /\ tokens[cookie[b]].email \in Emails
        /\ account[tokens[cookie[b]].email] # NoUser
    BY <1>6, <1>a DEF RefreshCheck, Shapes, Known
  <2>2. /\ req' \in [Handlers -> Request] /\ \A g \in Handlers : g # h => req'[g] = req[g]
        /\ req'[h].step = "verify" /\ req'[h].token = cookie[b] /\ req'[h].email = tokens[cookie[b]].email
    BY <1>6, <2>1 DEF RefreshCheck, Begin, Shapes, Request, Idle
  <2>3. Shapes'
    BY <1>6, NoRow, <2>2 DEF RefreshCheck, Shapes
  <2>4. Known'
    BY <1>6, NoRow, <2>1, <2>2, <1>a, <1>b DEF RefreshCheck, Known, Holding, Writing
  <2>5. OneWriter'
    BY <1>6, NoRow, <2>2, <1>b DEF RefreshCheck, OneWriter, Writing
  <2>6. Current'
    BY <1>6, NoRow, <2>2, <1>b DEF RefreshCheck, Current, Writing
  <2>7. Unspent'
    BY <1>6, NoRow, <2>2, <1>b DEF RefreshCheck, Unspent
  <2>8. SpentIsOld'
    BY <1>6, NoRow, <2>2, <1>a, <1>c, <1>e DEF RefreshCheck, SpentIsOld
  <2>9. FutureIsUnspent'
    BY <1>6, NoRow, <2>2, <1>e DEF RefreshCheck, FutureIsUnspent
  <2>10. EndedIsOver'
    BY <1>6, NoRow, <2>2, <1>b, <1>d DEF RefreshCheck, EndedIsOver
  <2>11. LastEdit'
    BY <1>6, NoRow, <2>2, <1>b, <1>d DEF RefreshCheck, LastEdit, ProfileIsLastEdit
  <2>12. SettledIsRevoked'
    BY <1>6, NoRow, <2>2 DEF RefreshCheck, SettledIsRevoked, Refused
  <2> QED BY <2>1, <2>2, <2>3, <2>4, <2>5, <2>6, <2>7, <2>8, <2>9, <2>10, <2>11, <2>12
<1>7. ASSUME NEW h \in Handlers, RefreshRead(h) PROVE IInv'
  <2>1. /\ req[h] \in Request /\ req[h].step = "verify" /\ req[h].email \in Emails
        /\ account[req[h].email] # NoUser
        /\ req[h].token \in 1 .. Len(tokens) /\ tokens[req[h].token].email = req[h].email
    BY <1>7, RequestShape DEF RefreshRead, Shapes, Known, Holding, Writing, Request
  <2>2. /\ account[req[h].email] \in User /\ account[req[h].email].version \in Nat
        /\ account[req[h].email].hash # FALSE
    BY <1>7, <2>1, NoRow DEF RefreshRead, Shapes, User, Account, Matches
  <2>3. /\ req' \in [Handlers -> Request] /\ \A g \in Handlers : g # h => req'[g] = req[g]
        /\ req'[h].step = "rotate" /\ req'[h].token = req[h].token /\ req'[h].email = req[h].email /\ req'[h].version = account[req[h].email].version
    BY <1>7, <2>1, <2>2 DEF RefreshRead, Account, Shapes, Request, Idle
  <2>4. /\ overlapped' \in [Emails -> BOOLEAN]
        /\ \A e \in Emails : overlapped[e] => overlapped'[e]
        /\ \A f \in Handlers : (f # h /\ req[f].step \in Writing /\ req[f].email = req[h].email)
               => overlapped'[req[h].email]
    BY <1>7, <2>1 DEF RefreshRead, Overlaps, Writers, Writing, Shapes
  <2>5. tokens[req[h].token].version = account[req[h].email].version
    BY <1>7 DEF RefreshRead, VersionMatches, Account
  <2>6. Shapes'
    BY <1>7, NoRow, <2>3, <2>4 DEF RefreshRead, Shapes
  <2>7. Known'
    BY <1>7, NoRow, <2>1, <2>3, <1>a, <1>b DEF RefreshRead, Known, Holding, Writing
  <2>8. OneWriter'
    BY <1>7, NoRow, <2>1, <2>3, <2>4, <1>b DEF RefreshRead, OneWriter, Writing
  <2>9. Current'
    BY <1>7, NoRow, <2>1, <2>2, <2>3, <2>4, <1>b DEF RefreshRead, Current, Writing
  <2>10. Unspent'
    BY <1>7, NoRow, <1>a, <1>c, <1>e, <2>1, <2>2, <2>3, <2>4, <2>5, <1>b
       DEF RefreshRead, Unspent, SpentIsOld
  <2>11. SpentIsOld'
    BY <1>7, NoRow, <2>3, <2>4, <1>a, <1>c, <1>e DEF RefreshRead, SpentIsOld
  <2>12. FutureIsUnspent'
    BY <1>7, NoRow, <1>e DEF RefreshRead, FutureIsUnspent
  <2>13. EndedIsOver'
    <3>1. UNCHANGED <<account, ended>>
      BY <1>7 DEF RefreshRead
    <3>2. ASSUME ended[req[h].email] PROVE FALSE
      BY <2>1, <2>2, <3>2 DEF EndedIsOver
    <3>3. \A g \in Handlers : req'[g] = req[g] \/ req'[g].email = req[h].email
      BY <2>3
    <3> QED BY <3>1, <3>2, <3>3 DEF EndedIsOver
  <2>14. SettledIsRevoked'
    BY <1>7, NoRow, <2>1, <2>2, <2>3 DEF RefreshRead, SettledIsRevoked
  <2>15. LastEdit'
    BY <1>7, NoRow, <2>1, <2>2, <2>3, <1>b, <1>d
       DEF RefreshRead, LastEdit, ProfileIsLastEdit
  <2> QED BY <2>1, <2>2, <2>3, <2>4, <2>5, <2>6, <2>7, <2>8, <2>9, <2>10, <2>11, <2>12,
             <2>13, <2>14, <2>15
<1>8. ASSUME NEW h \in Handlers, RefreshStale(h) PROVE IInv'
  <2>1. /\ req[h] \in Request /\ req[h].step = "verify" /\ req[h].email \in Emails
        /\ account[req[h].email] # NoUser
        /\ req[h].token \in 1 .. Len(tokens) /\ tokens[req[h].token].email = req[h].email
    BY <1>8, RequestShape DEF RefreshStale, Shapes, Known, Holding, Writing, Request
  <2>2. account[req[h].email] \in User /\ account[req[h].email].version \in Nat
    BY <1>8, <2>1, NoRow DEF RefreshStale, Shapes, User
  <2>3. /\ req' \in [Handlers -> Request] /\ \A g \in Handlers : g # h => req'[g] = req[g]
        /\ req'[h].step = "alert" /\ req'[h].token = req[h].token /\ req'[h].email = req[h].email /\ req'[h].version = account[req[h].email].version
    BY <1>8, <2>1, <2>2 DEF RefreshStale, Account, Shapes, Request, Idle
  <2>4. /\ overlapped' \in [Emails -> BOOLEAN]
        /\ \A e \in Emails : overlapped[e] => overlapped'[e]
        /\ \A f \in Handlers : (f # h /\ req[f].step \in Writing /\ req[f].email = req[h].email)
               => overlapped'[req[h].email]
    BY <1>8, <2>1 DEF RefreshStale, Overlaps, Writers, Writing, Shapes
  <2>5. Shapes'
    BY <1>8, NoRow, <2>3, <2>4 DEF RefreshStale, Shapes
  <2>6. Known'
    BY <1>8, NoRow, <2>1, <2>3, <1>a, <1>b DEF RefreshStale, Known, Holding, Writing
  <2>7. OneWriter'
    BY <1>8, NoRow, <2>1, <2>3, <2>4, <1>b DEF RefreshStale, OneWriter, Writing
  <2>8. Current'
    BY <1>8, NoRow, <2>1, <2>2, <2>3, <2>4, <1>b DEF RefreshStale, Current, Writing
  <2>9. Unspent'
    BY <1>8, NoRow, <2>1, <2>3, <2>4, <1>b DEF RefreshStale, Unspent
  <2>10. SpentIsOld'
    BY <1>8, NoRow, <2>3, <2>4, <1>a, <1>c, <1>e DEF RefreshStale, SpentIsOld
  <2>11. FutureIsUnspent'
    BY <1>8, NoRow, <1>e DEF RefreshStale, FutureIsUnspent
  <2>12. EndedIsOver'
    BY <1>8, NoRow, <2>1, <2>2, <2>3, <1>b, <1>d DEF RefreshStale, EndedIsOver
  <2>13. SettledIsRevoked'
    BY <1>8, NoRow, <2>1, <2>2, <2>3 DEF RefreshStale, SettledIsRevoked
  <2>14. LastEdit'
    BY <1>8, NoRow, <2>1, <2>2, <2>3, <1>b, <1>d
       DEF RefreshStale, LastEdit, ProfileIsLastEdit
  <2> QED BY <2>1, <2>2, <2>3, <2>4, <2>5, <2>6, <2>7, <2>8, <2>9, <2>10, <2>11, <2>12,
             <2>13, <2>14
<1>9. ASSUME NEW h \in Handlers, RefreshRefused(h) PROVE IInv'
  <2>1. /\ req' \in [Handlers -> Request] /\ \A g \in Handlers : g # h => req'[g] = req[g]
        /\ req'[h].step = "idle"
    BY <1>9 DEF RefreshRefused, End, Shapes, Request, Idle
  <2>2. Shapes'
    BY <1>9, NoRow, <2>1 DEF RefreshRefused, Shapes
  <2>3. Known'
    BY <1>9, NoRow, <2>1, <1>a, <1>b DEF RefreshRefused, Known, Holding, Writing
  <2>4. OneWriter'
    BY <1>9, NoRow, <2>1, <1>b DEF RefreshRefused, OneWriter, Writing
  <2>5. Current'
    BY <1>9, NoRow, <2>1, <1>b DEF RefreshRefused, Current, Writing
  <2>6. Unspent'
    BY <1>9, NoRow, <2>1, <1>b DEF RefreshRefused, Unspent
  <2>7. SpentIsOld'
    BY <1>9, NoRow, <2>1, <1>a, <1>c, <1>e DEF RefreshRefused, SpentIsOld
  <2>8. FutureIsUnspent'
    BY <1>9, NoRow, <2>1, <1>e DEF RefreshRefused, FutureIsUnspent
  <2>9. EndedIsOver'
    BY <1>9, NoRow, <2>1, <1>b, <1>d DEF RefreshRefused, EndedIsOver
  <2>10. SettledIsRevoked'
    BY <1>9, NoRow, <2>1 DEF RefreshRefused, SettledIsRevoked
  <2>11. LastEdit'
    BY <1>9, NoRow, <2>1, <1>b, <1>d DEF RefreshRefused, LastEdit, ProfileIsLastEdit
  <2> QED BY <2>1, <2>2, <2>3, <2>4, <2>5, <2>6, <2>7, <2>8, <2>9, <2>10, <2>11
<1>10. ASSUME NEW h \in Handlers, RefreshAlert(h) PROVE IInv'
  <2>1. /\ req[h] \in Request /\ req[h].step = "alert" /\ req[h].email \in Emails
        /\ account[req[h].email] # NoUser
        /\ req[h].token \in 1 .. Len(tokens) /\ tokens[req[h].token].email = req[h].email /\ req[h].version \in Nat
    BY <1>10, RequestShape DEF RefreshAlert, Shapes, Known, Holding, Writing, Request
  <2>2. /\ req' \in [Handlers -> Request] /\ \A g \in Handlers : g # h => req'[g] = req[g]
        /\ req'[h].step = "idle"
    BY <1>10 DEF RefreshAlert, End, Shapes, Request, Idle
  <2>3. /\ account' \in [Emails -> User \cup {NoUser}] /\ account'[req[h].email] \in User
        /\ \A f \in Emails : f # req[h].email => account'[f] = account[f]
    BY <1>10, <2>1, VersionColumn DEF RefreshAlert, Shapes, Raised
  <2>4. account'[req[h].email].version = req[h].version + 1
    BY <1>10, <2>1, VersionColumn DEF RefreshAlert, Shapes, Raised
  <2>5. account'[req[h].email].profile = account[req[h].email].profile
    BY <1>10, <2>1, VersionColumn DEF RefreshAlert, Shapes, Raised
  <2>6. account'[req[h].email].hash = account[req[h].email].hash
    BY <1>10, <2>1, VersionColumn DEF RefreshAlert, Shapes, Raised
  <2>7. Shapes'
    BY <1>10, NoRow, <2>2, <2>3 DEF RefreshAlert, Shapes
  <2>8. Known'
    BY <1>10, NoRow, <2>1, <2>2, <2>3, <1>a, <1>b DEF RefreshAlert, Known, Holding, Writing
  <2>9. OneWriter'
    BY <1>10, NoRow, <2>2, <1>b DEF RefreshAlert, OneWriter, Writing
  <2>10. Unspent'
    BY <1>10, NoRow, <2>2, <1>b DEF RefreshAlert, Unspent
  <2>11. Current'
    BY <1>10, NoRow, <2>1, <2>2, <2>3, <2>4, <1>b
       DEF RefreshAlert, Current, Writing, OneWriter
  <2>12. ~overlapped[req[h].email] =>
          account'[req[h].email].version = account[req[h].email].version + 1
    BY <1>10, <2>1, <2>4 DEF RefreshAlert, Current, Writing
  <2>13. \A e \in Emails : (account[e] # NoUser /\ ~overlapped[e]) =>
          /\ account[e].version \in Nat /\ account'[e].version \in Nat
          /\ account[e].version <= account'[e].version
    BY <1>10, <1>c, <2>1, <2>3, <2>12 DEF RefreshAlert
  <2>14. SpentIsOld'
    <3>1. UNCHANGED <<tokens, spent, overlapped>>
      BY <1>10 DEF RefreshAlert
    <3> QED BY <2>13, <3>1, <1>a, <1>e DEF SpentIsOld, Known
  <2>15. FutureIsUnspent'
    BY <1>10, NoRow, <1>e DEF RefreshAlert, FutureIsUnspent
  <2>16. EndedIsOver'
    BY <1>10, NoRow, <2>1, <2>2, <2>3, <2>6, <1>b, <1>d DEF RefreshAlert, EndedIsOver
  <2>17. SettledIsRevoked'
    BY <1>10, NoRow, <2>2 DEF RefreshAlert, SettledIsRevoked
  <2>18. LastEdit'
    BY <1>10, NoRow, <2>1, <2>2, <2>3, <2>5, <1>b, <1>d
       DEF RefreshAlert, LastEdit, ProfileIsLastEdit
  <2> QED BY <2>1, <2>2, <2>3, <2>4, <2>5, <2>6, <2>7, <2>8, <2>9, <2>10, <2>11, <2>12,
             <2>13, <2>14, <2>15, <2>16, <2>17, <2>18
<1>11. ASSUME NEW h \in Handlers, RefreshRotate(h) PROVE IInv'
  <2>1. /\ req[h] \in Request /\ req[h].step = "rotate" /\ req[h].email \in Emails
        /\ account[req[h].email] # NoUser
        /\ req[h].token \in 1 .. Len(tokens) /\ tokens[req[h].token].email = req[h].email
        /\ req[h].browser \in Browsers /\ req[h].version \in Nat
    BY <1>11, RequestShape DEF RefreshRotate, Shapes, Known, Holding, Writing, Request
  <2>2. /\ tokens' \in Seq(Token) /\ Len(tokens') = Len(tokens) + 1 /\ Len(tokens') <= MaxTokens
        /\ \A t \in 1 .. Len(tokens) : tokens'[t] = tokens[t]
        /\ tokens'[Len(tokens')].email = req[h].email
    BY <1>11, <2>1, IssueAppends DEF RefreshRotate, Shapes
  <2>3. /\ account' \in [Emails -> User \cup {NoUser}] /\ account'[req[h].email] \in User
        /\ \A f \in Emails : f # req[h].email => account'[f] = account[f]
    BY <1>11, <2>1, HashColumn DEF RefreshRotate, Shapes, Raised
  <2>4. account'[req[h].email].version = account[req[h].email].version
    BY <1>11, <2>1, HashColumn DEF RefreshRotate, Shapes, Raised
  <2>5. account'[req[h].email].profile = account[req[h].email].profile
    BY <1>11, <2>1, HashColumn DEF RefreshRotate, Shapes, Raised
  <2>6. /\ req' \in [Handlers -> Request] /\ \A g \in Handlers : g # h => req'[g] = req[g]
        /\ req'[h].step = "bump" /\ req'[h].token = req[h].token /\ req'[h].email = req[h].email /\ req'[h].version = req[h].version /\ req'[h].new = Len(tokens')
    BY <1>11, <2>1, <2>2 DEF RefreshRotate, Shapes, Request, Idle
  <2>7. Shapes'
    BY <1>11, NoRow, <2>2, <2>3, <2>6 DEF RefreshRotate, Shapes
  <2>a. \A f \in Emails : account[f] # NoUser => account'[f] # NoUser
    BY <2>3, NoRow
  <2>b. \A t \in 1 .. Len(tokens') : t \in 1 .. Len(tokens) \/ t = Len(tokens')
    BY <1>a, <2>2
  <2>c. Len(tokens') \in 1 .. Len(tokens') /\ 1 .. Len(tokens) \subseteq 1 .. Len(tokens')
    BY <1>a, <2>2
  <2>d. UNCHANGED <<revoked, cookie, spent, overlapped, ended, settled, edited, raced>>
    BY <1>11 DEF RefreshRotate
  <2>8. Known'
    <3>1. \A g \in Handlers : req'[g].step \in Holding =>
              req'[g].token \in 1 .. Len(tokens') /\ tokens'[req'[g].token].email = req'[g].email
      BY <2>1, <2>2, <2>6, <2>c DEF Known, Holding, Writing
    <3>2. \A g \in Handlers : req'[g].step = "bump" => req'[g].new \in 1 .. Len(tokens')
      BY <2>6, <2>c DEF Known
    <3>3. \A g \in Handlers : req'[g].step \notin {"idle", "signup"} => account'[req'[g].email] # NoUser
      BY <1>b, <2>1, <2>6, <2>a DEF Known
    <3>4. \A t \in 1 .. Len(tokens') : account'[tokens'[t].email] # NoUser
      BY <1>a, <2>1, <2>2, <2>a, <2>b DEF Known
    <3> QED BY <3>1, <3>2, <3>3, <3>4 DEF Known
  <2>9. OneWriter'
    BY <1>11, NoRow, <2>1, <2>6, <1>b DEF RefreshRotate, OneWriter, Writing
  <2>10. Current'
    BY <1>11, NoRow, <2>1, <2>3, <2>4, <2>6, <1>b DEF RefreshRotate, Current, Writing
  <2>11. Unspent'
    BY <1>11, NoRow, <2>1, <2>2, <2>6, <1>b
       DEF RefreshRotate, Unspent, Known, Holding, Writing
  <2>12. \A t \in 1 .. Len(tokens') : t \in 1 .. Len(tokens) \/ spent[t] = 0
    BY <1>11, <1>a, <2>2 DEF RefreshRotate, FutureIsUnspent
  <2>13. SpentIsOld'
    <3>1. \A f \in Emails : account'[f].version = account[f].version
      BY <2>3, <2>4
    <3> QED BY <1>a, <2>2, <2>12, <2>d, <3>1 DEF SpentIsOld
  <2>14. FutureIsUnspent'
    BY <1>11, NoRow, <1>a, <2>2, <1>e DEF RefreshRotate, FutureIsUnspent
  <2>15. EndedIsOver'
    BY <1>11, NoRow, <2>1, <2>3, <2>6, <1>b, <1>d DEF RefreshRotate, EndedIsOver
  <2>16. SettledIsRevoked'
    BY <1>11, NoRow, <2>1, <2>6 DEF RefreshRotate, SettledIsRevoked
  <2>17. LastEdit'
    BY <1>11, NoRow, <2>1, <2>3, <2>5, <2>6, <1>b, <1>d
       DEF RefreshRotate, LastEdit, ProfileIsLastEdit
  <2> QED BY <2>1, <2>2, <2>3, <2>4, <2>5, <2>6, <2>7, <2>8, <2>9, <2>10, <2>11, <2>12,
             <2>13, <2>14, <2>15, <2>16, <2>17
<1>12. ASSUME NEW h \in Handlers, RefreshBump(h) PROVE IInv'
  <2>1. /\ req[h] \in Request /\ req[h].step = "bump" /\ req[h].email \in Emails
        /\ account[req[h].email] # NoUser
        /\ req[h].token \in 1 .. Len(tokens) /\ tokens[req[h].token].email = req[h].email
        /\ req[h].browser \in Browsers /\ req[h].version \in Nat /\ req[h].new \in 1 .. Len(tokens)
    BY <1>12, RequestShape DEF RefreshBump, Shapes, Known, Holding, Writing, Request
  <2>2. /\ req' \in [Handlers -> Request] /\ \A g \in Handlers : g # h => req'[g] = req[g]
        /\ req'[h].step = "idle"
    BY <1>12 DEF RefreshBump, End, Shapes, Request, Idle
  <2>a. /\ req[h].version + 1 \in Nat /\ SetVersion(req[h].email, req[h].version + 1)
        /\ UNCHANGED <<tokens, revoked, overlapped, ended, settled, edited, raced>>
    BY <1>12, <2>1 DEF RefreshBump, Raised
  <2>3. /\ account' \in [Emails -> User \cup {NoUser}] /\ account'[req[h].email] \in User
        /\ \A f \in Emails : f # req[h].email => account'[f] = account[f]
    BY <2>1, <2>a, VersionColumn DEF Shapes
  <2>4. account'[req[h].email].version = req[h].version + 1
    BY <2>1, <2>a, VersionColumn DEF Shapes
  <2>5. account'[req[h].email].profile = account[req[h].email].profile
    BY <2>1, <2>a, VersionColumn DEF Shapes
  <2>6. account'[req[h].email].hash = account[req[h].email].hash
    BY <2>1, <2>a, VersionColumn DEF Shapes
  <2>7. /\ spent' \in [1 .. MaxTokens -> Nat] /\ spent'[req[h].token] = spent[req[h].token] + 1
        /\ \A t \in 1 .. MaxTokens : t # req[h].token => spent'[t] = spent[t]
    BY <1>12, <2>1, NoRow DEF RefreshBump, Shapes
  <2>8. cookie' \in [Browsers -> 0 .. Len(tokens)]
    <3>1. cookie' = [cookie EXCEPT ![req[h].browser] = req[h].new] \/ cookie' = cookie
      BY <1>12 DEF RefreshBump, Answer, SetCookies
    <3>2. req[h].new \in 0 .. Len(tokens)
      BY <1>a, <2>1
    <3> QED BY <3>1, <3>2 DEF Shapes
  <2>9. Shapes'
    BY <1>12, NoRow, <2>2, <2>3, <2>7, <2>8 DEF RefreshBump, Shapes
  <2>10. Known'
    <3>1. \A f \in Emails : account[f] # NoUser => account'[f] # NoUser
      BY <2>3, NoRow
    <3>2. \A g \in Handlers : req'[g] = req[g] \/ req'[g].step = "idle"
      BY <2>2
    <3>3. \A g \in Handlers : req'[g].step \notin {"idle", "signup"} => account'[req'[g].email] # NoUser
      BY <1>b, <3>1, <3>2 DEF Known
    <3>4. \A t \in 1 .. Len(tokens') : account'[tokens'[t].email] # NoUser
      BY <1>a, <2>a, <3>1 DEF Known
    <3> QED BY <2>a, <3>2, <3>3, <3>4 DEF Known, Holding, Writing
  <2>11. OneWriter'
    BY <1>12, NoRow, <2>2, <1>b DEF RefreshBump, OneWriter, Writing
  <2>12. Current'
    BY <1>12, NoRow, <2>1, <2>2, <2>3, <2>4, <1>b
       DEF RefreshBump, Current, Writing, OneWriter
  <2>13. Unspent'
    BY <1>12, NoRow, <2>1, <2>2, <2>7, <1>b
       DEF RefreshBump, Unspent, Known, Holding, Writing, OneWriter
  <2>14. ~overlapped[req[h].email] =>
          account'[req[h].email].version = account[req[h].email].version + 1
    BY <1>12, <2>1, <2>4 DEF RefreshBump, Current, Writing
  <2>15. \A e \in Emails : (account[e] # NoUser /\ ~overlapped[e]) =>
          /\ account[e].version \in Nat /\ account'[e].version \in Nat
          /\ account[e].version <= account'[e].version
    BY <1>12, <1>c, <2>1, <2>3, <2>14 DEF RefreshBump
  <2>16. ~overlapped[req[h].email] =>
          /\ spent[req[h].token] = 0
          /\ tokens[req[h].token].version < account'[req[h].email].version
    BY <1>12, <2>1, <2>4 DEF RefreshBump, Unspent
  <2>17. \A t \in 1 .. Len(tokens) : (~overlapped[tokens[t].email] /\ spent[t] # 0) =>
          spent[t] = 1 /\ tokens[t].version < account'[tokens[t].email].version
    BY <1>12, <1>a, <2>15 DEF RefreshBump, SpentIsOld, Known
  <2>18. SpentIsOld'
    <3> SUFFICES ASSUME NEW t \in 1 .. Len(tokens), ~overlapped[tokens[t].email], spent'[t] # 0
                 PROVE  spent'[t] = 1 /\ tokens[t].version < account'[tokens[t].email].version
      BY <2>a DEF SpentIsOld
    <3>1. CASE t = req[h].token
      BY <2>1, <2>7, <2>16, <3>1
    <3>2. CASE t # req[h].token
      BY <1>a, NoRow, <2>7, <2>17, <3>2
    <3> QED BY <3>1, <3>2
  <2>19. FutureIsUnspent'
    BY <1>12, NoRow, <2>1, <2>7, <1>e DEF RefreshBump, FutureIsUnspent
  <2>20. EndedIsOver'
    BY <1>12, NoRow, <2>1, <2>2, <2>3, <2>6, <1>b, <1>d DEF RefreshBump, EndedIsOver
  <2>21. SettledIsRevoked'
    BY <1>12, NoRow, <2>2 DEF RefreshBump, SettledIsRevoked
  <2>22. LastEdit'
    BY <1>12, NoRow, <2>1, <2>2, <2>3, <2>5, <1>b, <1>d
       DEF RefreshBump, LastEdit, ProfileIsLastEdit
  <2> QED BY <2>1, <2>2, <2>3, <2>4, <2>5, <2>6, <2>7, <2>8, <2>9, <2>10, <2>11, <2>12,
             <2>13, <2>14, <2>15, <2>16, <2>17, <2>18, <2>19, <2>20, <2>21, <2>22
<1>13. ASSUME NEW h \in Handlers, NEW b \in Browsers, Logout(h, b) PROVE IInv'
  <2>1. /\ cookie[b] \in 1 .. Len(tokens) /\ tokens[cookie[b]].email \in Emails
        /\ account[tokens[cookie[b]].email] # NoUser
    BY <1>13, <1>a DEF Logout, Shapes, Known
  <2>2. /\ req' \in [Handlers -> Request] /\ \A g \in Handlers : g # h => req'[g] = req[g]
        /\ req'[h].step = "logout" /\ req'[h].token = cookie[b] /\ req'[h].email = tokens[cookie[b]].email
    BY <1>13, <2>1 DEF Logout, Begin, Shapes, Request, Idle
  <2>3. Shapes'
    BY <1>13, NoRow, <2>2 DEF Logout, Shapes
  <2>4. Known'
    BY <1>13, NoRow, <2>1, <2>2, <1>a, <1>b DEF Logout, Known, Holding, Writing
  <2>5. OneWriter'
    BY <1>13, NoRow, <2>2, <1>b DEF Logout, OneWriter, Writing
  <2>6. Current'
    BY <1>13, NoRow, <2>2, <1>b DEF Logout, Current, Writing
  <2>7. Unspent'
    BY <1>13, NoRow, <2>2, <1>b DEF Logout, Unspent
  <2>8. SpentIsOld'
    BY <1>13, NoRow, <2>2, <1>a, <1>c, <1>e DEF Logout, SpentIsOld
  <2>9. FutureIsUnspent'
    BY <1>13, NoRow, <2>2, <1>e DEF Logout, FutureIsUnspent
  <2>10. EndedIsOver'
    BY <1>13, NoRow, <2>2, <1>b, <1>d DEF Logout, EndedIsOver
  <2>11. SettledIsRevoked'
    BY <1>13, NoRow, <2>2 DEF Logout, SettledIsRevoked
  <2>12. LastEdit'
    BY <1>13, NoRow, <2>2, <1>b, <1>d DEF Logout, LastEdit, ProfileIsLastEdit
  <2> QED BY <2>1, <2>2, <2>3, <2>4, <2>5, <2>6, <2>7, <2>8, <2>9, <2>10, <2>11, <2>12
<1>14. ASSUME NEW h \in Handlers, LogoutRefresh(h) PROVE IInv'
  <2>1. /\ req[h] \in Request /\ req[h].step = "logout" /\ req[h].email \in Emails
        /\ account[req[h].email] # NoUser
        /\ req[h].token \in 1 .. Len(tokens) /\ tokens[req[h].token].email = req[h].email
    BY <1>14, RequestShape DEF LogoutRefresh, Shapes, Known, Holding, Writing, Request
  <2>2. req[h] \in [step: {"logout", "access", "remove"}, token: Nat, email: Emails]
    BY <1>14, <2>1 DEF LogoutRefresh, Request, Idle
  <2>3. req'[h] = [step |-> "access", token |-> req[h].token, email |-> req[h].email]
    BY <1>14, <2>2 DEF LogoutRefresh, Goto, Shapes
  <2>4. /\ req' \in [Handlers -> Request] /\ \A g \in Handlers : g # h => req'[g] = req[g]
        /\ req'[h].step = "access" /\ req'[h].token = req[h].token /\ req'[h].email = req[h].email
    BY <1>14, <2>1, <2>2, <2>3 DEF LogoutRefresh, Goto, Shapes, Request, Idle
  <2>5. /\ revoked' \subseteq (1 .. Len(tokens)) \X {"refresh", "access"}
        /\ revoked \subseteq revoked' /\ <<req[h].token, "refresh">> \in revoked'
    BY <1>14, <2>1 DEF LogoutRefresh, Shapes, AddToBlacklist
  <2>6. /\ settled' \subseteq settled \cup {req[h].token} /\ settled' \subseteq 1 .. Len(tokens)
        /\ req[h].token \in settled' \ settled => Refreshing(req[h].token) = {}
    BY <1>14, <2>1 DEF LogoutRefresh, Shapes
  <2>7. \A t \in settled' : \A g \in Handlers :
          req[g].step \in {"verify", "rotate", "bump"} => req[g].token # t
    BY <1>14, <2>6 DEF LogoutRefresh, SettledIsRevoked, Refreshing
  <2>8. Shapes'
    BY <1>14, NoRow, <2>4, <2>5, <2>6 DEF LogoutRefresh, Shapes
  <2>9. Known'
    BY <1>14, NoRow, <2>1, <2>4, <1>a, <1>b DEF LogoutRefresh, Known, Holding, Writing
  <2>10. OneWriter'
    BY <1>14, NoRow, <2>1, <2>4, <1>b DEF LogoutRefresh, OneWriter, Writing
  <2>11. Current'
    BY <1>14, NoRow, <2>1, <2>4, <1>b DEF LogoutRefresh, Current, Writing
  <2>12. Unspent'
    BY <1>14, NoRow, <2>1, <2>4, <1>b DEF LogoutRefresh, Unspent
  <2>13. SpentIsOld'
    BY <1>14, NoRow, <2>1, <2>4, <1>a, <1>c, <1>e DEF LogoutRefresh, SpentIsOld
  <2>14. FutureIsUnspent'
    BY <1>14, NoRow, <2>1, <2>4, <1>e DEF LogoutRefresh, FutureIsUnspent
  <2>15. EndedIsOver'
    BY <1>14, NoRow, <2>1, <2>4, <1>b, <1>d DEF LogoutRefresh, EndedIsOver
  <2>16. LastEdit'
    BY <1>14, NoRow, <2>1, <2>4, <1>b, <1>d DEF LogoutRefresh, LastEdit, ProfileIsLastEdit
  <2>17. SettledIsRevoked'
    <3>1. \A t \in settled' : <<t, "refresh">> \in revoked'
      BY <2>5, <2>6 DEF SettledIsRevoked
    <3>2. \A t \in settled', g \in Handlers :
              req'[g].step \in {"verify", "rotate", "bump"} => req'[g].token # t
      BY <2>4, <2>7
    <3> QED BY <3>1, <3>2 DEF SettledIsRevoked
  <2> QED BY <2>1, <2>2, <2>3, <2>4, <2>5, <2>6, <2>7, <2>8, <2>9, <2>10, <2>11, <2>12,
             <2>13, <2>14, <2>15, <2>16, <2>17
<1>15. ASSUME NEW h \in Handlers, LogoutAccess(h) PROVE IInv'
  <2>1. /\ req[h] \in Request /\ req[h].step = "access" /\ req[h].email \in Emails
        /\ account[req[h].email] # NoUser
        /\ req[h].token \in 1 .. Len(tokens) /\ tokens[req[h].token].email = req[h].email
    BY <1>15, RequestShape DEF LogoutAccess, Shapes, Known, Holding, Writing, Request
  <2>2. req[h] \in [step: {"logout", "access", "remove"}, token: Nat, email: Emails]
    BY <1>15, <2>1 DEF LogoutAccess, Request, Idle
  <2>3. req'[h] = [step |-> "remove", token |-> req[h].token, email |-> req[h].email]
    BY <1>15, <2>2 DEF LogoutAccess, Goto, Shapes
  <2>4. /\ req' \in [Handlers -> Request] /\ \A g \in Handlers : g # h => req'[g] = req[g]
        /\ req'[h].step = "remove" /\ req'[h].token = req[h].token /\ req'[h].email = req[h].email
    BY <1>15, <2>1, <2>2, <2>3 DEF LogoutAccess, Goto, Shapes, Request, Idle
  <2>5. /\ revoked' \subseteq (1 .. Len(tokens)) \X {"refresh", "access"}
        /\ revoked \subseteq revoked'
    BY <1>15, <2>1 DEF LogoutAccess, Shapes, AddToBlacklist
  <2>6. Shapes'
    BY <1>15, NoRow, <2>4, <2>5 DEF LogoutAccess, Shapes
  <2>7. Known'
    BY <1>15, NoRow, <2>1, <2>4, <1>a, <1>b DEF LogoutAccess, Known, Holding, Writing
  <2>8. OneWriter'
    BY <1>15, NoRow, <2>1, <2>4, <1>b DEF LogoutAccess, OneWriter, Writing
  <2>9. Current'
    BY <1>15, NoRow, <2>1, <2>4, <1>b DEF LogoutAccess, Current, Writing
  <2>10. Unspent'
    BY <1>15, NoRow, <2>1, <2>4, <1>b DEF LogoutAccess, Unspent
  <2>11. SpentIsOld'
    BY <1>15, NoRow, <2>1, <2>4, <1>a, <1>c, <1>e DEF LogoutAccess, SpentIsOld
  <2>12. FutureIsUnspent'
    BY <1>15, NoRow, <2>1, <2>4, <1>e DEF LogoutAccess, FutureIsUnspent
  <2>13. EndedIsOver'
    BY <1>15, NoRow, <2>1, <2>4, <1>b, <1>d DEF LogoutAccess, EndedIsOver
  <2>14. LastEdit'
    BY <1>15, NoRow, <2>1, <2>4, <1>b, <1>d DEF LogoutAccess, LastEdit, ProfileIsLastEdit
  <2>15. SettledIsRevoked'
    BY <1>15, NoRow, <2>4, <2>5 DEF LogoutAccess, SettledIsRevoked
  <2> QED BY <2>1, <2>2, <2>3, <2>4, <2>5, <2>6, <2>7, <2>8, <2>9, <2>10, <2>11, <2>12,
             <2>13, <2>14, <2>15
<1>16. ASSUME NEW h \in Handlers, LogoutRemove(h) PROVE IInv'
  <2>1. /\ req[h] \in Request /\ req[h].step = "remove" /\ req[h].email \in Emails
        /\ account[req[h].email] # NoUser
        /\ req[h].token \in 1 .. Len(tokens) /\ tokens[req[h].token].email = req[h].email
    BY <1>16, RequestShape DEF LogoutRemove, Shapes, Known, Holding, Writing, Request
  <2>2. /\ req' \in [Handlers -> Request] /\ \A g \in Handlers : g # h => req'[g] = req[g]
        /\ req'[h].step = "idle"
    BY <1>16 DEF LogoutRemove, End, Shapes, Request, Idle
  <2>3. /\ account' \in [Emails -> User \cup {NoUser}] /\ account'[req[h].email] \in User
        /\ \A f \in Emails : f # req[h].email => account'[f] = account[f]
    BY <1>16, <2>1, HashColumn DEF LogoutRemove, Shapes, Raised
  <2>4. account'[req[h].email].version = account[req[h].email].version
    BY <1>16, <2>1, HashColumn DEF LogoutRemove, Shapes, Raised
  <2>5. account'[req[h].email].profile = account[req[h].email].profile
    BY <1>16, <2>1, HashColumn DEF LogoutRemove, Shapes, Raised
  <2>6. account'[req[h].email].hash = FALSE
    BY <1>16, <2>1, HashColumn DEF LogoutRemove, Shapes, Raised
  <2>7. /\ ended' \in [Emails -> BOOLEAN]
        /\ \A e \in Emails : e # req[h].email => ended'[e] = ended[e]
        /\ ended'[req[h].email] => \A g \in Handlers :
               ~(req[g].step = "rotate" /\ req[g].email = req[h].email)
    BY <1>16, <2>1 DEF LogoutRemove, Shapes, Writers
  <2>8. Shapes'
    BY <1>16, NoRow, <2>2, <2>3, <2>7 DEF LogoutRemove, Shapes
  <2>9. Known'
    BY <1>16, NoRow, <2>1, <2>2, <2>3, <1>a, <1>b DEF LogoutRemove, Known, Holding, Writing
  <2>10. OneWriter'
    BY <1>16, NoRow, <2>2, <1>b DEF LogoutRemove, OneWriter, Writing
  <2>11. Unspent'
    BY <1>16, NoRow, <2>2, <1>b DEF LogoutRemove, Unspent
  <2>12. Current'
    BY <1>16, NoRow, <2>1, <2>2, <2>3, <2>4, <1>b DEF LogoutRemove, Current, Writing
  <2>13. SpentIsOld'
    BY <1>16, NoRow, <2>1, <2>3, <2>4, <1>a, <1>c, <1>e DEF LogoutRemove, SpentIsOld
  <2>14. FutureIsUnspent'
    BY <1>16, NoRow, <1>e DEF LogoutRemove, FutureIsUnspent
  <2>15. EndedIsOver'
    BY <1>16, NoRow, <2>1, <2>2, <2>3, <2>6, <2>7, <1>b, <1>d DEF LogoutRemove, EndedIsOver
  <2>16. SettledIsRevoked'
    BY <1>16, NoRow, <2>2 DEF LogoutRemove, SettledIsRevoked
  <2>17. LastEdit'
    BY <1>16, NoRow, <2>1, <2>2, <2>3, <2>5, <1>b, <1>d
       DEF LogoutRemove, LastEdit, ProfileIsLastEdit
  <2> QED BY <2>1, <2>2, <2>3, <2>4, <2>5, <2>6, <2>7, <2>8, <2>9, <2>10, <2>11, <2>12,
             <2>13, <2>14, <2>15, <2>16, <2>17
<1>17. ASSUME NEW b \in Browsers, ClearCookies(b) PROVE IInv'
  <2>1. Shapes'
    BY <1>17, NoRow DEF ClearCookies, Shapes
  <2>2. Known'
    BY <1>17, NoRow, <1>a, <1>b DEF ClearCookies, Known, Holding, Writing
  <2>3. OneWriter'
    BY <1>17, NoRow, <1>b DEF ClearCookies, OneWriter, Writing
  <2>4. Current'
    BY <1>17, NoRow, <1>b DEF ClearCookies, Current, Writing
  <2>5. Unspent'
    BY <1>17, NoRow, <1>b DEF ClearCookies, Unspent
  <2>6. SpentIsOld'
    BY <1>17, NoRow, <1>a, <1>c, <1>e DEF ClearCookies, SpentIsOld
  <2>7. FutureIsUnspent'
    BY <1>17, NoRow, <1>e DEF ClearCookies, FutureIsUnspent
  <2>8. EndedIsOver'
    BY <1>17, NoRow, <1>b, <1>d DEF ClearCookies, EndedIsOver
  <2>9. SettledIsRevoked'
    BY <1>17, NoRow DEF ClearCookies, SettledIsRevoked
  <2>10. LastEdit'
    BY <1>17, NoRow, <1>b, <1>d DEF ClearCookies, LastEdit, ProfileIsLastEdit
  <2> QED BY <2>1, <2>2, <2>3, <2>4, <2>5, <2>6, <2>7, <2>8, <2>9, <2>10
<1>18. ASSUME NEW h \in Handlers, NEW b \in Browsers, EditCheck(h, b) PROVE IInv'
  <2>1. PICK e \in Emails : e = tokens[cookie[b]].email /\ account[e] # NoUser
    BY <1>18, <1>a DEF EditCheck, Authenticated, Shapes, Known
  <2>2. /\ req' \in [Handlers -> Request] /\ \A g \in Handlers : g # h => req'[g] = req[g]
        /\ req'[h].step = "edit" /\ req'[h].email = e
    BY <1>18, <2>1 DEF EditCheck, Begin, Shapes, Request, Idle
  <2>3. Shapes'
    BY <1>18, NoRow, <2>2 DEF EditCheck, Shapes
  <2>4. Known'
    BY <1>18, NoRow, <2>1, <2>2, <1>a, <1>b DEF EditCheck, Known, Holding, Writing
  <2>5. OneWriter'
    BY <1>18, NoRow, <2>2, <1>b DEF EditCheck, OneWriter, Writing
  <2>6. Current'
    BY <1>18, NoRow, <2>2, <1>b DEF EditCheck, Current, Writing
  <2>7. Unspent'
    BY <1>18, NoRow, <2>2, <1>b DEF EditCheck, Unspent
  <2>8. SpentIsOld'
    BY <1>18, NoRow, <2>2, <1>a, <1>c, <1>e DEF EditCheck, SpentIsOld
  <2>9. FutureIsUnspent'
    BY <1>18, NoRow, <2>2, <1>e DEF EditCheck, FutureIsUnspent
  <2>10. EndedIsOver'
    BY <1>18, NoRow, <2>2, <1>b, <1>d DEF EditCheck, EndedIsOver
  <2>11. SettledIsRevoked'
    BY <1>18, NoRow, <2>2 DEF EditCheck, SettledIsRevoked
  <2>12. LastEdit'
    BY <1>18, NoRow, <2>2, <1>b, <1>d DEF EditCheck, LastEdit, ProfileIsLastEdit
  <2> QED BY <2>1, <2>2, <2>3, <2>4, <2>5, <2>6, <2>7, <2>8, <2>9, <2>10, <2>11, <2>12
<1>23. ASSUME NEW h \in Handlers, EditWrite(h) PROVE IInv'
  <2>1. PICK e \in Emails : e = req[h].email /\ account[e] # NoUser
    BY <1>23, <1>b DEF EditWrite, Known
  <2>a. /\ edited[e] \in Nat /\ edited[e] + 1 \in Nat /\ edited'[e] = edited[e] + 1
        /\ account \in [Emails -> User \cup {NoUser}]
        /\ WriteProfile(e, edited[e] + 1)
    BY <1>23, <2>1 DEF EditWrite, Shapes
  <2>2. /\ account' \in [Emails -> User \cup {NoUser}] /\ account'[e] \in User
        /\ \A f \in Emails : f # e => account'[f] = account[f]
    BY <2>1, <2>a, ProfileColumn
  <2>3. account'[e].version = account[e].version
    BY <2>1, <2>a, ProfileColumn
  <2>4. account'[e].hash = account[e].hash
    BY <2>1, <2>a, ProfileColumn
  <2>5. account'[e].profile = edited'[e] /\ edited[e] <= edited'[e]
    BY <2>1, <2>a, ProfileColumn
  <2>6. /\ edited' \in [Emails -> Nat]
        /\ \A f \in Emails : f # e => edited'[f] = edited[f] /\ raced'[f] = raced[f]
    BY <1>23, <2>1 DEF EditWrite, Shapes
  <2>7. raced' \in [Emails -> BOOLEAN]
    BY <1>23, <2>1, Zenon DEF EditWrite, Shapes, Promoting
  <2>8. /\ \A g \in Handlers : (req[g].step = "promote" /\ req[g].email = e) => raced'[e]
        /\ raced[e] => raced'[e]
    BY <1>23, <2>1 DEF EditWrite, Shapes, Promoting
  <2>19. /\ req' \in [Handlers -> Request] /\ \A g \in Handlers : g # h => req'[g] = req[g]
        /\ req'[h].step = "read" /\ req'[h].email = e
    <3>1. req[h] \in [step: {"edit", "read"}, email: Emails]
      <4>1. req[h] \in Request /\ req[h].step = "edit"
        BY <1>23 DEF EditWrite, Shapes
      <4> QED BY <4>1 DEF Request, Idle
    <3>2. [req[h] EXCEPT !.step = "read"] \in Request
      BY <3>1 DEF Request
    <3> QED BY <1>23, <2>1, <3>1, <3>2 DEF EditWrite, Goto, Shapes
  <2>9. Shapes'
    BY <1>23, NoRow, <2>1, <2>2, <2>6, <2>7, <2>19 DEF EditWrite, Shapes
  <2>10. Known'
    BY <1>23, NoRow, <2>1, <2>2, <2>19, <1>a, <1>b DEF EditWrite, Known, Holding, Writing
  <2>11. OneWriter'
    BY <1>23, NoRow, <2>1, <2>2, <2>3, <2>19, <1>b DEF EditWrite, OneWriter, Writing
  <2>12. Current'
    BY <1>23, NoRow, <2>1, <2>2, <2>3, <2>19, <1>b DEF EditWrite, Current, Writing
  <2>13. Unspent'
    BY <1>23, NoRow, <2>1, <2>2, <2>3, <2>19, <1>b DEF EditWrite, Unspent
  <2>14. SpentIsOld'
    BY <1>23, NoRow, <2>1, <2>2, <2>3, <1>a, <1>c, <1>e DEF EditWrite, SpentIsOld
  <2>15. FutureIsUnspent'
    BY <1>23, NoRow, <2>1, <2>2, <2>3, <1>e DEF EditWrite, FutureIsUnspent
  <2>16. EndedIsOver'
    BY <1>23, NoRow, <2>1, <2>2, <2>4, <2>19, <1>b, <1>d DEF EditWrite, EndedIsOver
  <2>17. SettledIsRevoked'
    BY <1>23, NoRow, <2>19 DEF EditWrite, SettledIsRevoked
  <2>18. LastEdit'
    <3>1. account'[e] # NoUser /\ shown' = shown
      BY <1>23, NoRow, <2>2 DEF EditWrite
    <3>2. \A f \in Emails : account'[f] = NoUser => edited'[f] = 0 /\ shown'[f] = 0
      BY <2>2, <2>6, <3>1 DEF LastEdit
    <3>3. \A g \in Handlers : (req'[g].step = "promote" /\ ~raced'[req'[g].email]) =>
              req'[g].profile = edited'[req'[g].email]
      BY <2>6, <2>8, <2>19, <1>b, <1>d DEF LastEdit
    <3>4. ProfileIsLastEdit'
      <4>1. ~raced'[e] => shown[e] <= edited[e]
        BY <2>1, <2>8 DEF LastEdit, ProfileIsLastEdit
      <4>2. edited[e] \in Nat /\ edited'[e] \in Nat /\ shown[e] \in Nat
        BY <2>6 DEF Shapes
      <4> QED BY <2>2, <2>5, <2>6, <3>1, <4>1, <4>2 DEF LastEdit, ProfileIsLastEdit
    <3> QED BY <3>1, <3>2, <3>3, <3>4 DEF LastEdit
  <2> QED BY <2>1, <2>2, <2>3, <2>4, <2>5, <2>6, <2>7, <2>8, <2>9, <2>10, <2>11, <2>12,
             <2>13, <2>14, <2>15, <2>16, <2>17, <2>18
<1>24. ASSUME NEW h \in Handlers, EditAnswer(h) PROVE IInv'
  <2>1. PICK e \in Emails : e = req[h].email /\ account[e] # NoUser
    BY <1>24, <1>b DEF EditAnswer, Known
  <2>2. /\ req' \in [Handlers -> Request] /\ \A g \in Handlers : g # h => req'[g] = req[g]
        /\ req'[h].step = "idle"
    BY <1>24 DEF EditAnswer, End, Shapes, Request, Idle
  <2>3. account[e] \in User /\ account[e].profile \in Nat
    BY <2>1, NoRow DEF Shapes, User
  <2>4. /\ shown' \in [Emails -> Nat] /\ shown'[e] = account[e].profile
        /\ \A f \in Emails : f # e => shown'[f] = shown[f]
    BY <1>24, <2>1, <2>3 DEF EditAnswer, Account, Shapes
  <2>5. Shapes'
    BY <1>24, NoRow, <2>2, <2>4 DEF EditAnswer, Shapes
  <2>6. Known'
    BY <1>24, NoRow, <2>2, <1>a, <1>b DEF EditAnswer, Known, Holding, Writing
  <2>7. OneWriter'
    BY <1>24, NoRow, <2>2, <1>b DEF EditAnswer, OneWriter, Writing
  <2>8. Current'
    BY <1>24, NoRow, <2>2, <1>b DEF EditAnswer, Current, Writing
  <2>9. Unspent'
    BY <1>24, NoRow, <2>2, <1>b DEF EditAnswer, Unspent
  <2>10. SpentIsOld'
    BY <1>24, NoRow, <2>2, <1>a, <1>c, <1>e DEF EditAnswer, SpentIsOld
  <2>11. FutureIsUnspent'
    BY <1>24, NoRow, <2>2, <1>e DEF EditAnswer, FutureIsUnspent
  <2>12. EndedIsOver'
    BY <1>24, NoRow, <2>2, <1>b, <1>d DEF EditAnswer, EndedIsOver
  <2>13. SettledIsRevoked'
    BY <1>24, NoRow, <2>2 DEF EditAnswer, SettledIsRevoked
  <2>14. LastEdit'
    <3>1. ProfileIsLastEdit'
      <4>1. edited[e] \in Nat /\ (~raced[e] => account[e].profile = edited[e])
        BY <2>1 DEF LastEdit, ProfileIsLastEdit, Shapes
      <4> QED BY <1>24, <2>1, <2>3, <2>4, <4>1 DEF EditAnswer, LastEdit, ProfileIsLastEdit
    <3> QED BY <1>24, <2>1, <2>2, <2>4, <3>1, <1>b, <1>d DEF EditAnswer, LastEdit
  <2> QED BY <2>1, <2>2, <2>5, <2>6, <2>7, <2>8, <2>9, <2>10, <2>11, <2>12, <2>13, <2>14
<1>19. ASSUME NEW h \in Handlers, NEW e \in Emails, PromoteRead(h, e) PROVE IInv'
  <2>1. account[e] \in User /\ account[e].profile \in Nat
    BY <1>19, NoRow DEF PromoteRead, Shapes, User
  <2>2. /\ req' \in [Handlers -> Request] /\ \A g \in Handlers : g # h => req'[g] = req[g]
        /\ req'[h].step = "promote" /\ req'[h].email = e /\ req'[h].profile = account[e].profile
    BY <1>19, <2>1 DEF PromoteRead, Begin, Shapes, Request, Idle
  <2>3. Shapes'
    BY <1>19, NoRow, <2>2 DEF PromoteRead, Shapes
  <2>4. Known'
    BY <1>19, NoRow, <2>2, <1>a, <1>b DEF PromoteRead, Known, Holding, Writing
  <2>5. OneWriter'
    BY <1>19, NoRow, <2>2, <1>b DEF PromoteRead, OneWriter, Writing
  <2>6. Current'
    BY <1>19, NoRow, <2>2, <1>b DEF PromoteRead, Current, Writing
  <2>7. Unspent'
    BY <1>19, NoRow, <2>2, <1>b DEF PromoteRead, Unspent
  <2>8. SpentIsOld'
    BY <1>19, NoRow, <2>2, <1>a, <1>c, <1>e DEF PromoteRead, SpentIsOld
  <2>9. FutureIsUnspent'
    BY <1>19, NoRow, <2>2, <1>e DEF PromoteRead, FutureIsUnspent
  <2>10. EndedIsOver'
    BY <1>19, NoRow, <2>2, <1>b, <1>d DEF PromoteRead, EndedIsOver
  <2>11. SettledIsRevoked'
    BY <1>19, NoRow, <2>2 DEF PromoteRead, SettledIsRevoked
  <2>12. LastEdit'
    BY <1>19, NoRow, <2>2, <1>b, <1>d DEF PromoteRead, LastEdit, ProfileIsLastEdit
  <2> QED BY <2>1, <2>2, <2>3, <2>4, <2>5, <2>6, <2>7, <2>8, <2>9, <2>10, <2>11, <2>12
<1>20. ASSUME NEW h \in Handlers, PromoteWrite(h) PROVE IInv'
  <2>1. /\ req[h].step = "promote" /\ req[h].email \in Emails /\ req[h].profile \in Nat
        /\ account[req[h].email] # NoUser
    BY <1>20, RequestShape DEF PromoteWrite, Shapes, Known
  <2>2. /\ req' \in [Handlers -> Request] /\ \A g \in Handlers : g # h => req'[g] = req[g]
        /\ req'[h].step = "idle"
    BY <1>20 DEF PromoteWrite, End, Shapes, Request, Idle
  <2>3. /\ account' \in [Emails -> User \cup {NoUser}] /\ account'[req[h].email] \in User
        /\ \A f \in Emails : f # req[h].email => account'[f] = account[f]
    BY <1>20, <2>1, ProfileColumn DEF PromoteWrite, Shapes, Raised
  <2>4. account'[req[h].email].version = account[req[h].email].version
    BY <1>20, <2>1, ProfileColumn DEF PromoteWrite, Shapes, Raised
  <2>5. account'[req[h].email].profile = req[h].profile
    BY <1>20, <2>1, ProfileColumn DEF PromoteWrite, Shapes, Raised
  <2>6. account'[req[h].email].hash = account[req[h].email].hash
    BY <1>20, <2>1, ProfileColumn DEF PromoteWrite, Shapes, Raised
  <2>7. Shapes'
    BY <1>20, NoRow, <2>2, <2>3 DEF PromoteWrite, Shapes
  <2>8. Known'
    BY <1>20, NoRow, <2>1, <2>2, <2>3, <1>a, <1>b DEF PromoteWrite, Known, Holding, Writing
  <2>9. OneWriter'
    BY <1>20, NoRow, <2>1, <2>2, <2>3, <2>4, <1>b DEF PromoteWrite, OneWriter, Writing
  <2>10. Current'
    BY <1>20, NoRow, <2>1, <2>2, <2>3, <2>4, <1>b DEF PromoteWrite, Current, Writing
  <2>11. Unspent'
    BY <1>20, NoRow, <2>1, <2>2, <2>3, <2>4, <1>b DEF PromoteWrite, Unspent
  <2>12. SpentIsOld'
    BY <1>20, NoRow, <2>1, <2>2, <2>3, <2>4, <1>a, <1>c, <1>e DEF PromoteWrite, SpentIsOld
  <2>13. FutureIsUnspent'
    BY <1>20, NoRow, <2>1, <2>2, <2>3, <2>4, <1>e DEF PromoteWrite, FutureIsUnspent
  <2>14. EndedIsOver'
    BY <1>20, NoRow, <2>1, <2>2, <2>3, <2>6, <1>b, <1>d DEF PromoteWrite, EndedIsOver
  <2>15. SettledIsRevoked'
    BY <1>20, NoRow, <2>2 DEF PromoteWrite, SettledIsRevoked
  <2>16. LastEdit'
    BY <1>20, NoRow, <2>1, <2>2, <2>3, <2>5, <1>b, <1>d
       DEF PromoteWrite, LastEdit, ProfileIsLastEdit
  <2> QED BY <2>1, <2>2, <2>3, <2>4, <2>5, <2>6, <2>7, <2>8, <2>9, <2>10, <2>11, <2>12,
             <2>13, <2>14, <2>15, <2>16
<1>21. ASSUME NEW h \in Handlers, RequestFails(h) PROVE IInv'
  <2>1. /\ req' \in [Handlers -> Request] /\ \A g \in Handlers : g # h => req'[g] = req[g]
        /\ req'[h].step = "idle"
    BY <1>21 DEF RequestFails, End, Shapes, Request, Idle
  <2>2. Shapes'
    BY <1>21, NoRow, <2>1 DEF RequestFails, Shapes
  <2>3. Known'
    BY <1>21, NoRow, <2>1, <1>a, <1>b DEF RequestFails, Known, Holding, Writing
  <2>4. OneWriter'
    BY <1>21, NoRow, <2>1, <1>b DEF RequestFails, OneWriter, Writing
  <2>5. Current'
    BY <1>21, NoRow, <2>1, <1>b DEF RequestFails, Current, Writing
  <2>6. Unspent'
    BY <1>21, NoRow, <2>1, <1>b DEF RequestFails, Unspent
  <2>7. SpentIsOld'
    BY <1>21, NoRow, <2>1, <1>a, <1>c, <1>e DEF RequestFails, SpentIsOld
  <2>8. FutureIsUnspent'
    BY <1>21, NoRow, <2>1, <1>e DEF RequestFails, FutureIsUnspent
  <2>9. EndedIsOver'
    BY <1>21, NoRow, <2>1, <1>b, <1>d DEF RequestFails, EndedIsOver
  <2>10. SettledIsRevoked'
    BY <1>21, NoRow, <2>1 DEF RequestFails, SettledIsRevoked
  <2>11. LastEdit'
    BY <1>21, NoRow, <2>1, <1>b, <1>d DEF RequestFails, LastEdit, ProfileIsLastEdit
  <2> QED BY <2>1, <2>2, <2>3, <2>4, <2>5, <2>6, <2>7, <2>8, <2>9, <2>10, <2>11
<1>22. ASSUME UNCHANGED vars PROVE IInv'
  BY <1>22
     DEF vars, Shapes, Known, Holding, Writing, OneWriter, Current, Unspent, SpentIsOld,
         FutureIsUnspent, EndedIsOver, SettledIsRevoked, LastEdit, ProfileIsLastEdit
<1> QED
  BY <1>1, <1>2, <1>3, <1>4, <1>5, <1>6, <1>7, <1>8, <1>9, <1>10, <1>11, <1>12, <1>13,
     <1>14, <1>15, <1>16, <1>17, <1>18, <1>19, <1>20, <1>21, <1>22, <1>23, <1>24
     DEF Next
-----------------------------------------------------------------------------
(* The theorems *)

LEMMA Invariance == Spec => []IInv
<1>1. IInv /\ [Next]_vars => IInv'
  BY StepKeepsIInv
<1> QED BY InitEstablishesIInv, <1>1, PTL DEF Spec

\* Rows, tokens, cookies, the blacklist and the requests in flight have their
\* shapes; a request that holds a token holds one of its own account.
THEOREM TypeCorrect == Spec => []TypeOK
<1>1. ASSUME IInv PROVE TypeOK
  <2>1. DOMAIN tokens = 1 .. Len(tokens) /\ \A t \in 1 .. Len(tokens) : tokens[t] \in Token
    BY <1>1 DEF IInv, Shapes
  <2>2. \A h \in Handlers :
            /\ req[h].step \in Steps
            /\ req[h] # Idle => req[h].email \in Emails
    BY <1>1, RequestShape DEF IInv, Shapes
  <2>3. \A h \in Handlers :
            req[h].step \in {"verify", "rotate", "bump", "alert", "logout", "access", "remove"}
            => req[h].token \in DOMAIN tokens /\ tokens[req[h].token].email = req[h].email
    BY <1>1, <2>1 DEF IInv, Known, Holding, Writing
  <2>4. /\ \A e \in Emails : account[e] = NoUser \/ account[e] \in User
        /\ Len(tokens) <= MaxTokens
        /\ revoked \subseteq (DOMAIN tokens) \X {"refresh", "access"}
        /\ \A b \in Browsers : cookie[b] = 0 \/ cookie[b] \in DOMAIN tokens
    <3>1. \A b \in Browsers : cookie[b] \in 0 .. Len(tokens)
      BY <1>1 DEF IInv, Shapes
    <3>2. Len(tokens) \in Nat
      BY <1>1 DEF IInv, Shapes
    <3> QED BY <1>1, <2>1, <3>1, <3>2 DEF IInv, Shapes
  <2> QED BY <2>1, <2>2, <2>3, <2>4 DEF TypeOK, Token
<1> QED BY Invariance, <1>1, PTL

\* Rotation: as long as the refreshes of an account do not overlap, a refresh
\* token is exchanged for new tokens at most once, whatever is lost or fails.
THEOREM TokensAreSpentOnce == Spec => []SpentOnce
<1>1. ASSUME IInv PROVE SpentOnce
  <2>1. DOMAIN tokens = 1 .. Len(tokens) /\ Len(tokens) \in Nat /\ Len(tokens) <= MaxTokens
    BY <1>1 DEF IInv, Shapes
  <2>2. \A t \in 1 .. Len(tokens) : spent[t] = 0 \/ overlapped[tokens[t].email] \/ spent[t] = 1
    BY <1>1 DEF IInv, SpentIsOld
  <2> QED BY <2>1, <2>2 DEF SpentOnce
<1> QED BY Invariance, <1>1, PTL

\* Until the next login a session that was logged out has no hash in its row,
\* so that no refresh and no stale token brings it back.
THEOREM LogoutIsFinal == Spec => []LogoutEndsSessions
<1>1. ASSUME IInv PROVE LogoutEndsSessions
  BY <1>1 DEF IInv, EndedIsOver, LogoutEndsSessions
<1> QED BY Invariance, <1>1, PTL

\* A profile edit its owner was told is stored is what the row holds, unless a
\* promotion was in flight during it.
THEOREM EditsAreKept == Spec => []ProfileIsLastEdit
<1>1. IInv => ProfileIsLastEdit
  BY DEF IInv, LastEdit
<1> QED BY Invariance, <1>1, PTL

\* Only the last write of a refresh counts its token as exchanged, and no
\* refresh that passed the blacklist holds a settled token.
LEMMA SettledIsNotSpent ==
    ASSUME IInv, [Next]_vars, NEW t \in settled
    PROVE  spent'[t] = spent[t]
<1>1. ASSUME NEW h \in Handlers, RefreshBump(h) PROVE spent'[t] = spent[t]
  <2>1. req[h].token # t
    BY <1>1 DEF IInv, SettledIsRevoked, RefreshBump
  <2>2. t \in 1 .. MaxTokens /\ spent \in [1 .. MaxTokens -> Nat]
    <3>1. Len(tokens) \in Nat /\ Len(tokens) <= MaxTokens /\ t \in 1 .. Len(tokens)
      BY DEF IInv, Shapes
    <3> QED BY <3>1, NoRow DEF IInv, Shapes
  <2> QED BY <1>1, <2>1, <2>2 DEF RefreshBump
<1>2. ASSUME ~\E h \in Handlers : RefreshBump(h) PROVE UNCHANGED spent
  BY <1>2 DEF Next, vars, rowVars, history, SignupLookup, SignupRefused, SignupSave, LoginRead,
     LoginSave, RefreshCheck, RefreshRead, RefreshStale, RefreshRefused, RefreshAlert,
     RefreshRotate, Logout, LogoutRefresh, LogoutAccess, LogoutRemove, ClearCookies,
     EditCheck, EditWrite, EditAnswer, PromoteRead, PromoteWrite, RequestFails
<1> QED BY <1>1, <1>2

\* A pair that was blacklisted while no refresh of it was in flight is never
\* exchanged again, even after another login of the account.
THEOREM RevocationLasts == Spec => RevokedStaysRevoked
<1>1. IInv /\ [Next]_vars => [\A t \in settled : spent'[t] = spent[t]]_vars
  BY SettledIsNotSpent
<1> QED BY Invariance, <1>1, PTL DEF Spec, RevokedStaysRevoked
=============================================================================
