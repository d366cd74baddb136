---------------------------- MODULE AccountProofs ----------------------------
(***************************************************************************)
(* Proofs about Accounts, for any addresses, passwords, number of requests *)
(* and lifetime of tokens.                                                 *)
(***************************************************************************)
EXTENDS Accounts, TLAPS

(* What a handler relies on between its steps: the body it parsed, the row *)
(* it inserted or found, and the token it returned.                        *)
Stage(r) ==
    /\ pc[r] \in {"idle"} \cup Running => token[r] = None
    /\ pc[r] \in Running => creds[r] # None
    /\ token[r] # None => creds[r] # None
    /\ pc[r] = "inserted" =>
         [id |-> uid[r], email |-> creds[r].email, password |-> creds[r].password] \in users
    /\ pc[r] = "checking" => found[r] \in users /\ found[r].email = creds[r].email
    /\ pc[r] \in {"session", "out"} => token[r] # None
    /\ pc[r] = "out" => token[r] \in revoked

Stages == \A r \in Requests : Stage(r)

(* AUTOINCREMENT is ahead of every id it has given out.                    *)
IdsAreUsedUp == \A u \in users : u.id < nextId

(* The blacklist holds tokens that were returned to somebody.              *)
RevokedWereHeld == \A t \in revoked : \E r \in Requests : token[r] = t

Inv == TypeOK /\ Stages /\ IdsAreUsedUp /\ OneAccountPerEmail /\ TokensNameTheirOwner /\ RevokedWereHeld

-----------------------------------------------------------------------------
LEMMA InitEstablishesInv == Init => Inv
  BY AccountAssumption
  DEF Init, Inv, TypeOK, Stages, Stage, IdsAreUsedUp, OneAccountPerEmail, TokensNameTheirOwner, Requests,
      Running, RevokedWereHeld

LEMMA StutterKeepsInv == Inv /\ UNCHANGED vars => Inv'
  BY DEF Inv, TypeOK, Stages, Stage, IdsAreUsedUp, OneAccountPerEmail, TokensNameTheirOwner, vars, Registered,
         RevokedWereHeld

-----------------------------------------------------------------------------
(* A step of Next is one of these, by one request or by none.              *)
LEMMA StepKinds ==
    ASSUME Next
    PROVE \/ Restart
          \/ Tick
          \/ \E r \in Requests : \E c \in Credentials :
               StartSignup(r, c) \/ UnknownUser(r, c) \/ StartLogin(r, c)
          \/ \E r \in Requests : InsertUser(r) \/ DuplicateInsert(r) \/ FinishSignup(r)
          \/ \E r \in Requests : WrongPassword(r) \/ FinishLogin(r) \/ Logout(r)
  BY DEF Next, Arrive, Continue

(* What a sign-in returns is a token, in both handlers.                    *)
LEMMA SignInReturnsToken ==
    ASSUME TypeOK, Stages, NEW r \in Requests
    PROVE /\ pc[r] = "inserted" => Issued(uid[r], creds[r].email) \in Tokens
          /\ pc[r] = "checking" => Issued(found[r].id, found[r].email) \in Tokens
<1>1. now + TTL \in Nat
  BY AccountAssumption DEF TypeOK
<1>2. ASSUME pc[r] = "inserted"
      PROVE Issued(uid[r], creds[r].email) \in Tokens
  <2>1. creds[r] \in Credentials
    BY <1>2 DEF TypeOK, Stages, Stage, Running
  <2>2. creds[r].email \in Emails
    BY <2>1 DEF Credentials
  <2>3. uid[r] \in Nat
    BY DEF TypeOK
  <2>. QED
    BY <1>1, <2>2, <2>3 DEF Issued, Tokens
<1>3. ASSUME pc[r] = "checking"
      PROVE Issued(found[r].id, found[r].email) \in Tokens
  <2>1. found[r] \in Rows
    BY <1>3 DEF TypeOK, Stages, Stage
  <2>. QED
    BY <1>1, <2>1 DEF Rows, Issued, Tokens
<1>. QED
  BY <1>2, <1>3

(* Types: a step stores rows, tokens and stages of the right kind.         *)
LEMMA TypeStep ==
    ASSUME TypeOK, Stages, Next
    PROVE TypeOK'
<1> USE AccountAssumption DEF TypeOK, Running, Ended
<1>1. CASE Restart
  BY <1>1 DEF Restart
<1>2. CASE Tick
  BY <1>2 DEF Tick
<1>3. ASSUME NEW r \in Requests, NEW c \in Credentials, StartSignup(r, c) \/ UnknownUser(r, c)
      PROVE TypeOK'
  BY <1>3 DEF StartSignup, UnknownUser, Arrives, Goto
<1>4. ASSUME NEW r \in Requests, NEW c \in Credentials, StartLogin(r, c)
      PROVE TypeOK'
  BY <1>4 DEF StartLogin, Arrives, Goto
<1>5. ASSUME NEW r \in Requests, InsertUser(r)
      PROVE TypeOK'
  <2>1. creds[r] \in Credentials
    BY <1>5 DEF InsertUser, Stages, Stage
  <2>2. [id |-> nextId, email |-> creds[r].email, password |-> creds[r].password] \in Rows
    BY <2>1 DEF Credentials, Rows
  <2>. QED
    BY <1>5, <2>2 DEF InsertUser, Goto
<1>6. ASSUME NEW r \in Requests, DuplicateInsert(r) \/ WrongPassword(r)
      PROVE TypeOK'
  BY <1>6 DEF DuplicateInsert, WrongPassword, Goto
<1>7. ASSUME NEW r \in Requests, FinishSignup(r)
      PROVE TypeOK'
  BY <1>7, SignInReturnsToken DEF FinishSignup, SignIn, Goto
<1>8. ASSUME NEW r \in Requests, FinishLogin(r)
      PROVE TypeOK'
  BY <1>8, SignInReturnsToken DEF FinishLogin, SignIn, Goto
<1>9. ASSUME NEW r \in Requests, Logout(r)
      PROVE TypeOK'
  BY <1>9 DEF Logout, Stages, Stage, Goto
<1>. QED
  BY StepKinds, <1>1, <1>2, <1>3, <1>4, <1>5, <1>6, <1>7, <1>8, <1>9

-----------------------------------------------------------------------------
(* The table: an insert takes an unused id and an unused address, and no   *)
(* other step touches it.                                                  *)
LEMMA TableStep ==
    ASSUME TypeOK, Stages, IdsAreUsedUp, OneAccountPerEmail, Next
    PROVE IdsAreUsedUp' /\ OneAccountPerEmail' /\ users \subseteq users'
<1>1. CASE UNCHANGED <<users, nextId>>
  BY <1>1 DEF IdsAreUsedUp, OneAccountPerEmail
<1>2. ASSUME NEW r \in Requests, InsertUser(r)
      PROVE IdsAreUsedUp' /\ OneAccountPerEmail' /\ users \subseteq users'
  <2> DEFINE new == [id |-> nextId, email |-> creds[r].email, password |-> creds[r].password]
  <2>1. users' = users \cup {new} /\ nextId' = nextId + 1
    BY <1>2 DEF InsertUser
  <2>2. new.id = nextId /\ new.email = creds[r].email
    OBVIOUS
  <2>3. \A u \in users : u.email # new.email /\ u.id \in Nat /\ u.id < nextId
    BY <1>2 DEF InsertUser, Registered, IdsAreUsedUp, TypeOK, Rows
  <2>4. nextId \in Nat
    BY DEF TypeOK
  <2> HIDE DEF new
  <2>. QED
    BY <2>1, <2>2, <2>3, <2>4 DEF IdsAreUsedUp, OneAccountPerEmail
<1>. QED
  BY StepKinds, <1>1, <1>2
  DEF Restart, Tick, StartSignup, UnknownUser, StartLogin, DuplicateInsert, FinishSignup, WrongPassword,
      FinishLogin, Logout

-----------------------------------------------------------------------------
(* Stages: what another request's step leaves of what a handler relies on. *)
LEMMA StagesStep ==
    ASSUME TypeOK, Stages, users \subseteq users', Next
    PROVE Stages'
<1> SUFFICES ASSUME NEW r \in Requests
             PROVE Stage(r)'
  BY DEF Stages
<1> USE AccountAssumption DEF Stages, Stage, Running, TypeOK
<1>1. CASE Restart
  BY <1>1 DEF Restart
<1>2. CASE Tick
  BY <1>2 DEF Tick
<1>3. ASSUME NEW s \in Requests, NEW c \in Credentials, StartSignup(s, c) \/ UnknownUser(s, c)
      PROVE Stage(r)'
  BY <1>3 DEF StartSignup, UnknownUser, Arrives, Goto
<1>4. ASSUME NEW s \in Requests, NEW c \in Credentials, StartLogin(s, c)
      PROVE Stage(r)'
  BY <1>4 DEF StartLogin, Arrives, Goto
<1>5. ASSUME NEW s \in Requests, InsertUser(s)
      PROVE Stage(r)'
  BY <1>5 DEF InsertUser, Goto
<1>6. ASSUME NEW s \in Requests, DuplicateInsert(s) \/ WrongPassword(s)
      PROVE Stage(r)'
  BY <1>6 DEF DuplicateInsert, WrongPassword, Goto
<1>7. ASSUME NEW s \in Requests, NEW id, NEW email, pc[s] \in Running, SignIn(s, id, email),
             token'[s] \in Tokens, UNCHANGED <<users, revoked, creds, found, uid>>
      PROVE Stage(r)'
  BY <1>7 DEF SignIn, Goto
<1>8. ASSUME NEW s \in Requests, FinishSignup(s) \/ FinishLogin(s)
      PROVE Stage(r)'
  <2>1. token'[s] \in Tokens
    BY <1>8, SignInReturnsToken DEF FinishSignup, FinishLogin, SignIn
  <2>. QED
    BY <1>7, <1>8, <2>1 DEF FinishSignup, FinishLogin, Running
<1>9. ASSUME NEW s \in Requests, Logout(s)
      PROVE Stage(r)'
  BY <1>9 DEF Logout, Goto
<1>. QED
  BY StepKinds, <1>1, <1>2, <1>3, <1>4, <1>5, <1>6, <1>8, <1>9

-----------------------------------------------------------------------------
(* Tokens: a sign-in names the row it inserted or found, rows stay, and    *)
(* the body of a request that has a token does not change.                 *)
LEMMA TokensStep ==
    ASSUME TypeOK, Stages, TokensNameTheirOwner, users \subseteq users', Next
    PROVE TokensNameTheirOwner'
<1> DEFINE Owner(u, t, c) ==
        u.id = t.sub /\ u.email = t.email /\ u.email = c.email /\ u.password = c.password
<1>1. CASE UNCHANGED token /\ (\A r \in Requests : token[r] # None => creds'[r] = creds[r])
  BY <1>1 DEF TokensNameTheirOwner
<1>2. ASSUME NEW s \in Requests, NEW c \in Credentials, Arrives(s, c), UNCHANGED token
      PROVE TokensNameTheirOwner'
  BY <1>1, <1>2 DEF Arrives, Stages, Stage, TypeOK
<1>3. ASSUME NEW s \in Requests, FinishSignup(s)
      PROVE TokensNameTheirOwner'
  <2> DEFINE row == [id |-> uid[s], email |-> creds[s].email, password |-> creds[s].password]
  <2>1. row \in users /\ creds' = creds /\ users' = users
    BY <1>3 DEF FinishSignup, Stages, Stage
  <2>2. token' = [token EXCEPT ![s] = Issued(uid[s], creds[s].email)]
    BY <1>3 DEF FinishSignup, SignIn
  <2>3. Owner(row, token'[s], creds[s])
    BY <2>2 DEF Issued, TypeOK
  <2>. QED
    BY <2>1, <2>2, <2>3 DEF TokensNameTheirOwner, TypeOK
<1>4. ASSUME NEW s \in Requests, FinishLogin(s)
      PROVE TokensNameTheirOwner'
  <2>1. found[s] \in users /\ creds' = creds /\ users' = users
    BY <1>4 DEF FinishLogin, Stages, Stage
  <2>2. token' = [token EXCEPT ![s] = Issued(found[s].id, found[s].email)]
    BY <1>4 DEF FinishLogin, SignIn
  <2>3. Owner(found[s], token'[s], creds[s])
    BY <1>4, <2>2 DEF FinishLogin, Stages, Stage, Issued, TypeOK
  <2>. QED
    BY <2>1, <2>2, <2>3 DEF TokensNameTheirOwner, TypeOK
<1>. QED
  BY StepKinds, <1>1, <1>2, <1>3, <1>4
  DEF Restart, Tick, StartSignup, UnknownUser, StartLogin, InsertUser, DuplicateInsert, WrongPassword, Logout

-----------------------------------------------------------------------------
(* The blacklist: a request that has a token keeps it, and only its own    *)
(* token is added.                                                         *)
LEMMA RevokedStep ==
    ASSUME TypeOK, Stages, RevokedWereHeld, Next
    PROVE RevokedWereHeld'
<1> USE AccountAssumption DEF RevokedWereHeld, TypeOK
<1>1. CASE Restart
  BY <1>1 DEF Restart
<1>2. CASE UNCHANGED <<revoked, token>>
  BY <1>2
<1>3. ASSUME NEW s \in Requests, FinishSignup(s) \/ FinishLogin(s)
      PROVE RevokedWereHeld'
  <2>1. token[s] = None
    BY <1>3 DEF FinishSignup, FinishLogin, Stages, Stage, Running
  <2>2. revoked' = revoked /\ \A q \in Requests \ {s} : token'[q] = token[q]
    BY <1>3 DEF FinishSignup, FinishLogin, SignIn
  <2>3. \A t \in revoked : t # None
    OBVIOUS
  <2>. QED
    BY <2>1, <2>2, <2>3
<1>4. ASSUME NEW s \in Requests, Logout(s)
      PROVE RevokedWereHeld'
  BY <1>4 DEF Logout
<1>. QED
  BY StepKinds, <1>1, <1>2, <1>3, <1>4
  DEF Tick, StartSignup, UnknownUser, StartLogin, InsertUser, DuplicateInsert, WrongPassword

-----------------------------------------------------------------------------
LEMMA Invariance == Spec => []Inv
<1>1. Inv /\ [Next]_vars => Inv'
  <2> SUFFICES ASSUME Inv, [Next]_vars
               PROVE Inv'
    OBVIOUS
  <2>1. CASE UNCHANGED vars
    BY <2>1, StutterKeepsInv
  <2>2. CASE Next
    BY <2>2, TypeStep, TableStep, StagesStep, TokensStep, RevokedStep DEF Inv
  <2>. QED
    BY <2>1, <2>2
<1>. QED
  BY InitEstablishesInv, <1>1, PTL DEF Spec

(* No interleaving of signups, logins and restarts stores a row or a token *)
(* that is not one: the 500 of a lost race leaves nothing behind.          *)
THEOREM AccountTypeCorrect == Spec => []TypeOK
  BY Invariance, PTL DEF Inv

(* However many signups of one address run at once (signup looks it up and *)
(* inserts in two steps), the table gets one row for it.                   *)
THEOREM AccountsAreUnique == Spec => []OneAccountPerEmail
  BY Invariance, PTL DEF Inv

(* Every token that signup or login returns names a row that is still in   *)
(* the table and whose address and password the client gave.               *)
THEOREM TokensAreTheirOwners == Spec => []TokensNameTheirOwner
  BY Invariance, PTL DEF Inv

(* Between two restarts a token that was logged out stays rejected.        *)
THEOREM LoggedOutStaysOut == Spec => []LoggedOutIsRejected
<1>1. Inv => LoggedOutIsRejected
  BY DEF Inv, Stages, Stage, LoggedOutIsRejected, Accepts
<1>. QED
  BY Invariance, <1>1, PTL

-----------------------------------------------------------------------------
(* Accounts implements Sessions.  Rows are accounts, and a token that is   *)
(* some request's tells the same of it as its session does.                *)
Pair(u) == [email |-> u.email, password |-> u.password]

(* A request with a token holds the credentials of a row.                  *)
LEMMA HolderGaveCredentials ==
    ASSUME Inv, NEW r \in Requests, token[r] # None
    PROVE /\ token[r] \in Tokens
          /\ creds[r] \in Credentials
          /\ \E u \in users : u.id = token[r].sub /\ u.email = token[r].email /\ Pair(u) = creds[r]
<1>1. token[r] \in Tokens /\ creds[r] \in Credentials
  BY DEF Inv, TypeOK, Stages, Stage
<1>2. creds[r] = [email |-> creds[r].email, password |-> creds[r].password]
  BY <1>1 DEF Credentials
<1>. QED
  BY <1>1, <1>2 DEF Inv, TokensNameTheirOwner, Pair

(* Two requests have the same token just when they opened the same         *)
(* session: an address has one row, and a row one address and password.    *)
LEMMA SameTokenSameSession ==
    ASSUME Inv, NEW q \in Requests, NEW r \in Requests, token[q] # None, token[r] # None
    PROVE token[q] = token[r] <=> SessionOf(q) = SessionOf(r)
<1>1. PICK u \in users : u.id = token[q].sub /\ u.email = token[q].email /\ Pair(u) = creds[q]
  BY HolderGaveCredentials
<1>2. PICK v \in users : v.id = token[r].sub /\ v.email = token[r].email /\ Pair(v) = creds[r]
  BY HolderGaveCredentials
<1>3. ASSUME token[q] = token[r]
      PROVE SessionOf(q) = SessionOf(r)
  <2>1. u = v
    BY <1>1, <1>2, <1>3 DEF Inv, OneAccountPerEmail
  <2>. QED
    BY <1>1, <1>2, <1>3, <2>1 DEF SessionOf
<1>4. ASSUME SessionOf(q) = SessionOf(r)
      PROVE token[q] = token[r]
  <2>1. creds[q] = creds[r] /\ token[q].exp = token[r].exp
    BY <1>4 DEF SessionOf
  <2>2. u.email = v.email
    BY <1>1, <1>2, <2>1 DEF Pair
  <2>3. u = v
    BY <2>2 DEF Inv, OneAccountPerEmail
  <2>4. token[q].sub = token[r].sub /\ token[q].email = token[r].email
    BY <1>1, <1>2, <2>3
  <2>5. token[q] \in Tokens /\ token[r] \in Tokens
    BY HolderGaveCredentials
  <2>. QED
    BY <2>1, <2>4, <2>5 DEF Tokens
<1>. QED
  BY <1>3, <1>4

(* So a token is revoked just when its session was signed out.             *)
LEMMA RevokedMeansEnded ==
    ASSUME Inv, NEW r \in Requests, token[r] # None
    PROVE token[r] \in revoked <=> SessionOf(r) \in {SessionOf(q) : q \in {p \in Requests : token[p] \in revoked}}
<1>1. \A q \in Requests : token[q] \in revoked => token[q] # None
  BY AccountAssumption DEF Inv, TypeOK
<1>. QED
  BY <1>1, SameTokenSameSession

(* The middleware lets a token in exactly while its session is valid.      *)
AcceptsTheValid == \A r \in Requests :
    token[r] # None => (Accepts(token[r]) <=> Sessions!Valid(SessionOf(r)))

LEMMA InvAcceptsTheValid == Inv => AcceptsTheValid
<1> SUFFICES ASSUME Inv, NEW r \in Requests, token[r] # None
             PROVE Accepts(token[r]) <=> Sessions!Valid(SessionOf(r))
  BY DEF AcceptsTheValid
<1>1. token[r] \in Tokens /\ now \in Int
  BY HolderGaveCredentials, AccountAssumption DEF Inv, TypeOK
<1>2. SessionOf(r).until = token[r].exp /\ token[r].exp \in Nat
  BY <1>1 DEF SessionOf, Tokens
<1>3. token[r].exp > now <=> now < SessionOf(r).until
  BY <1>1, <1>2
<1>. QED
  BY <1>3, RevokedMeansEnded DEF Accepts, Sessions!Valid

-----------------------------------------------------------------------------
(* What the mapping makes of the state, by names of its own.               *)
OpenedBy(r) == IF token[r] = None THEN None ELSE SessionOf(r)

AsAccounts == {Pair(u) : u \in users}

AsSession == [r \in Requests |-> OpenedBy(r)]

AsEnded == {SessionOf(r) : r \in {q \in Requests : token[q] \in revoked}}

(* A step that leaves rows, clock, tokens and their holders' credentials   *)
(* alone changes neither accounts nor sessions.                            *)
LEMMA SessionsUnseen ==
    ASSUME Inv, Inv', UNCHANGED <<token, revoked>>, \A r \in Requests : token[r] # None => creds'[r] = creds[r]
    PROVE UNCHANGED <<AsSession, AsEnded>>
<1>1. \A r \in Requests : token[r] # None => SessionOf(r)' = SessionOf(r)
  BY DEF SessionOf
<1>2. AsSession' = AsSession
  BY <1>1 DEF AsSession, OpenedBy
<1>3. \A r \in Requests : token[r] \in revoked => token[r] # None
  BY AccountAssumption DEF Inv, TypeOK
<1>4. AsEnded' = AsEnded
  BY <1>1, <1>3 DEF AsEnded
<1>. QED
  BY <1>2, <1>4

LEMMA ArrivalsKeepSessions ==
    ASSUME Inv, Inv', NEW r \in Requests, NEW c \in Credentials,
           StartSignup(r, c) \/ UnknownUser(r, c) \/ StartLogin(r, c)
    PROVE UNCHANGED <<AsAccounts, now, AsSession, AsEnded>>
<1>1. UNCHANGED <<users, now, token, revoked>>
  BY DEF StartSignup, UnknownUser, StartLogin
<1>2. \A q \in Requests : token[q] # None => creds'[q] = creds[q]
  BY DEF StartSignup, UnknownUser, StartLogin, Arrives, Inv, TypeOK, Stages, Stage
<1>. QED
  BY <1>1, <1>2, SessionsUnseen DEF AsAccounts

(* The insert is the sign-up: the row is the first with its address.       *)
LEMMA InsertSignsUp ==
    ASSUME Inv, Inv', NEW r \in Requests, InsertUser(r)
    PROVE /\ creds[r] \in Credentials
          /\ \A b \in AsAccounts : b.email # creds[r].email
          /\ AsAccounts' = AsAccounts \cup {creds[r]}
          /\ UNCHANGED <<now, AsSession, AsEnded>>
<1> DEFINE new == [id |-> nextId, email |-> creds[r].email, password |-> creds[r].password]
<1>1. creds[r] \in Credentials
  BY DEF InsertUser, Inv, TypeOK, Stages, Stage, Running
<1>2. Pair(new) = creds[r]
  BY <1>1 DEF Pair, Credentials
<1>3. users' = users \cup {new} /\ UNCHANGED <<now, token, revoked, creds>>
  BY DEF InsertUser
<1>4. \A u \in users : u.email # creds[r].email
  BY DEF InsertUser, Registered
<1> HIDE DEF new
<1>5. AsAccounts' = AsAccounts \cup {creds[r]}
  BY <1>2, <1>3 DEF AsAccounts
<1>6. \A b \in AsAccounts : b.email # creds[r].email
  BY <1>4 DEF AsAccounts, Pair
<1>. QED
  BY <1>1, <1>3, <1>5, <1>6, SessionsUnseen

(* A sign-in opens a session for the account whose row the handler holds,  *)
(* and one that a revoked token already names is ended when it begins.     *)
LEMMA FinishSignsIn ==
    ASSUME Inv, Inv', NEW r \in Requests, FinishSignup(r) \/ FinishLogin(r)
    PROVE /\ OpenedBy(r) = None
          /\ creds[r] \in AsAccounts
          /\ AsSession' = [AsSession EXCEPT ![r] = [account |-> creds[r], until |-> now + TTL]]
          /\ UNCHANGED <<AsAccounts, now, AsEnded>>
<1>1. UNCHANGED <<users, now, creds, revoked>>
  BY DEF FinishSignup, FinishLogin
<1>2. token[r] = None
  BY DEF FinishSignup, FinishLogin, Inv, Stages, Stage, Running
<1>3. /\ token'[r] # None
      /\ token'[r].exp = now + TTL
      /\ \A q \in Requests \ {r} : token'[q] = token[q]
  <2>1. TypeOK /\ Stages
    BY DEF Inv
  <2>2. PICK id, email : Issued(id, email) \in Tokens /\ SignIn(r, id, email)
    BY <2>1, SignInReturnsToken DEF FinishSignup, FinishLogin
  <2>3. token' = [token EXCEPT ![r] = Issued(id, email)]
    BY <2>2 DEF SignIn
  <2>4. token'[r] = Issued(id, email)
    BY <2>1, <2>3 DEF TypeOK
  <2>. QED
    BY <2>2, <2>3, <2>4, AccountAssumption DEF Issued
<1>4. creds[r] \in AsAccounts
  <2>1. creds[r] \in Credentials
    BY DEF FinishSignup, FinishLogin, Inv, TypeOK, Stages, Stage, Running
  <2>2. PICK u \in users : u.email = creds[r].email /\ u.password = creds[r].password
    BY <1>1, <1>3 DEF Inv, TokensNameTheirOwner
  <2>3. Pair(u) = creds[r]
    BY <2>1, <2>2 DEF Pair, Credentials
  <2>. QED
    BY <2>3 DEF AsAccounts
<1>5. SessionOf(r)' = [account |-> creds[r], until |-> now + TTL]
  BY <1>1, <1>3 DEF SessionOf
<1>6. \A q \in Requests \ {r} : SessionOf(q)' = SessionOf(q)
  BY <1>1, <1>3 DEF SessionOf
<1>7. AsSession' = [AsSession EXCEPT ![r] = [account |-> creds[r], until |-> now + TTL]]
  BY <1>3, <1>5, <1>6 DEF AsSession, OpenedBy
<1>8. \A q \in Requests : token[q] \in revoked => q # r
  BY <1>2, AccountAssumption DEF Inv, TypeOK
<1>9. AsEnded' = AsEnded
  <2>1. AsEnded \subseteq AsEnded'
    BY <1>1, <1>3, <1>6, <1>8 DEF AsEnded
  <2>2. ASSUME token'[r] \in revoked
        PROVE SessionOf(r)' \in AsEnded
    <3>1. PICK q \in Requests : token[q] = token'[r]
      BY <2>2 DEF Inv, RevokedWereHeld
    <3>2. q # r /\ token'[q] = token'[r] /\ token[q] \in revoked
      BY <2>2, <3>1, <1>2, <1>3
    <3>3. creds[q] = creds[r]
      <4>1. PICK u \in users : u.id = token[q].sub /\ Pair(u) = creds[q]
        BY <3>1, <1>3, HolderGaveCredentials
      <4>2. PICK v \in users : v.id = token[q].sub /\ Pair(v) = creds[r]
        <5>1. creds[r] \in Credentials
          BY DEF FinishSignup, FinishLogin, Inv, TypeOK, Stages, Stage, Running
        <5>. QED
          BY <3>1, <1>1, <1>3, <5>1 DEF Inv, TokensNameTheirOwner, Pair, Credentials
      <4>3. u = v
        BY <4>1, <4>2 DEF Inv, OneAccountPerEmail
      <4>. QED
        BY <4>1, <4>2, <4>3
    <3>4. SessionOf(q)' = SessionOf(r)'
      BY <3>2, <3>3, <1>1 DEF SessionOf
    <3>. QED
      BY <3>2, <3>4, <1>6 DEF AsEnded
  <2>3. AsEnded' \subseteq AsEnded
    BY <1>1, <1>3, <1>6, <2>2 DEF AsEnded
  <2>. QED
    BY <2>1, <2>3
<1>. QED
  BY <1>1, <1>2, <1>4, <1>7, <1>9 DEF OpenedBy, AsAccounts

(* Logging out signs out the session, and with it each that is the same.   *)
LEMMA LogoutSignsOut ==
    ASSUME Inv, Inv', NEW r \in Requests, Logout(r)
    PROVE /\ OpenedBy(r) # None
          /\ AsEnded' = AsEnded \cup {OpenedBy(r)}
          /\ UNCHANGED <<AsAccounts, now, AsSession>>
<1>1. UNCHANGED <<users, now, creds, token>> /\ revoked' = revoked \cup {token[r]}
  BY DEF Logout
<1>2. token[r] # None
  BY DEF Logout, Inv, Stages, Stage
<1>3. OpenedBy(r) = SessionOf(r) /\ None # SessionOf(r)
  BY <1>2, HolderGaveCredentials, AccountAssumption DEF OpenedBy, Opened, SessionOf, Tokens
<1>4. \A q \in Requests : SessionOf(q)' = SessionOf(q)
  BY <1>1 DEF SessionOf
<1>5. AsEnded' = AsEnded \cup {SessionOf(r)}
  <2>1. AsEnded \cup {SessionOf(r)} \subseteq AsEnded'
    BY <1>1, <1>4 DEF AsEnded
  <2>2. \A q \in Requests : token[q] = token[r] => SessionOf(q) = SessionOf(r)
    BY <1>2, SameTokenSameSession
  <2>3. AsEnded' \subseteq AsEnded \cup {SessionOf(r)}
    BY <1>1, <1>4, <2>2 DEF AsEnded
  <2>. QED
    BY <2>1, <2>3
<1>. QED
  BY <1>1, <1>3, <1>4, <1>5 DEF AsAccounts, AsSession, OpenedBy

(* A restart forgets who signed out, and nothing else.                     *)
LEMMA RestartForgets ==
    ASSUME Restart
    PROVE AsEnded' = {} /\ UNCHANGED <<AsAccounts, now, AsSession>>
<1>1. UNCHANGED <<users, now, creds, token>> /\ revoked' = {}
  BY DEF Restart
<1>2. \A q \in Requests : SessionOf(q)' = SessionOf(q)
  BY <1>1 DEF SessionOf
<1>3. AsEnded' = {}
  BY <1>1 DEF AsEnded
<1>. QED
  BY <1>1, <1>2, <1>3 DEF AsAccounts, AsSession, OpenedBy

(* The other steps of a handler are its own affair.                        *)
LEMMA RefusalsKeepSessions ==
    ASSUME Inv, Inv', NEW r \in Requests, DuplicateInsert(r) \/ WrongPassword(r)
    PROVE UNCHANGED <<AsAccounts, now, AsSession, AsEnded>>
<1>1. UNCHANGED <<users, now, creds, token, revoked>>
  BY DEF DuplicateInsert, WrongPassword
<1>. QED
  BY <1>1, SessionsUnseen DEF AsAccounts

LEMMA SessionsInit == Init => Sessions!Init
  BY DEF Init, Sessions!Init

(* Every step is one of Sessions, or changes nothing it shows.             *)
LEMMA SessionsStep ==
    ASSUME Inv, Inv', [Next]_vars
    PROVE [Sessions!Next]_(Sessions!vars)
<1>1. CASE UNCHANGED <<AsAccounts, now, AsSession, AsEnded>>
  BY <1>1 DEF Sessions!vars, AsAccounts, Pair, AsSession, OpenedBy, AsEnded
<1>2. CASE Restart
  BY <1>2, RestartForgets
  DEF Sessions!Next, Sessions!Restart, AsAccounts, Pair, AsSession, OpenedBy, AsEnded
<1>3. CASE Tick
  <2>1. UNCHANGED <<users, creds, token, revoked>> /\ now' = now + 1
    BY <1>3 DEF Tick
  <2>2. UNCHANGED <<AsAccounts, AsSession, AsEnded>>
    BY <2>1, SessionsUnseen DEF AsAccounts
  <2>. QED
    BY <2>1, <2>2 DEF Sessions!Next, Sessions!Tick, AsAccounts, Pair, AsSession, OpenedBy, AsEnded
<1>4. ASSUME NEW r \in Requests, InsertUser(r)
      PROVE Sessions!Next
  <2>1. PICK a \in Credentials : a = creds[r]
    BY <1>4, InsertSignsUp
  <2>2. Sessions!SignUp(a)
    BY <1>4, <2>1, InsertSignsUp DEF Sessions!SignUp, AsAccounts, Pair, AsSession, OpenedBy, AsEnded
  <2>. QED
    BY <2>2 DEF Sessions!Next
<1>5. ASSUME NEW r \in Requests, FinishSignup(r) \/ FinishLogin(r)
      PROVE Sessions!Next
  <2>1. Sessions!SignIn(r)
    BY <1>5, FinishSignsIn
    DEF Sessions!SignIn, Sessions!Open, AsAccounts, Pair, AsSession, OpenedBy, AsEnded
  <2>. QED
    BY <2>1 DEF Sessions!Next
<1>6. ASSUME NEW r \in Requests, Logout(r)
      PROVE Sessions!Next
  <2>1. Sessions!SignOut(r)
    BY <1>6, LogoutSignsOut DEF Sessions!SignOut, AsAccounts, Pair, AsSession, OpenedBy, AsEnded
  <2>. QED
    BY <2>1 DEF Sessions!Next
<1>7. CASE UNCHANGED vars
  BY <1>1, <1>7, SessionsUnseen DEF vars, AsAccounts
<1>. QED
  BY StepKinds, <1>1, <1>2, <1>3, <1>4, <1>5, <1>6, <1>7, ArrivalsKeepSessions, RefusalsKeepSessions

(* The handlers of s09 implement Sessions, in which a signup, a sign-in    *)
(* and a logout are single instants: an address gets one account, only its *)
(* address and password open a session, and a logout ends what it names    *)
(* for everybody, until the process ends.                                  *)
THEOREM AccountsImplementSessions == Spec => ImplementsSessions
<1>1. Inv /\ Inv' /\ [Next]_vars => [Sessions!Next]_(Sessions!vars)
  BY SessionsStep
<1>. QED
  BY SessionsInit, Invariance, <1>1, PTL DEF Spec, ImplementsSessions, Sessions!Spec

(* In every state the middleware of s09 lets a token in just when its      *)
(* session is neither signed out nor over, whoever holds the same token.   *)
THEOREM ValidSessionsAreLetIn == Spec => []AcceptsTheValid
  BY Invariance, InvAcceptsTheValid, PTL
=============================================================================
