------------------------------ MODULE Accounts ------------------------------
(***************************************************************************)
(* Users, sessions and logout: s09_user_system/code.py over users.py,      *)
(* jwt_util.py and token_blacklist.py.                                     *)
(*                                                                         *)
(* The handlers run in threads, and a password hash takes long: a signup   *)
(* looks the address up, hashes, inserts and issues a token, and anything  *)
(* may happen in between.  The user table is a SQLite file, with the       *)
(* address UNIQUE; the list of revoked tokens is lost when the process     *)
(* ends.  A token is a string computed from what it says: two tokens that  *)
(* say the same are the same token.                                        *)
(***************************************************************************)
EXTENDS Integers

CONSTANTS Emails, Passwords, NumRequests,
          TTL,        \* ttl_seconds of a token
          MaxClock,   \* bound of the clock
          None

Requests == 1..NumRequests

Credentials == [email : Emails, password : Passwords]

Rows == [id : Nat, email : Emails, password : Passwords]

Tokens == [sub : Nat, email : Emails, exp : Nat]

Opened == [account : Credentials, until : Nat]

ASSUME AccountAssumption ==
    /\ NumRequests \in Nat
    /\ TTL \in Nat
    /\ MaxClock \in Nat
    /\ None \notin Credentials
    /\ None \notin Rows
    /\ None \notin Tokens
    /\ None \notin Opened
    /\ None \notin Nat

VARIABLES users,     \* the rows of the table, passwords standing for hashes
          nextId,    \* its AUTOINCREMENT
          revoked,   \* _revoked, the tokens for their digests
          now,       \* int(time.time())
          pc,        \* where the request, or the session it opened, stands
          creds,     \* the body of the request, None before
          found,     \* login's local u, or None
          uid,       \* signup's local uid
          token      \* the access_token returned, or None

vars == <<users, nextId, revoked, now, pc, creds, found, uid, token>>

(* The handler is between two steps: signup hashes, or has its row; login  *)
(* compares hashes.                                                        *)
Running == {"hashing", "inserted", "checking"}

(* 409 or 401; 500 or no answer; signed in; signed out; and signed out     *)
(* before a restart.                                                       *)
Ended == {"refused", "failed", "session", "out", "forgotten"}

Init ==
    /\ users = {}
    /\ nextId = 1
    /\ revoked = {}
    /\ now = 0
    /\ pc = [r \in Requests |-> "idle"]
    /\ creds = [r \in Requests |-> None]
    /\ found = [r \in Requests |-> None]
    /\ uid = [r \in Requests |-> 0]
    /\ token = [r \in Requests |-> None]

-----------------------------------------------------------------------------
(* find_by_email finds a row.                                              *)
Registered(email) == \E u \in users : u.email = email

(* issue: whole seconds, and nothing that tells two issues apart.          *)
Issued(id, email) == [sub |-> id, email |-> email, exp |-> now + TTL]

(* _current_user lets the token in: not revoked, and PyJWT demands an      *)
(* expiry later than now.  The list knows a token by its string, and a     *)
(* client is taken to send the string it was given.                        *)
Accepts(t) == t \notin revoked /\ t.exp > now

Goto(r, there) == pc' = [pc EXCEPT ![r] = there]

Arrives(r, c) ==
    /\ pc[r] = "idle"
    /\ \A q \in 1..(r - 1) : pc[q] # "idle"
    /\ creds' = [creds EXCEPT ![r] = c]

SignIn(r, id, email) ==
    /\ token' = [token EXCEPT ![r] = Issued(id, email)]
    /\ Goto(r, "session")

-----------------------------------------------------------------------------
(* Faults for the mutation runs: a create_user that returns nothing, one   *)
(* with INSERT OR REPLACE, a table without UNIQUE, and a blacklist that    *)
(* keeps the last token only.                                              *)
InsertWithoutId(r) ==
    /\ pc[r] = "hashing"
    /\ ~Registered(creds[r].email)
    /\ users' = users \cup {[id |-> nextId, email |-> creds[r].email, password |-> creds[r].password]}
    /\ nextId' = nextId + 1
    /\ uid' = [uid EXCEPT ![r] = None]
    /\ Goto(r, "inserted")
    /\ UNCHANGED <<revoked, now, creds, found, token>>

InsertOrReplace(r) ==
    /\ pc[r] = "hashing"
    /\ users' = {u \in users : u.email # creds[r].email}
          \cup {[id |-> nextId, email |-> creds[r].email, password |-> creds[r].password]}
    /\ nextId' = nextId + 1
    /\ uid' = [uid EXCEPT ![r] = nextId]
    /\ Goto(r, "inserted")
    /\ UNCHANGED <<revoked, now, creds, found, token>>

InsertAnyway(r) ==
    /\ pc[r] = "hashing"
    /\ users' = users \cup {[id |-> nextId, email |-> creds[r].email, password |-> creds[r].password]}
    /\ nextId' = nextId + 1
    /\ uid' = [uid EXCEPT ![r] = nextId]
    /\ Goto(r, "inserted")
    /\ UNCHANGED <<revoked, now, creds, found, token>>

RevokeLast(r) ==
    /\ pc[r] = "session"
    /\ revoked' = {token[r]}
    /\ Goto(r, "out")
    /\ UNCHANGED <<users, nextId, now, creds, found, uid, token>>

-----------------------------------------------------------------------------
(* POST /auth/signup                                                       *)
StartSignup(r, c) ==
    /\ Arrives(r, c)
    /\ Goto(r, IF Registered(c.email) THEN "refused" ELSE "hashing")
    /\ UNCHANGED <<users, nextId, revoked, now, found, uid, token>>

InsertUser(r) ==
    /\ pc[r] = "hashing"
    /\ ~Registered(creds[r].email)
    /\ users' = users \cup {[id |-> nextId, email |-> creds[r].email, password |-> creds[r].password]}
    /\ nextId' = nextId + 1
    /\ uid' = [uid EXCEPT ![r] = nextId]
    /\ Goto(r, "inserted")
    /\ UNCHANGED <<revoked, now, creds, found, token>>

(* Somebody else was faster: IntegrityError, which nobody catches.         *)
DuplicateInsert(r) ==
    /\ pc[r] = "hashing"
    /\ Registered(creds[r].email)
    /\ Goto(r, "failed")
    /\ UNCHANGED <<users, nextId, revoked, now, creds, found, uid, token>>

FinishSignup(r) ==
    /\ pc[r] = "inserted"
    /\ SignIn(r, uid[r], creds[r].email)
    /\ UNCHANGED <<users, nextId, revoked, now, creds, found, uid>>

-----------------------------------------------------------------------------
(* POST /auth/login                                                        *)
UnknownUser(r, c) ==
    /\ Arrives(r, c)
    /\ ~Registered(c.email)
    /\ Goto(r, "refused")
    /\ UNCHANGED <<users, nextId, revoked, now, found, uid, token>>

StartLogin(r, c) ==
    /\ Arrives(r, c)
    /\ \E u \in users :
         /\ u.email = c.email
         /\ found' = [found EXCEPT ![r] = u]
    /\ Goto(r, "checking")
    /\ UNCHANGED <<users, nextId, revoked, now, uid, token>>

WrongPassword(r) ==
    /\ pc[r] = "checking"
    /\ creds[r].password # found[r].password
    /\ Goto(r, "refused")
    /\ UNCHANGED <<users, nextId, revoked, now, creds, found, uid, token>>

FinishLogin(r) ==
    /\ pc[r] = "checking"
    /\ creds[r].password = found[r].password
    /\ SignIn(r, found[r].id, found[r].email)
    /\ UNCHANGED <<users, nextId, revoked, now, creds, found, uid>>

-----------------------------------------------------------------------------
(* POST /auth/logout: the token is revoked unread, expired or not.         *)
Logout(r) ==
    /\ pc[r] = "session"
    /\ revoked' = revoked \cup {token[r]}
    /\ Goto(r, "out")
    /\ UNCHANGED <<users, nextId, now, creds, found, uid, token>>

(* The process ends and is started again: handlers and blacklist are gone, *)
(* the table is not.                                                       *)
Restart ==
    /\ revoked' = {}
    /\ pc' = [r \in Requests |->
                IF pc[r] \in Running THEN "failed"
                ELSE IF pc[r] = "out" THEN "forgotten" ELSE pc[r]]
    /\ UNCHANGED <<users, nextId, now, creds, found, uid, token>>

Tick ==
    /\ now < MaxClock
    /\ now' = now + 1
    /\ UNCHANGED <<users, nextId, revoked, pc, creds, found, uid, token>>

Arrive(r) == \E c \in Credentials :
    StartSignup(r, c) \/ UnknownUser(r, c) \/ StartLogin(r, c)

Continue(r) ==
    \/ InsertUser(r)
    \/ DuplicateInsert(r)
    \/ FinishSignup(r)
    \/ WrongPassword(r)
    \/ FinishLogin(r)
    \/ Logout(r)

Next == Restart \/ Tick \/ \E r \in Requests : Arrive(r) \/ Continue(r)

Spec == Init /\ [][Next]_vars

-----------------------------------------------------------------------------
(* Type invariant.                                                         *)
TypeOK ==
    /\ users \subseteq Rows
    /\ nextId \in Nat
    /\ revoked \subseteq Tokens
    /\ now \in 0..MaxClock
    /\ pc \in [Requests -> {"idle"} \cup Running \cup Ended]
    /\ creds \in [Requests -> Credentials \cup {None}]
    /\ found \in [Requests -> Rows \cup {None}]
    /\ uid \in [Requests -> Nat]
    /\ token \in [Requests -> Tokens \cup {None}]

(* However many signups of one address pass find_by_email together, the    *)
(* table gets one row for it, and no two rows share an id.                 *)
OneAccountPerEmail == \A u, v \in users :
    u.email = v.email \/ u.id = v.id => u = v

(* A token names a row that still exists, restarts included, and went to   *)
(* somebody who gave that row's address and password: no signup or login   *)
(* is handed the account of another.                                       *)
TokensNameTheirOwner == \A r \in Requests : token[r] # None =>
    \E u \in users :
        /\ u.id = token[r].sub
        /\ u.email = token[r].email
        /\ u.email = creds[r].email
        /\ u.password = creds[r].password

(* A session that was logged out stays out of s09's routes until the       *)
(* process ends, whoever else logs in or out.  (s10's _require_admin never *)
(* asks the list.)                                                         *)
LoggedOutIsRejected == \A r \in Requests : pc[r] = "out" => ~Accepts(token[r])

(* The session a request opened: the account is the one whose address and  *)
(* password it gave.                                                       *)
SessionOf(r) == [account |-> creds[r], until |-> token[r].exp]

(* Accounts implements Sessions, which is why a session opened in the same *)
(* second as one that was signed out is signed out from the start: its     *)
(* token is the revoked one.                                               *)
Sessions == INSTANCE Sessions WITH
    accounts <- {[email |-> u.email, password |-> u.password] : u \in users},
    clock <- now,
    session <- [r \in Requests |-> IF token[r] = None THEN None ELSE SessionOf(r)],
    ended <- {SessionOf(r) : r \in {q \in Requests : token[q] \in revoked}}

ImplementsSessions == Sessions!Spec
=============================================================================
