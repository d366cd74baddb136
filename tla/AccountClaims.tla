---------------------------- MODULE AccountClaims ----------------------------
(***************************************************************************)
(* What the repository says of login and the code does not do.             *)
(***************************************************************************)
EXTENDS MCAccounts

(* A login hands out a signed ticket that works until it expires           *)
(* (s09_user_system/README.md:25), so it is let in when it is handed out.  *)
(* Tokens issued to one user within one second are one string: a login in  *)
(* the second in which an earlier session was signed out answers 200 with  *)
(* the token that is on the blacklist since.                               *)
FreshTicketsWork == [][\A r \in Requests :
    pc[r] # "session" /\ pc'[r] = "session" => Accepts(token[r])']_vars
=============================================================================
