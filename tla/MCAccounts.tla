----------------------------- MODULE MCAccounts -----------------------------
(***************************************************************************)
(* Signups and logins with two addresses and two passwords.                *)
(***************************************************************************)
EXTENDS Accounts

CONSTANTS ann, bob, right, wrong

MCEmails == {ann, bob}

MCPasswords == {right, wrong}
=============================================================================
