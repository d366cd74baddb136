------------------------------- MODULE Ledger -------------------------------
(***************************************************************************)
(* What the gateway's quota promises, whatever its routes do in between:   *)
(* a request first holds part of its user's funds, and later the hold is   *)
(* ended once, either released in full or captured at some price the       *)
(* user's funds can bear.  Nothing else ever moves a user's funds.         *)
(***************************************************************************)
EXTENDS Integers

CONSTANTS Users, Requests, NoUser,
          Deposit                  \* [Users -> Nat], the funds at the start

VARIABLES funds,    \* what each user can still spend
          owner,    \* whose funds a request holds
          phase,    \* where a request is with respect to the funds
          held      \* the amount a request holds

ledgerVars == <<funds, owner, phase, held>>

Phases == {"none", "holding", "captured", "released"}

Init ==
    /\ funds = Deposit
    /\ owner = [r \in Requests |-> NoUser]
    /\ phase = [r \in Requests |-> "none"]
    /\ held = [r \in Requests |-> 0]

Hold(r, u, n) ==
    /\ phase[r] = "none"
    /\ n <= funds[u]
    /\ funds' = [funds EXCEPT ![u] = @ - n]
    /\ owner' = [owner EXCEPT ![r] = u]
    /\ phase' = [phase EXCEPT ![r] = "holding"]
    /\ held' = [held EXCEPT ![r] = n]

(* The hold ends and the user has paid price, more than the hold only if   *)
(* the user's remaining funds cover the difference.                        *)
Capture(r, price) ==
    /\ phase[r] = "holding"
    /\ price <= held[r] + funds[owner[r]]
    /\ funds' = [funds EXCEPT ![owner[r]] = @ + held[r] - price]
    /\ phase' = [phase EXCEPT ![r] = "captured"]
    /\ held' = [held EXCEPT ![r] = 0]
    /\ UNCHANGED owner

Release(r) ==
    /\ phase[r] = "holding"
    /\ funds' = [funds EXCEPT ![owner[r]] = @ + held[r]]
    /\ phase' = [phase EXCEPT ![r] = "released"]
    /\ held' = [held EXCEPT ![r] = 0]
    /\ UNCHANGED owner

Next ==
    \E r \in Requests :
        \/ \E u \in Users : \E n \in 0..funds[u] : Hold(r, u, n)
        \/ \E u \in Users : owner[r] = u /\ \E price \in 0..(held[r] + funds[u]) : Capture(r, price)
        \/ Release(r)

Spec == Init /\ [][Next]_ledgerVars
=============================================================================
