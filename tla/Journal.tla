------------------------------- MODULE Journal -------------------------------
(***************************************************************************)
(* What the call log promises: every call is written down once, in the     *)
(* order in which the calls succeed, and readers see a beginning of what   *)
(* was written, which only grows.                                          *)
(***************************************************************************)
EXTENDS Naturals, Sequences

CONSTANT Entries

VARIABLES written,     \* the entries, oldest first
          published    \* how many of them readers see

vars == <<written, published>>

Written == {written[i] : i \in 1..Len(written)}

Init ==
    /\ written = <<>>
    /\ published = 0

Write(e) ==
    /\ e \notin Written
    /\ written' = Append(written, e)
    /\ UNCHANGED published

Publish ==
    /\ published < Len(written)
    /\ published' \in (published + 1)..Len(written)
    /\ UNCHANGED written

Next == Publish \/ \E e \in Entries : Write(e)

Spec == Init /\ [][Next]_vars
=============================================================================
