------------------------------- MODULE Ledger -------------------------------
(***************************************************************************)
(* What the strategy's portfolio is meant to be: a book of the account.    *)
(* One command of a commodity is under way at a time, its execution moves  *)
(* the account, and the report of it brings the book up to date.  Nothing  *)
(* else changes the book: not the main switch, not the sizing of empty     *)
(* positions, not an order that came to nothing.                           *)
(***************************************************************************)
CONSTANT Symbols

VARIABLES
  asked,     \* the commodities with a command at the exchange
  reported,  \* ... with an execution that is not yet in the book
  account,   \* the hands held of each commodity, by contract and side
  book       \* the hands that the portfolio says are held

vars == <<asked, reported, account, book>>

Init ==
  /\ asked = {} /\ reported = {}
  /\ book = account

Ask(s) ==
  /\ s \notin asked \cup reported
  /\ asked' = asked \cup {s}
  /\ UNCHANGED <<reported, account, book>>

Execute(s) ==
  /\ s \in asked
  /\ asked' = asked \ {s}
  /\ reported' = reported \cup {s}
  /\ \A x \in Symbols \ {s} : account'[x] = account[x]
  /\ account'[s] # account[s]
  /\ UNCHANGED book

ComesToNothing(S) ==
  /\ S \subseteq asked
  /\ asked' = asked \ S
  /\ UNCHANGED <<reported, account, book>>

Enter(s) ==
  /\ s \in reported
  /\ reported' = reported \ {s}
  /\ book' = [book EXCEPT ![s] = account[s]]
  /\ UNCHANGED <<asked, account>>

Next ==
  \/ \E s \in Symbols : Ask(s) \/ Execute(s) \/ Enter(s)
  \/ \E S \in SUBSET Symbols : ComesToNothing(S)

Spec == Init /\ [][Next]_vars
=============================================================================
