---------------------------- MODULE TokenSupply -----------------------------
(***************************************************************************)
(* What a token ledger promises, whatever carries it out: a token comes    *)
(* into existence once, with a positive supply, and from then on its       *)
(* supply never changes; it only moves between accounts.  A token that     *)
(* does not exist is held by nobody.  StateTransition, LedgerServiceV1 and *)
(* Rollup are compared with this specification.                            *)
(***************************************************************************)
EXTENDS TokenOps

VARIABLE ledger

Init == ledger = EmptyLedger

\* One visible change of the ledger: any number of mints and transfers.
Change(s, r) ==
  /\ s.known \subseteq r.known
  /\ \A t \in s.known : Total(r.bal[t]) = Total(s.bal[t])
  /\ \A t \in r.known \ s.known : Total(r.bal[t]) \in 1..U64Max
  /\ \A t \in TokenIds \ r.known : Total(r.bal[t]) = 0

Next == ledger' \in LedgerState /\ Change(ledger, ledger')

Spec == Init /\ [][Next]_ledger

=============================================================================
