------------------------------ MODULE StageCards ------------------------------
(***************************************************************************)
(* What a run promises about the cards it hands to workers, whatever path  *)
(* it takes: a card is issued when none is open, an outcome is recorded    *)
(* for the open card and closes it, and a card may be discarded without    *)
(* one.  So every outcome belongs to a card of its own, in issue order.    *)
(* Where a watch of evidence workers reports on the card too, the card may *)
(* be answered again, as long as it is the newest.                         *)
(***************************************************************************)
EXTENDS Naturals, Sequences

CONSTANT Watched    \* watches report on cards beside their workers

VARIABLES
    issued,     \* how many cards were issued; cards are numbered from 1
    open,       \* the card a worker may still answer, or 0
    outcomes    \* the cards that got an outcome, in the order they got it

vars == <<issued, open, outcomes>>

Init == issued = 0 /\ open = 0 /\ outcomes = <<>>

Issue ==
    /\ open = 0
    /\ issued' = issued + 1
    /\ open' = issued + 1
    /\ UNCHANGED outcomes

Record ==
    /\ open # 0
    /\ outcomes' = Append(outcomes, open)
    /\ open' = 0
    /\ UNCHANGED issued

(* A watch of the card comes after its worker, or the worker after it.     *)
RecordAgain ==
    /\ Watched
    /\ open = 0
    /\ \E i \in 1 .. Len(outcomes) : outcomes[i] = issued
    /\ outcomes' = Append(outcomes, issued)
    /\ UNCHANGED <<issued, open>>

Discard ==
    /\ open # 0
    /\ open' = 0
    /\ UNCHANGED <<issued, outcomes>>

Next == Issue \/ Record \/ RecordAgain \/ Discard

Spec == Init /\ [][Next]_vars
=============================================================================
