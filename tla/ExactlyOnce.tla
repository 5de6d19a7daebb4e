---------------------------- MODULE ExactlyOnce ----------------------------
(***************************************************************************)
(* What the recurring templates promise about each date of a template      *)
(* (header of services/templates/occurrences.service.ts): "An occurrence   *)
(* is a (template, date)" and is entered exactly once or not at all.       *)
(*                                                                         *)
(* A date is open until somebody holds it, skips it or settles it; a       *)
(* skipped date can be taken up again; a settled one never.                *)
(***************************************************************************)
EXTENDS Naturals

CONSTANT Dates

VARIABLES
    fate,       \* [Dates -> {"open", "held", "skipped", "settled"}]
    copies      \* [Dates -> Nat]: postings made from the template

vars == <<fate, copies>>

Init ==
    /\ fate = [d \in Dates |-> "open"]
    /\ copies = [d \in Dates |-> 0]

Move(d, from, to) ==
    /\ fate[d] \in from
    /\ fate' = [fate EXCEPT ![d] = to]

Add(d) ==
    /\ copies[d] = 0
    /\ copies' = [copies EXCEPT ![d] = 1]

\* The date is set aside with a reason; nothing is posted.
Skip(d) == Move(d, {"open"}, "skipped") /\ UNCHANGED copies

\* Posted in the step that settles it.
Enter(d) == Move(d, {"open", "skipped"}, "settled") /\ Add(d)

\* Claimed first, posted later, settled after that.
Hold(d) == Move(d, {"open", "skipped"}, "held") /\ UNCHANGED copies
Post(d) == fate[d] = "held" /\ Add(d) /\ UNCHANGED fate

\* Let go of only when nothing was posted.
LetGo(d) ==
    /\ copies[d] = 0
    /\ \E to \in {"open", "skipped"} : Move(d, {"held"}, to)
    /\ UNCHANGED copies

\* Recorded, dismissed, or linked with a transaction of the owner's.
Settle(d) == Move(d, {"open", "held", "skipped"}, "settled") /\ UNCHANGED copies

Next == \E d \in Dates :
    Skip(d) \/ Enter(d) \/ Hold(d) \/ Post(d) \/ LetGo(d) \/ Settle(d)

Spec == Init /\ [][Next]_vars
=============================================================================
