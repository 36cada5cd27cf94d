------------------------------- MODULE Printout -------------------------------
(***************************************************************************)
(* What a print is meant to be: the printer executes the lines of the file *)
(* one after the other, each of them once, and the print is reported as    *)
(* finished when there is none left.  A print may be given up on the way.  *)
(***************************************************************************)
EXTENDS Naturals, Sequences

CONSTANTS
    Prints,
    Length  \* lines of the file

VARIABLES
    printed,  \* the lines of each print executed so far
    finished  \* the prints reported as finished

Init ==
    /\ printed = [p \in Prints |-> <<>>]
    /\ finished = {}

Execute(p) ==
    /\ Len(printed[p]) < Length
    /\ printed' = [printed EXCEPT ![p] = Append(@, Len(@) + 1)]
    /\ UNCHANGED finished

Finish(p) ==
    /\ Len(printed[p]) = Length
    /\ finished' = finished \cup {p}
    /\ UNCHANGED printed

Next == \E p \in Prints : Execute(p) \/ Finish(p)

Spec == Init /\ [][Next]_<<printed, finished>>
=============================================================================
