-------------------------- MODULE FeedbackDispatch --------------------------
(***************************************************************************)
(* What a Group promises to the owners of feedback handlers, with neither  *)
(* locks nor threads: a list of attached handlers, and, for each feedback, *)
(* the handlers it was given to.  A feedback is given, in one step and in  *)
(* the order of attachment, to exactly the handlers attached at that step, *)
(* and no feedback is given out twice.                                     *)
(***************************************************************************)
EXTENDS Naturals, Sequences

CONSTANT Feedback       \* the feedback packets the modules send

VARIABLES attached,     \* the handlers, in the order they were added
          issued,       \* how many handlers were ever added
          delivered     \* delivered[f]: the handlers f was given to, in order

vars == <<attached, issued, delivered>>

Init == /\ attached = <<>>
        /\ issued = 0
        /\ delivered = [f \in Feedback |-> <<>>]

\* A client attaches one more handler, known from now on by its number.
Attach == /\ issued' = issued + 1
          /\ attached' = Append(attached, issued')
          /\ UNCHANGED delivered

\* A client detaches every handler.
DetachAll == /\ attached' = <<>>
             /\ UNCHANGED <<issued, delivered>>

\* Feedback f reaches every attached handler.
Notify(f) == /\ delivered[f] = <<>>
             /\ delivered' = [delivered EXCEPT ![f] = attached]
             /\ UNCHANGED <<attached, issued>>

Next == Attach \/ DetachAll \/ \E f \in Feedback : Notify(f)

Spec == Init /\ [][Next]_vars
=============================================================================
