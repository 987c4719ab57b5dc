---------------------------- MODULE AnswerBoard ----------------------------
(***************************************************************************)
(* What a view that is asked again and again promises: whatever order the  *)
(* answers arrive in, it shows the answer to its latest request or none.   *)
(* Requests are numbered; a number may also be spent to supersede what is  *)
(* running without asking for anything.                                    *)
(***************************************************************************)
EXTENDS Naturals

CONSTANT Boards

VARIABLES
    asked,   \* asked[b]: the number of the latest request
    shown    \* shown[b]: the request whose answer is shown, or 0

BoardInit == asked = [b \in Boards |-> 0] /\ shown = [b \in Boards |-> 0]

(* A newer request, or a reset: the answer on screen stays or goes.        *)
Ask(b) == asked'[b] > asked[b] /\ shown'[b] \in {shown[b], 0}

Answer(b) == asked'[b] = asked[b] /\ shown'[b] = asked[b]

Drop(b) == asked'[b] = asked[b] /\ shown'[b] \in {shown[b], 0}

BoardNext ==
    /\ \A b \in Boards : Ask(b) \/ Answer(b) \/ Drop(b)
    /\ asked' \in [Boards -> Nat] /\ shown' \in [Boards -> Nat]

BoardSpec == BoardInit /\ [][BoardNext]_<<asked, shown>>
=============================================================================
