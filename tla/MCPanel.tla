------------------------------ MODULE MCPanel ------------------------------
(* Panel, with the states told apart by what matters to what follows.     *)
EXTENDS Panel

\* What makes no difference to what follows: a signature that blocks nothing,
\* the sidebar of a settling that is over, and a form, whose changes matter.
Remembered ==
    LET p == panel
    IN <<changes, [s \in Sidebars |-> <<dom[s].look, dom[s].layout>>],
         [p EXCEPT !.blockedSignature = IF p.blocked = None THEN "short" ELSE @,
                   !.target = IF p.settle = "off" THEN None ELSE @]>>

=============================================================================
