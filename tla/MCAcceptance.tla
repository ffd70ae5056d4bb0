---------------------------- MODULE MCAcceptance ----------------------------
(* A small instance of Acceptance for TLC. *)
EXTENDS Acceptance

Exact(c, p) == [label |-> c, parent |-> p, files |-> <<"queue">>, row |-> c, fields |-> <<"state">>]

\* Two of Gate AI, new or in review, and one behind another of Gate HUMAN.
MCQueues ==
    LET Of(s, g) == [state |-> s, gate |-> g]
    IN  {<<Of("READY", "AI"), Of("READY", "AI")>>,
         <<Of("READY", "HUMAN"), Of("READY", "AI")>>,
         <<Of("AI_REVIEW", "AI"), Of("AI_REVIEW", "AI")>>}

\* The first checkpoint of the queue goes through more than the others.
MCMaxHead == [c \in Checkpoint |-> IF c = 1 THEN 3 ELSE 2]
MCMaxDecisions == [c \in Checkpoint |-> IF c = 1 THEN 2 ELSE 1]

MCMaxChanges == [c \in Checkpoint |-> IF c = 1 THEN 1 ELSE 0]

\* The exact closure without and with the approval recorded, in both orders; with another
\* cell edited, another file, the queue listed twice, another checkpoint's row, another checkpoint's label.
MCOffered(c, p) ==
    LET exact == Exact(c, p)
        other == (c % Checkpoints) + 1
    IN  IF c > 1 THEN {exact}
        ELSE
        {exact, [exact EXCEPT !.fields = <<"state", "result">>],
         [exact EXCEPT !.fields = <<"result", "state">>],
         [exact EXCEPT !.fields = <<"state", "other">>],
         [exact EXCEPT !.files = <<"queue", "code">>],
         [exact EXCEPT !.files = <<"queue", "queue">>],
         [exact EXCEPT !.row = other], [exact EXCEPT !.label = other]}
=============================================================================
