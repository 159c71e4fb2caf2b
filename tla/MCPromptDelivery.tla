------------------------- MODULE MCPromptDelivery -------------------------
(* Three prompts, two of which read the same.                              *)
EXTENDS PromptDelivery, TLC

CONSTANTS p1, p2, p3

MCText == (p1 :> "again") @@ (p2 :> "other") @@ (p3 :> "again")
====
