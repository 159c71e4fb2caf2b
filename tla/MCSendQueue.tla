---------------------------- MODULE MCSendQueue -----------------------------
(* Small instances of SendQueue.                                            *)
EXTENDS SendQueue
CONSTANTS p, b, x, y
MCSize == [s \in Sender |-> IF s \in Transfer THEN 1 ELSE 2]
MCParts == [s \in Transfer |-> IF s = x THEN 3 ELSE 2]
====
