--------------------------- MODULE MCChannelPump ----------------------------
(* Small instances of ChannelPump.                                          *)
EXTENDS ChannelPump
Small(s) == [stream |-> s, size |-> 1]
Large(s) == [stream |-> s, size |-> 3]
(* One end sends more than the sockets hold, the other answers.             *)
OneWay == [e \in End |-> IF e = Left THEN <<[stream |-> 1, size |-> 2], Small(2), Large(1)>>
                                     ELSE <<>>]
====
