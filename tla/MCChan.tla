-------------------------------- MODULE MCChan --------------------------------
(* Small instances of Chan. *)
EXTENDS Chan, TLC

CONSTANTS t1, t2, t3, t4, c1, c2, v1, v2

R(c)    == [ch |-> c, dir |-> "recv", val |-> Empty]
S(c, v) == [ch |-> c, dir |-> "send", val |-> v]

RecvCall(c)    == [op |-> "recv",   arms |-> <<R(c)>>,    dflt |-> FALSE]
SendCall(c, v) == [op |-> "send",   arms |-> <<S(c, v)>>, dflt |-> FALSE]
CloseCall(c)   == [op |-> "close",  arms |-> <<R(c)>>,    dflt |-> FALSE]
SelectCall(a)  == [op |-> "select", arms |-> a,           dflt |-> FALSE]
SelectOr(a)    == [op |-> "select", arms |-> a,           dflt |-> TRUE]

Program(calls, max, cap) ==
    [calls |-> calls, max |-> max, cap |-> [c \in Chans |-> cap]]

(* Plain senders, receivers and closers on one channel. *)
PlainCalls ==
    Program([t \in Tasks |->
               {RecvCall(c1), SendCall(c1, v1), SendCall(c1, v2), CloseCall(c1)}],
            2, 2)

(* One select is the only receiver of both channels. *)
SoleSelect ==
    Program((t1 :> {SelectCall(<<R(c1), R(c2)>>)}) @@
            (t2 :> {SendCall(c1, v1)}) @@
            (t3 :> {SendCall(c2, v2), CloseCall(c1)}),
            2, 1)

(* Selects in both directions, with and without a default arm, against      *)
(* plain calls on the same channels.                                        *)
Mixed ==
    LET Left  == {RecvCall(c1), SendCall(c1, v1), SelectCall(<<R(c1), R(c2)>>)}
        Right == {SendCall(c2, v1), CloseCall(c1), SelectCall(<<S(c1, v2), R(c2)>>),
                  SelectOr(<<R(c1), S(c2, v2)>>)}
    IN  Program((t1 :> Left) @@ (t2 :> Right) @@ (t3 :> Left \cup Right), 1, 1)

(* A plain receiver shares c1 with a select. *)
Shared ==
    Program((t1 :> {RecvCall(c1)}) @@
            (t2 :> {SelectCall(<<R(c1), R(c2)>>)}) @@
            (t3 :> {SendCall(c1, v1)}) @@
            (t4 :> {SendCall(c2, v2)}),
            1, 1)

AllPrograms    == <<PlainCalls, SoleSelect, Mixed>>
SharedPrograms == <<Shared>>

=============================================================================
