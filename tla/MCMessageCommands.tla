-------------------------- MODULE MCMessageCommands --------------------------
(* Values for the configurations of MessageCommands: two sends that use one *)
(* key for different messages, and two forwards that share a key and differ *)
(* in their targets.                                                        *)
EXTENDS MessageCommands

CONSTANTS d, g, x, y, o

MCRequests ==
    {[kind |-> "send", key |-> "k", convs |-> {g}, what |-> x],
     [kind |-> "send", key |-> "k", convs |-> {d}, what |-> x],
     [kind |-> "forward", key |-> "f", convs |-> {d, g}, what |-> o],
     [kind |-> "forward", key |-> "f", convs |-> {g}, what |-> o]}

=============================================================================
