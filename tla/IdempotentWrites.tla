-------------------------- MODULE IdempotentWrites --------------------------
(***************************************************************************)
(* What keys of the client promise: what a request asks for is written     *)
(* once, whole and under the request's keys, and every repeat of the       *)
(* request is told of what was written then, or is refused.                *)
(***************************************************************************)
CONSTANTS
    Request,        \* the requests
    Demand(_)       \* what each one asks for: a set of [key, what]

VARIABLES
    written,        \* what is written: [key, what, id]
    told            \* the answers: [to, ids]

Init == written = {} /\ told = {}

Asked(W) == {[key |-> w.key, what |-> w.what] : w \in W}
Keys(W) == {w.key : w \in W}

\* All that is missing of the request is written in one step, under new ids.
Write(r) ==
    /\ written \subseteq written' /\ written # written'
    /\ Asked(written' \ written) = {d \in Demand(r) : d.key \notin Keys(written)}
    /\ \A v, w \in written' : v.key = w.key \/ v.id = w.id => v = w
    /\ UNCHANGED told

\* The answer names what the request asked for, and nothing else.
Tell(r) ==
    /\ Demand(r) \subseteq Asked(written)
    /\ told' = told \cup {[to |-> r, ids |-> {w.id : w \in {w \in written : w.key \in Keys(Demand(r))}}]}
    /\ UNCHANGED written

Next == \E r \in Request : Write(r) \/ Tell(r)

Spec == Init /\ [][Next]_<<written, told>>

=============================================================================
