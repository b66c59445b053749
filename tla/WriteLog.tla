------------------------------ MODULE WriteLog ------------------------------
(***************************************************************************)
(* What the report promises of MapEditor: "every clock cycle, it puts all  *)
(* the inputs (at most 6) into a queue and pass them out one by one", and  *)
(* it handles reset requests.  No ring, no pointers, no counter: a         *)
(* sequence of accepted requests that the map has not seen yet.            *)
(***************************************************************************)
EXTENDS Editor

LogStates == [sweeping : BOOLEAN, at : 0 .. SweepLast, pending : Seq(Requests)]

EmptyLog == [sweeping |-> FALSE, at |-> 0, pending |-> << >>]

(* The requests of one cycle, the port of highest priority first.          *)
Batch(we, req) ==
    [i \in 1 .. Cardinality(we) |->
        req[CHOOSE p \in we : Cardinality({o \in we : o <= p}) = i]]

LogNext(l, reset, we, req) ==
    IF reset
    THEN [sweeping |-> TRUE, at |-> 0, pending |-> << >>]
    ELSE IF l.sweeping
    THEN IF l.at = SweepLast THEN EmptyLog ELSE [l EXCEPT !.at = @ + 1]
    ELSE [l EXCEPT !.pending =
            (IF @ = << >> THEN @ ELSE Tail(@)) \o Batch(we, req)]

LogWrites(l) ==
    IF l.sweeping
    THEN {[addr |-> a, data |-> InitialMap[a]] : a \in {l.at} \cap Addrs}
    ELSE IF l.pending = << >> THEN {} ELSE {Head(l.pending)}

=============================================================================
