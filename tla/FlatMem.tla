------------------------------- MODULE FlatMem -------------------------------
(* What a client of the RAM callbacks may rely on: a memory in which every  *)
(* word is 0 until it is written and a read returns the last value written. *)
(* op is the call just made, so that a call without its effect is no step.  *)
EXTENDS Naturals

CONSTANTS Addr, Value
VARIABLES words, destination, op

Init == words = [a \in Addr |-> 0] /\ destination = 0 /\ op = <<"none">>

Write(a, v) ==
    /\ words' = [words EXCEPT ![a] = v]
    /\ op' = <<"write", a, v>> /\ UNCHANGED destination
Read(a) ==
    /\ destination' = words[a]
    /\ op' = <<"read", a>> /\ UNCHANGED words

Next == \E a \in Addr : Read(a) \/ \E v \in Value : Write(a, v)

Spec == Init /\ [][Next]_<<words, destination, op>>
=============================================================================
