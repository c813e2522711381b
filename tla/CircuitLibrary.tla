--------------------------- MODULE CircuitLibrary ---------------------------
(***************************************************************************)
(* What the search through the call graph promises: circuits are defined   *)
(* one at a time, each once and for good, each with the body of its        *)
(* function, and never before the circuits that its body applies.          *)
(***************************************************************************)
EXTENDS Sequences

CONSTANT Functions

VARIABLES
    calls,     \* the input: the functions each function calls, in order
    circuits   \* the circuits defined so far, with the gates of each

CalleesOf(f) == {calls[f][i] : i \in DOMAIN calls[f]}

Init == circuits = <<>>

Define(f) ==
    /\ f \notin DOMAIN circuits
    /\ CalleesOf(f) \subseteq DOMAIN circuits
    /\ circuits' = [g \in DOMAIN circuits \union {f} |->
                       IF g = f THEN calls[f] ELSE circuits[g]]
    /\ UNCHANGED calls

Next == \E f \in Functions : Define(f)

Spec == Init /\ [][Next]_<<calls, circuits>>
=============================================================================
