--------------------------- MODULE MCControlFlow ---------------------------
(* Functions of at most three blocks for ControlFlow. *)
EXTENDS ControlFlow

MCRegisters == {"q", "r"}

Seqs(S, n) == UNION {[1 .. k -> S] : k \in 0 .. n}

Uses(ops, do)  == {ops[i].on : i \in {j \in DOMAIN ops : ops[j].do = do}}
Allocates(ops) == Uses(ops, "alloc")

Straight(n) == {ops \in Seqs(Ops, n) :
    \A i, j \in DOMAIN ops : ops[i].do = "alloc" /\ ops[i] = ops[j] => i = j}

(* A register that is used is allocated, in one block, and q if r is.       *)
Sound(s) ==
    LET all == UNION {Allocates(s[i]) : i \in DOMAIN s}
    IN  /\ \A i, j \in DOMAIN s : i # j => Allocates(s[i]) \cap Allocates(s[j]) = {}
        /\ \A i \in DOMAIN s : Uses(s[i], "gate") \union Uses(s[i], "release") \subseteq all
        /\ "r" \in all => "q" \in all

Ops2 == {s \in Straight(2) \X Straight(2) : Sound(s)}
Ops3 == {s \in (Straight(2) \X Straight(1) \X Straight(1))
                  \union (Straight(1) \X Straight(2) \X Straight(1)) : Sound(s)}

Leaves(targets) == [do : {"ret", "unreachable"}, to : {{}}]
                      \union [do : {"br"}, to : {{b} : b \in targets}]
                      \union {[do |-> "condbr", to |-> targets]}

Blocks(ops, terms) == [b \in DOMAIN ops |-> [ops |-> ops[b], term |-> terms[b]]]

(* The functions of a shape, every block of which can be reached.           *)
Shaped(opses, terms) ==
    IF ReachedAvoiding([b \in DOMAIN terms |-> [term |-> terms[b]]], 0) # DOMAIN terms THEN {}
    ELSE {f \in {Blocks(ops, terms) : ops \in opses} : WellFormed(f)}

MCInputs == UNION {Shaped(Ops3, t) : t \in Leaves({2, 3}) \X Leaves({2, 3}) \X Leaves({2, 3})}
              \union UNION {Shaped(Ops2, t) : t \in Leaves({2}) \X Leaves({2})}
=============================================================================
