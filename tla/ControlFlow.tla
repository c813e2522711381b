---------------------------- MODULE ControlFlow ----------------------------
(***************************************************************************)
(* The blocks of one function: they are translated in the order of their   *)
(* layout, and then the function and its Quil run side by side. A gate is  *)
(* named for its place in the function, so that one gate of Quil is told   *)
(* from another.                                                           *)
(*                                                                         *)
(* Of the terminators only br is translated to a jump. As in Translation,  *)
(* departures collects what a run of the function does that the translator *)
(* is known to lose; the comparison ends with the first of them.           *)
(***************************************************************************)
EXTENDS Quil, FiniteSets

CONSTANTS
    Registers,     \* of type Qubit*
    Inputs,        \* the functions: sequences of blocks
    MaxBlocks,     \* bound: blocks of a function
    MaxOps         \* bound: instructions of a block

Ops         == [do : {"alloc", "gate", "release"}, on : Registers]
Terminators == [do : {"ret", "unreachable"}, to : {{}}]
                  \union [do : {"br", "condbr"}, to : SUBSET (2 .. MaxBlocks)]

Targets(blocks) == [b \in DOMAIN blocks |-> blocks[b].term.to]

(* The blocks on the paths from the first block that do not enter avoided.  *)
ReachedAvoiding(blocks, avoided) ==
    LET within[n \in 0 .. Len(blocks)] ==
            IF n = 0 THEN {1} \ {avoided}
            ELSE within[n - 1] \union (UNION {Targets(blocks)[b] : b \in within[n - 1]} \ {avoided})
    IN  within[Len(blocks)]

(* What LLVM makes sure of: the first block is nowhere branched to, a       *)
(* register is defined in one place, and that place dominates every use.    *)
WellFormed(blocks) ==
    LET avoiding   == [b \in DOMAIN blocks |-> ReachedAvoiding(blocks, b)]
        Op(b, i)   == blocks[b].ops[i]
        Defines(b, i, r) == Op(b, i) = [do |-> "alloc", on |-> r]
    IN  /\ blocks \in Seq([ops : Seq(Ops), term : Terminators])
        /\ Len(blocks) \in 1 .. MaxBlocks
        /\ \A b \in DOMAIN blocks :
              /\ Len(blocks[b].ops) <= MaxOps
              /\ blocks[b].term.to \subseteq DOMAIN blocks
              /\ blocks[b].term.do = "br" => Cardinality(blocks[b].term.to) = 1
              /\ blocks[b].term.do = "condbr" => blocks[b].term.to # {}
        /\ \A b, c \in DOMAIN blocks :
           \A i \in DOMAIN blocks[b].ops, j \in DOMAIN blocks[c].ops :
              Defines(b, i, Op(c, j).on) /\ Op(c, j).do = "alloc" => b = c /\ i = j
        /\ \A b \in DOMAIN blocks : \A i \in DOMAIN blocks[b].ops :
              Op(b, i).do # "alloc" =>
                 \E d \in DOMAIN blocks : \E j \in DOMAIN blocks[d].ops :
                    /\ Defines(d, j, Op(b, i).on)
                    /\ IF d = b THEN j < i ELSE b \notin avoiding[d]

ASSUME BoundsAssumption == MaxBlocks \in Nat \ {0} /\ MaxOps \in Nat
ASSUME InputsAssumption == \A blocks \in Inputs : WellFormed(blocks)

VARIABLES
    blocks,      \* the input
    next,        \* translator: the next block and the place in it, 0 its label
    locals,      \* LocalEnvironment.variables: the qubits by register
    nextQubit,   \* LocalEnvironment.next_qubit_to_allocate
    code,        \* the Quil so far
    at,          \* the function's machine: a block and a place in it
    live,        \* the registers not released, and which qubit of its each holds
    pending,     \* what the function did last that the Quil has yet to do
    pc,          \* Quil's machine: the next instruction
    pairs,       \* the number that Quil used for each qubit of the function
    agree,       \* whether all that Quil did was pending
    departures

translator == <<blocks, next, locals, nextQubit, code>>
function   == <<at, live>>
vars       == <<translator, function, pending, pc, pairs, agree, departures>>

Idle == [act |-> "none"]
Acts(g, q) == [act |-> "gate", gate |-> g, on |-> q]
End  == [act |-> "end"]

Init ==
    /\ blocks \in Inputs
    /\ next = <<1, 0>> /\ locals = <<>> /\ nextQubit = 0 /\ code = <<>>
    /\ at = <<1, 1>> /\ live = <<>> /\ pending = Idle
    /\ pc = 1 /\ pairs = {} /\ agree = TRUE
    /\ departures = {}

-----------------------------------------------------------------------------
(* The translator, one label, instruction or terminator at a time.          *)

Label(b) == [op |-> "label", block |-> b]
Jump(b)  == [op |-> "jump", block |-> b]

Translating == next[1] <= Len(blocks)
Instrs      == blocks[next[1]].ops
Instr(do)   == Translating /\ next[2] \in DOMAIN Instrs /\ Instrs[next[2]].do = do
On          == Instrs[next[2]].on
Advance     == next' = <<next[1], next[2] + 1>>

(* Mutant: every block numbers its qubits from 0. *)
CounterReset ==
    /\ Translating /\ next[2] = 0
    /\ code' = Append(code, Label(next[1]))
    /\ nextQubit' = 0
    /\ Advance
    /\ UNCHANGED <<blocks, locals, function, pending, pc, pairs, agree, departures>>

(* A block finds the environment of the blocks laid out before it. *)
TranslateLabel ==
    /\ Translating /\ next[2] = 0
    /\ code' = Append(code, Label(next[1]))
    /\ Advance
    /\ UNCHANGED <<blocks, locals, nextQubit, function, pending, pc, pairs, agree, departures>>

TranslateAllocate ==
    /\ Instr("alloc")
    /\ locals' = [r \in DOMAIN locals \union {On} |-> IF r = On THEN nextQubit ELSE locals[r]]
    /\ nextQubit' = nextQubit + 1
    /\ Advance
    /\ UNCHANGED <<blocks, code, function, pending, pc, pairs, agree, departures>>

TranslateRelease ==
    /\ Instr("release")
    /\ locals' = [r \in DOMAIN locals \ {On} |-> locals[r]]
    /\ Advance
    /\ UNCHANGED <<blocks, nextQubit, code, function, pending, pc, pairs, agree, departures>>

(* A gate leaves out an argument that is not bound. *)
TranslateGate ==
    /\ Instr("gate")
    /\ code' = Append(code, GateOn(next, FALSE, <<>>, 0,
                    IF On \in DOMAIN locals THEN <<Fixed(locals[On])>> ELSE <<>>))
    /\ Advance
    /\ UNCHANGED <<blocks, locals, nextQubit, function, pending, pc, pairs, agree, departures>>

(* Mutant: br is ignored like the other branches. *)
NoJump(term) == <<>>

(* Mutant: the jump goes to the first block. *)
JumpToFirst(term) == IF term.do = "br" THEN <<Jump(1)>> ELSE <<>>

Terminator(term) == IF term.do = "br" THEN <<Jump(CHOOSE b \in term.to : TRUE)>> ELSE <<>>

TranslateTerminator ==
    /\ Translating /\ next[2] > Len(Instrs)
    /\ code' = code \o Terminator(blocks[next[1]].term)
    /\ next' = <<next[1] + 1, 0>>
    /\ UNCHANGED <<blocks, locals, nextQubit, function, pending, pc, pairs, agree, departures>>

-----------------------------------------------------------------------------
(* The function: it waits for Quil after every gate and at its end.         *)

Running == ~Translating /\ departures = {} /\ agree /\ at # <<>>
QirTurn == Running /\ pending = Idle
Block   == blocks[at[1]]
AtOp(do) == QirTurn /\ at[2] <= Len(Block.ops) /\ Block.ops[at[2]].do = do
AtTerm(do) == QirTurn /\ at[2] > Len(Block.ops) /\ Block.term.do = do

This   == Block.ops[at[2]].on
Onward == at' = <<at[1], at[2] + 1>>

(* Where a register is released or allocated, in the order of the layout.   *)
Precedes(x, y) == x[1] < y[1] \/ (x[1] = y[1] /\ x[2] < y[2])
LaidOut(do, r, x) ==
    \E b \in DOMAIN blocks : \E i \in DOMAIN blocks[b].ops :
        blocks[b].ops[i] = [do |-> do, on |-> r] /\ Precedes(<<b, i>>, x)

Departs(condition, why) ==
    departures' = departures \union IF condition THEN {why} ELSE {}

(* A register that is defined again, in a loop, before its qubit is         *)
(* released holds a second qubit; Quil has one.                             *)
Held == IF This \in DOMAIN live THEN live[This] ELSE 0

QirAllocate ==
    /\ AtOp("alloc")
    /\ Departs(Held > 0, "second qubit")
    /\ live' = [r \in DOMAIN live \union {This} |-> IF r = This THEN Held + 1 ELSE live[r]]
    /\ Onward
    /\ UNCHANGED <<translator, pending, pc, pairs, agree>>

QirGate ==
    /\ AtOp("gate") /\ Held > 0
    /\ departures' = departures
          \union (IF LaidOut("alloc", This, at) THEN {} ELSE {"laid out before allocation"})
          \union (IF LaidOut("release", This, at) THEN {"laid out after release"} ELSE {})
    /\ pending' = Acts(at, <<This, Held>>)
    /\ Onward
    /\ UNCHANGED <<translator, live, pc, pairs, agree>>

QirRelease ==
    /\ AtOp("release") /\ Held > 0
    /\ live' = [r \in DOMAIN live \ {This} |-> live[r]]
    /\ pairs' = {p \in pairs : p[1] # <<This, Held>>}
    /\ Onward
    /\ UNCHANGED <<translator, pending, pc, agree, departures>>

(* condbr and switch go anywhere, Quil falls through to the next block.     *)
QirBranch ==
    /\ AtTerm("br") \/ AtTerm("condbr")
    /\ \E b \in Block.term.to :
          /\ at' = <<b, 1>>
          /\ Departs(Block.term.do = "condbr" /\ b # at[1] + 1, "branch not to the next block")
    /\ UNCHANGED <<translator, live, pending, pc, pairs, agree>>

QirReturn ==
    /\ AtTerm("ret")
    /\ Departs(at[1] # Len(blocks), "return before the last block")
    /\ pending' = End
    /\ UNCHANGED <<translator, function, pc, pairs, agree>>

(* Nothing is defined of a function that comes to unreachable.              *)

-----------------------------------------------------------------------------
(* Quil: a label is passed, a jump goes to its label, a gate must be the    *)
(* one pending, and the end of the code the end of the function.            *)

QuilTurn == Running /\ pending # Idle
Op(op)   == QuilTurn /\ pc <= Len(code) /\ code[pc].op = op

QuilLabel ==
    /\ Op("label")
    /\ pc' = pc + 1
    /\ UNCHANGED <<translator, function, pending, pairs, agree, departures>>

QuilJump ==
    /\ Op("jump")
    /\ pc' = CHOOSE i \in DOMAIN code : code[i] = Label(code[pc].block)
    /\ UNCHANGED <<translator, function, pending, pairs, agree, departures>>

QuilGate ==
    /\ Op("gate")
    /\ LET same == pending.act = "gate" /\ code[pc].name = pending.gate /\ code[pc].qubits # <<>>
       IN  /\ agree' = same
           /\ pairs' = IF same THEN pairs \union {<<pending.on, code[pc].qubits[1].fixed>>}
                               ELSE pairs
    /\ pending' = Idle
    /\ pc' = pc + 1
    /\ UNCHANGED <<translator, function, departures>>

QuilHalt ==
    /\ QuilTurn /\ pc > Len(code)
    /\ agree' = (pending = End)
    /\ pending' = Idle
    /\ at' = <<>>
    /\ UNCHANGED <<translator, live, pc, pairs, departures>>

Qir  == QirAllocate \/ QirGate \/ QirRelease \/ QirBranch \/ QirReturn
Quil == QuilLabel \/ QuilJump \/ QuilGate \/ QuilHalt
Translate == \/ TranslateLabel \/ TranslateAllocate \/ TranslateRelease
             \/ TranslateGate \/ TranslateTerminator
Next == Translate \/ Qir \/ Quil

(* The Quil machine goes on as long as it can. *)
Spec == Init /\ [][Next]_vars /\ WF_vars(Quil)

-----------------------------------------------------------------------------
(* Properties *)

(* The shape of the state. *)
TypeOK ==
    /\ \/ next = <<Len(blocks) + 1, 0>>
       \/ next[1] \in DOMAIN blocks /\ next[2] \in 0 .. Len(blocks[next[1]].ops) + 1
    /\ DOMAIN locals \subseteq Registers
    /\ \A r \in DOMAIN locals : locals[r] \in 0 .. nextQubit - 1
    /\ DOMAIN live \subseteq Registers
    /\ pc \in 1 .. Len(code) + 1
    /\ departures \subseteq {"second qubit", "laid out before allocation",
          "laid out after release", "branch not to the next block",
          "return before the last block"}

(* A run of a function that departs in nothing is the run of its Quil: the  *)
(* same gates in the same order, and both end together, through any jumps.  *)
SamePath == departures = {} => agree

(* One qubit of Quil for each qubit of the function that is in use, and     *)
(* always the same one, wherever it was allocated and however often.        *)
OneToOne == departures = {} =>
    \A p, q \in pairs : p[1] = q[1] <=> p[2] = q[2]

(* Quil comes to whatever the function did, and to its end: no jump leads   *)
(* it round in circles.                                                     *)
CatchesUp == pending # Idle ~> (pending = Idle \/ departures # {})
=============================================================================
