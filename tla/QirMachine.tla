----------------------------- MODULE QirMachine -----------------------------
(***************************************************************************)
(* What a QIR body means: the abstract specification of its translation.   *)
(* Registers denote qubits, numbers and pointers into memory blocks; every *)
(* quantum instruction appends to the trace what a quantum computer would  *)
(* be told to do. The k-th qubit allocated is the physical qubit k.        *)
(* The quantum instruction executed last is visible, so that an act counts *)
(* as that of the instruction which the body holds and of no other.        *)
(*                                                                         *)
(* LLVM and the QIR runtime are not part of the repository: this is their  *)
(* semantics as far as the translator relies on it. An instruction is      *)
(* enabled only when its behaviour is defined: a pointer is in bounds, a   *)
(* cell was written before it is read, a qubit is not yet released.        *)
(***************************************************************************)
EXTENDS Quil, FiniteSets

CONSTANTS
    Formals,    \* what the parameters denote (a sequence)
    Numbers,    \* the numeric constants
    PauliZ,     \* those that stand for the basis of Pauli Z
    Targets,    \* names of the memory regions of outcomes
    MaxLength,  \* bound: cells of a block
    MaxArity    \* bound: arguments of a call

VARIABLES
    meaning,    \* what each register denotes
    memory,     \* the blocks: a sequence of sequences of cells
    allocated,  \* how many qubits were allocated
    released,   \* those that were released
    instruction, \* the quantum instruction executed last, its operands and constants
    trace       \* the gates and measurements performed

qvars == <<meaning, memory, allocated, released, instruction, trace>>

AQubit(q)     == [qubit |-> q]
ANumber(c)    == [number |-> c]
Pointer(b, i) == [block |-> b, offset |-> i]
Opaque        == [opaque |-> TRUE]     \* a measurement result, an unread cell

Instruction(op, rs, cs) == [op |-> op, on |-> rs, given |-> cs]

Init ==
    /\ meaning = Formals
    /\ memory = <<>>
    /\ allocated = 0
    /\ released = {}
    /\ instruction = Instruction("none", <<>>, <<>>)
    /\ trace = <<>>

Denotes(r, field) == field \in DOMAIN meaning[r]
Usable(v)         == "qubit" \in DOMAIN v /\ v.qubit \notin released
Block(p)          == memory[meaning[p].block]
Cell(p)           == Block(p)[meaning[p].offset + 1]
InBounds(p)       == Denotes(p, "block") /\ meaning[p].offset < Len(Block(p))

Defines(v)   == meaning' = Append(meaning, v)
NewBlock(cs) == /\ memory' = Append(memory, cs)
                /\ Defines(Pointer(Len(memory) + 1, 0))
                /\ UNCHANGED <<released, instruction, trace>>

Allocate ==
    /\ Defines(AQubit(Fixed(allocated)))
    /\ allocated' = allocated + 1
    /\ UNCHANGED <<memory, released, instruction, trace>>

AllocateArray(n) ==
    /\ NewBlock([i \in 1 .. n |-> AQubit(Fixed(allocated + i - 1))])
    /\ allocated' = allocated + n

(* An array, a tuple or an alloca: n cells not yet written. *)
Create(n) == NewBlock([i \in 1 .. n |-> Opaque]) /\ UNCHANGED allocated

(* The address of a constant of the module. *)
Address(c) == NewBlock(<<ANumber(c)>>) /\ UNCHANGED allocated

(* The register denotes v and nothing else happens: a constant, a phi. *)
Denote(v) == Defines(v) /\ UNCHANGED <<memory, allocated, released, instruction, trace>>

Element(p, i) == /\ Denotes(p, "block") /\ i < Len(Block(p))
                 /\ Denote(Pointer(meaning[p].block, i))

Cast(p) == Denote(meaning[p])

Read(p) == InBounds(p) /\ Cell(p) # Opaque /\ Denote(Cell(p))

Write(p, v) ==
    /\ InBounds(p)
    /\ memory' = [memory EXCEPT ![meaning[p].block][meaning[p].offset + 1] = v]
    /\ UNCHANGED <<meaning, allocated, released, instruction, trace>>

Release(r) ==
    /\ Usable(meaning[r]) /\ "fixed" \in DOMAIN meaning[r].qubit
    /\ released' = released \union {meaning[r].qubit}
    /\ UNCHANGED <<meaning, memory, allocated, instruction, trace>>

Values(rs)   == [i \in DOMAIN rs |-> meaning[rs[i]]]
QubitsOf(vs) == [i \in DOMAIN vs |-> vs[i].qubit]

(* What the intrinsics are called for: Pauli gates, their square and fourth *)
(* roots (S and T), the adjoints of these, the Hadamard gate, and rotations *)
(* by an angle; ctl is for controlled, body for plain.                      *)
Pauli    == [x |-> "X", y |-> "Y", z |-> "Z", x__body |-> "X",
             X__ctl |-> "X", Y__ctl |-> "Y", Z__ctl |-> "Z", cnot |-> "X"]
Hadamard == {"h", "h__body", "H__ctl"}
Phase    == [s |-> 2, sadj |-> -2, t |-> 1, tadj |-> -1, S__ctl |-> 2, T__ctl |-> 1]
AxisOf   == [rx |-> "X", ry |-> "Y", rz |-> "Z", Rx__ctl |-> "X", Ry__ctl |-> "Y", Rz__ctl |-> "Z"]

Intended(g) == CASE g \in DOMAIN Pauli -> Turn(Pauli[g], 4, <<>>)
                 [] g \in Hadamard     -> Turn("XZ", 4, <<>>)
                 [] g \in DOMAIN Phase -> Turn("Z", Phase[g], <<>>)
                 [] g = "I__ctl"       -> Turn("none", 0, <<>>)
                 [] g = "swap"         -> Turn("SWAP", 4, <<>>)
IntendedBy(g, angle) == Turn(AxisOf[g], 0, <<angle>>)

Plain     == {"x", "y", "z", "x__body", "h", "h__body", "s", "sadj", "t", "tadj", "swap"}
WithArray == {"I__ctl", "X__ctl", "Y__ctl", "Z__ctl", "H__ctl", "S__ctl", "T__ctl"}

Executes(op, rs, cs) == instruction' = Instruction(op, rs, cs)

(* A turn of the values ts (targets) under the values cs (controls), which  *)
(* must all be qubits; a call may also define a register.                   *)
Perform(turn, cs, ts, defined) ==
    /\ \A i \in DOMAIN (cs \o ts) : Usable((cs \o ts)[i])
    /\ trace' = Append(trace, Acting(turn, QubitsOf(cs), QubitsOf(ts)))
    /\ meaning' = meaning \o defined
    /\ UNCHANGED <<memory, allocated, released>>

(* The first argument of cnot is its control. *)
Gate(g, args) ==
    LET vs == Values(args)
    IN  /\ Executes(g, args, <<>>)
        /\ IF g = "cnot" THEN Perform(Intended(g), <<vs[1]>>, <<vs[2]>>, <<>>)
                         ELSE Perform(Intended(g), <<>>, vs, <<>>)

Rotate(g, q, angle) ==
    /\ Executes(g, <<q>>, <<angle>>)
    /\ Perform(IntendedBy(g, angle), <<>>, <<meaning[q]>>, <<>>)

(* The callee sees its classical arguments too. *)
Call(f, args, classical, defined) ==
    /\ Executes(f, args, classical)
    /\ Perform(Turn(f, 0, classical), <<>>, Values(args), defined)

Controlled(g, array, q) ==
    /\ Denotes(array, "block")
    /\ Executes(g, <<array, q>>, <<>>)
    /\ Perform(Intended(g), Block(array), <<meaning[q]>>, <<>>)

(* The tuple is the pair of an angle and a target. *)
ControlledRotation(g, array, tuple) ==
    /\ Denotes(array, "block") /\ Denotes(tuple, "block")
    /\ Len(Block(tuple)) = 2 /\ "number" \in DOMAIN Block(tuple)[1]
    /\ Executes(g, <<array, tuple>>, <<>>)
    /\ Perform(IntendedBy(g, Block(tuple)[1].number), Block(array), <<Block(tuple)[2]>>, <<>>)

(* Some qubits are measured; what is recorded of it is the act.             *)
Observe(act, vs) ==
    /\ \A i \in DOMAIN vs : Usable(vs[i])
    /\ trace' = Append(trace, act)
    /\ Defines(Opaque)
    /\ UNCHANGED <<memory, allocated, released>>

(* The outcome of one qubit in the basis of Z, which m__body measures in,   *)
(* goes to the memory region n: the measurement of Quil.                    *)
MeasureQubit(q, n) ==
    /\ Executes("m__body", <<q>>, <<>>)
    /\ Observe(Measurement(meaning[q].qubit, n), <<meaning[q]>>)

(* measure__body is given a Pauli basis for each of its qubits, and         *)
(* measures the product of them. Quil has neither another basis than Z nor  *)
(* a measurement of several qubits: what is not of one qubit in Z has no    *)
(* counterpart.                                                             *)
NumbersOf(vs) == [i \in DOMAIN vs |-> vs[i].number]

Joint(bases, vs) == [op |-> "joint", bases |-> NumbersOf(bases), qubits |-> QubitsOf(vs)]

MeasureValues(bases, vs, n) ==
    /\ Len(bases) = Len(vs)
    /\ \A i \in DOMAIN bases : "number" \in DOMAIN bases[i]
    /\ Observe(IF Len(vs) = 1 /\ bases[1].number \in PauliZ
               THEN Measurement(vs[1].qubit, n) ELSE Joint(bases, vs), vs)

MeasureArray(bases, array, n) ==
    /\ Denotes(bases, "block") /\ Denotes(array, "block")
    /\ Executes("measure__body", <<bases, array>>, <<>>)
    /\ MeasureValues(Block(bases), Block(array), n)

-----------------------------------------------------------------------------
Registers == DOMAIN meaning
Lists(S)  == UNION {[1 .. n -> S] : n \in 0 .. MaxArity}
Sizes     == 0 .. MaxLength \union {2}    \* a tuple has two fields

Next ==
    \/ Allocate
    \/ \E n \in Sizes : AllocateArray(n) \/ Create(n)
    \/ \E c \in Numbers : Denote(ANumber(c)) \/ Address(c)
    \/ Denote(Opaque)
    \/ \E q \in Registers : Denotes(q, "qubit") /\ Denote(meaning[q])
    \/ \E p \in Registers : Cast(p) \/ Read(p) \/ Release(p)
    \/ \E p \in Registers, i \in Sizes : Element(p, i)
    \/ \E p, r \in Registers : Write(p, meaning[r])
    \/ \E p \in Registers, c \in Numbers : Write(p, ANumber(c))
    \/ \E args \in Lists(Registers) :
          \E d \in {<<>>} \union {<<ANumber(c)>> : c \in Numbers} :
             Call("circuit", args, <<>>, d)
    \/ \E q \in Registers : \E g \in Plain \ {"swap"} : Gate(g, <<q>>)
    \/ \E p, q \in Registers : Gate("cnot", <<p, q>>) \/ Gate("swap", <<p, q>>)
    \/ \E q \in Registers, a \in Numbers, g \in {"rx", "ry", "rz"} : Rotate(g, q, a)
    \/ \E a, r \in Registers :
          \/ \E g \in WithArray : Controlled(g, a, r)
          \/ \E g \in {"Rx__ctl", "Ry__ctl", "Rz__ctl"} : ControlledRotation(g, a, r)
    \/ \E r \in Registers, n \in Targets :
          MeasureQubit(r, n) \/ \E b \in Registers : MeasureArray(b, r, n)

Spec == Init /\ [][Next]_qvars
=============================================================================
