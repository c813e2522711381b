-------------------------------- MODULE Quil --------------------------------
(***************************************************************************)
(* The Quil instructions a function body is translated to, and what a gate *)
(* of Quil does, as far as its name and modifiers tell.                    *)
(***************************************************************************)
EXTENDS Integers, Sequences

Fixed(i)    == [fixed |-> i]       \* a physical qubit
Variable(n) == [variable |-> n]    \* a formal qubit of a DEFCIRCUIT

QuilQubit == [fixed : Nat] \union [variable : STRING]

(* A gate: its name, its modifiers (DAGGER or not, how many CONTROLLED),    *)
(* its constant parameters, and its qubits, the controls first.             *)
GateOn(name, dagger, angles, controls, qubits) ==
    [op |-> "gate", name |-> name, dagger |-> dagger, angles |-> angles,
     controls |-> controls, qubits |-> qubits]

Measurement(q, n) == [op |-> "measure", qubit |-> q, target |-> n]

-----------------------------------------------------------------------------
(* A turn of the Bloch sphere about an axis, in eighths of a full turn and, *)
(* for the rotations, by the angles given. The turns of SWAP and of the     *)
(* gate that a circuit defines have the gate's name for an axis.            *)
Turn(axis, eighths, angles) ==
    [axis |-> axis, eighths |-> eighths % 8, angles |-> angles]

(* The act of some turn: its controls and targets. *)
Acting(turn, controls, targets) ==
    [op |-> "turn", turn |-> turn, controls |-> controls, targets |-> targets]

HalfTurns == [X |-> "X", Y |-> "Y", Z |-> "Z", H |-> "XZ", SWAP |-> "SWAP"]
Rotations == [RX |-> "X", RY |-> "Y", RZ |-> "Z"]

(* The turn of a gate of Quil's standard library, or of a circuit. A        *)
(* rotation takes one parameter; without it there is no such gate.          *)
TurnOf(g) ==
    LET sign == IF g.dagger THEN -1 ELSE 1
    IN  CASE g.name \in DOMAIN HalfTurns -> Turn(HalfTurns[g.name], 4 * sign, g.angles)
          [] g.name = "S" -> Turn("Z", 2 * sign, g.angles)
          [] g.name = "T" -> Turn("Z", sign, g.angles)
          [] g.name = "CNOT" -> Turn("X", 4 * sign, g.angles)
          [] g.name \in DOMAIN Rotations ->
                IF Len(g.angles) = 1 THEN Turn(Rotations[g.name], 0, g.angles)
                                     ELSE Turn("no gate", 0, <<>>)
          [] OTHER -> Turn(g.name, 0, g.angles)

(* What an instruction does. The control of CNOT is its first qubit.        *)
ActOf(g) ==
    IF g.op # "gate" THEN g
    ELSE LET n == IF g.name = "CNOT" THEN g.controls + 1 ELSE g.controls
         IN  Acting(TurnOf(g), SubSeq(g.qubits, 1, n), SubSeq(g.qubits, n + 1, Len(g.qubits)))
=============================================================================
