--------------------------- MODULE MCTranslation ---------------------------
(* Instances of Translation for TLC. *)
EXTENDS Translation, TLC

Only(f) == [op \in Operations |-> IF op \in DOMAIN f THEN f[op] ELSE 0]

MCNames   == <<"r1", "r2", "r3", "r4", "r5", "r6", "r7", "r8", "r9", "r10">>
MCGlobals == {"PauliZ"}

(* The constant i2 -2 is the Pauli Z of QIR; as an angle it is a double     *)
(* without the sign.                                                        *)
MCNumbers == {"0.5", "i2 -2"}
MCAsFloat == "0.5" :> "0.5" @@ "i2 -2" :> "2.0"
MCPauliZ  == {"i2 -2", "PauliZ"}

MCParams  == <<"Qubit*", "Qubit*">>

(* Qubit registers, pointers into them, loads, gates and releases. *)
QubitFamily == Only("qubit_allocate" :> 1 @@ "qubit_allocate_array" :> 1
                    @@ "element_ptr" :> 1 @@ "bitcast" :> 1 @@ "load" :> 1
                    @@ "qubit_release" :> 1 @@ "cnot" :> 1)

(* An array of controls, filled through pointers, and its uses. *)
ControlFamily == Only("array_create" :> 1 @@ "element_ptr" :> 2 @@ "bitcast" :> 2
                      @@ "store" :> 2 @@ "x_ctl" :> 1 @@ "X__ctl" :> 1)

(* A measurement of an array of qubits in an array of bases, both filled. *)
BasisFamily == Only("array_create" :> 2 @@ "element_ptr" :> 2 @@ "bitcast" :> 2
                    @@ "store" :> 2 @@ "measure_body" :> 1)

(* Measurements of qubits that were allocated together. *)
MeasureFamily == Only("qubit_allocate_array" :> 1 @@ "element_ptr" :> 1 @@ "bitcast" :> 1
                      @@ "load" :> 1 @@ "qubit_release" :> 1 @@ "m_body" :> 2)

(* A pair of an angle and a target, and an array of one control, all of     *)
(* them stored.                                                             *)
TupleFamily == Only("tuple_create" :> 1 @@ "array_create" :> 1 @@ "element_ptr" :> 1
                    @@ "bitcast" :> 2 @@ "getelementptr" :> 2 @@ "store" :> 3
                    @@ "Rz__ctl" :> 1)

(* Numbers and computed values, and what a call is given and yields. *)
NumberFamily == Only("alloca" :> 1 @@ "load" :> 1 @@ "store" :> 1 @@ "rz" :> 1
                     @@ "ignored" :> 1)
CallFamily   == Only("alloca" :> 1 @@ "load" :> 1 @@ "rz" :> 1 @@ "call" :> 1
                     @@ "ignored" :> 1)

(* One use of each intrinsic of the tables. *)
PlainFamilies      == {Only("qubit_allocate" :> 2 @@ g :> 1 @@ "refused" :> 1) :
                          g \in DOMAIN PlainGate \union DOMAIN RotationGate}
ControlledFamilies == {Only("array_create" :> 1 @@ "element_ptr" :> 1 @@ "bitcast" :> 1
                            @@ "store" :> 1 @@ g :> 1) : g \in DOMAIN ControlledName}
PairFamilies       == {Only("tuple_create" :> 1 @@ "array_create" :> 1 @@ "bitcast" :> 1
                            @@ "getelementptr" :> 2 @@ "store" :> 2 @@ g :> 1) :
                          g \in DOMAIN ControlledRotationName}
GateFamilies       == PlainFamilies \union ControlledFamilies \union PairFamilies

Families == {QubitFamily, ControlFamily, BasisFamily, MeasureFamily, NumberFamily,
             CallFamily}
               \union GateFamilies

(* The families of the refinement. *)
NothingTolerated  == {}
ControlledSFamily == {Only("array_create" :> 1 @@ "element_ptr" :> 1 @@ "bitcast" :> 1
                            @@ "store" :> 1 @@ "S__ctl" :> 1)}
Misnaming         == {"misnamed gate"}
StrictFamilies    == {ControlFamily, BasisFamily, MeasureFamily, TupleFamily, NumberFamily,
                      CallFamily}
=============================================================================
