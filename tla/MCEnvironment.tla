--------------------------- MODULE MCEnvironment ---------------------------
(***************************************************************************)
(* Instances of Environment for TLC. Each budget admits one family of      *)
(* bodies: the instructions it names, so many times each, and no other.    *)
(***************************************************************************)
EXTENDS Environment, TLC

Only(f) == [op \in Operations |-> IF op \in DOMAIN f THEN f[op] ELSE 0]

MCNames   == <<"r1", "r2", "r3", "r4", "r5", "r6", "r7">>
MCGlobals == {"PauliZ"}
MCAsFloat == "0.5" :> "0.5"
MCParams  == <<"Qubit*", "Num">>

(* Qubit registers, pointers into them, loads, gates and releases. *)
QubitFamily == Only("qubit_allocate" :> 1 @@ "qubit_allocate_array" :> 1
                    @@ "element_ptr" :> 1 @@ "bitcast" :> 1 @@ "load" :> 1
                    @@ "qubit_release" :> 1 @@ "h" :> 1 @@ "m_body" :> 1)

(* An array of controls, filled through pointers, and its uses. *)
ControlFamily == Only("array_create" :> 1 @@ "element_ptr" :> 2 @@ "bitcast" :> 2
                      @@ "store" :> 2 @@ "ignored" :> 1 @@ "x_ctl" :> 1
                      @@ "X__ctl" :> 1 @@ "measure_body" :> 1)

(* A qubit that is released while an array still holds its name. *)
ReleaseFamily == Only("qubit_allocate" :> 1 @@ "array_create" :> 1 @@ "element_ptr" :> 1
                      @@ "bitcast" :> 1 @@ "store" :> 1 @@ "qubit_release" :> 1
                      @@ "x_ctl" :> 1 @@ "X__ctl" :> 1 @@ "measure_body" :> 1)

(* Tuples of an angle and a target. *)
TupleFamily == Only("tuple_create" :> 1 @@ "array_create" :> 1 @@ "element_ptr" :> 1
                    @@ "bitcast" :> 2 @@ "getelementptr" :> 2 @@ "store" :> 2
                    @@ "Rz__ctl" :> 1)

(* Numbers: allocas, loads of constants, casts, stores, rotations, calls. *)
NumberFamily == Only("alloca" :> 1 @@ "bitcast" :> 1 @@ "load" :> 1 @@ "store" :> 2
                     @@ "rz" :> 1 @@ "call" :> 1 @@ "refused" :> 1)

Families == {QubitFamily, ControlFamily, ReleaseFamily, TupleFamily, NumberFamily}

(* Calls with arguments of any type. *)
CallFamilies == {Only("alloca" :> 1 @@ "load" :> 1 @@ "ignored" :> 1 @@ "call" :> 1)}

(* The sanitised names of %q, %a, %p_1, %p.1 and %r: the periods of LLVM    *)
(* become underscores.                                                      *)
CollidingNames    == <<"q", "a", "p_1", "p_1", "r">>
NoParams          == <<>>
CollidingFamilies ==
    {Only("qubit_allocate" :> 1 @@ "array_create" :> 1 @@ "element_ptr" :> 2
          @@ "bitcast" :> 2 @@ "store" :> 1 @@ "load" :> 1 @@ "h" :> 1)}
=============================================================================
