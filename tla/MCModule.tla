------------------------------ MODULE MCModule ------------------------------
(* Instances of ModuleTranslation and ModuleExecution for TLC. *)
EXTENDS ModuleExecution, TLC

MCCharacters == {"_", ".", "a", "b", "c", "p", "q", "r", "x"}
MCFunctions  == {"main", "sub", "deep"}

(* Function a and function a__b: a register b__c of the one and a register  *)
(* c of the other have one region.                                          *)
MCFunctionNames == "main" :> <<"a">> @@ "sub" :> <<"a", "_", "_", "b">> @@ "deep" :> <<"c">>
MCRegisterNames ==
    "main" :> <<<<"p">>, <<"q">>, <<"b", ".", "_", "c">>, <<"r", ".", "a">>>>
    @@ "sub" :> <<<<"x">>, <<"r">>, <<"c">>, <<"q">>>>
    @@ "deep" :> <<<<"x">>, <<"c">>, <<"r">>>>

Seqs(S, n) == UNION {[1 .. k -> S] : k \in 0 .. n}
Alloc      == [do |-> "alloc"]
On(n)      == [do : {"measure"}, on : 1 .. n] \union [do : {"gate"}, on : {n}]
CallOf(f, args) == [do |-> "call", fn |-> f, args |-> args]
Swapped    == CallOf("sub", <<2, 1>>)
Deep(n)    == {CallOf("deep", <<q>>) : q \in 1 .. n}

Function(params, body, ret) == [params |-> params, body |-> body, ret |-> ret]
Rets(n) == {RetVoid} \union {Ret(r) : r \in 3 .. n}
Input(readable, defined, constants, main, sub, deep) ==
    [readable |-> readable, defined |-> defined, constants |-> constants,
     functions |-> "main" :> main @@ "sub" :> sub @@ "deep" :> deep]

(* Bodies of every shape, called through two levels: the entry point calls  *)
(* sub, with its qubits swapped.                                            *)
Mains == {Function(<<>>, <<Alloc, Alloc>> \o b, r) :
            b \in {b \in Seqs({Alloc, Swapped} \union On(2) \union Deep(1), 2) :
                     \E i \in DOMAIN b : b[i] = Swapped},
            r \in Rets(4)}
Subs  == {Function(<<"Qubit*", "Qubit*">>, b, r) :
            b \in Seqs({Alloc} \union On(2) \union Deep(2), 2), r \in Rets(4)}
Deeps == {Function(<<"Qubit*">>, b, RetVoid) : b \in Seqs({Alloc} \union On(1), 1)}
           \union {Function(<<"Qubit*">>, <<[do |-> "measure", on |-> 1]>>, Ret(2))}

Translated == {m \in {Input(TRUE, MCFunctions, <<>>, m, f, g) :
                         m \in Mains, f \in Subs, g \in Deeps} : WellFormed(m)}

(* The entry point only calls a function that allocates. *)
Wrapped == {m \in {Input(TRUE, MCFunctions, <<>>, Function(<<>>, <<CallOf("sub", <<>>)>>, r),
                         Function(<<>>, <<Alloc, Alloc>> \o b, t), g) :
                      r \in {RetVoid, Ret(1)}, t \in Rets(4), g \in Deeps,
                      b \in Seqs({Alloc} \union On(2) \union Deep(2), 2)} : WellFormed(m)}

(* Everything else that a module holds, around bodies of one shape. *)
Caller(params, ret) ==
    Function(params, <<Alloc, CallOf("deep", <<Len(params) + 1>>)>>, ret)
Callee(params, ret) == Function(params, <<[do |-> "measure", on |-> Len(params)]>>, ret)
Unused == Function(<<"Qubit*", "Qubit*">>, <<>>, RetVoid)

Constant(n, k) == [name |-> n, kind |-> k]
Constants == Seqs({Constant(<<"p">>, k) : k \in ConstantKinds}
                    \union {Constant(<<"a", ".", "_", "p">>, "int")}, 2)
Params    == Seqs(Types, 1)

Around == {m \in
    {Input(TRUE, MCFunctions, cs, Caller(p, r), Unused, Callee(s, RetVoid)) :
        cs \in Constants, p \in Params, r \in {RetVoid, RetConstant, Ret(1)},
        s \in {<<"Qubit*">>, <<"i64", "Qubit*">>}} : WellFormed(m)}

Broken == {Input(read, d, <<>>, Caller(<<>>, RetVoid), Unused, Callee(<<"Qubit*">>, RetVoid)) :
              read \in BOOLEAN, d \in SUBSET MCFunctions}

(* Recursion: deep calls main. *)
Circular == Input(TRUE, MCFunctions, <<>>, Caller(<<>>, RetVoid), Unused,
                  Function(<<"Qubit*">>, <<CallOf("main", <<>>)>>, RetVoid))

MCModules == Translated \union Wrapped \union Around \union Broken \union {Circular}
=============================================================================
