------------------------------- MODULE Naming -------------------------------
(***************************************************************************)
(* The names of memory regions: name_to_string, prefix_name_for_label and  *)
(* the label of a return value. A name is the sequence of its characters.  *)
(***************************************************************************)
EXTENDS Naturals, Sequences

CONSTANT Characters

Underscore == "_"
Period     == "."

ASSUME CharactersAssumption == {Underscore, Period} \subseteq Characters

Names == Seq(Characters)

(* Periods become underscores. *)
Sanitised(n) == [i \in DOMAIN n |-> IF n[i] = Period THEN Underscore ELSE n[i]]

Prefixed(f, n) == f \o <<Underscore, Underscore>> \o n

ReturnValue == <<"r", "e", "t", "u", "r", "n", Underscore, "v", "a", "l", "u", "e">>

ReturnLabel(f) == f \o <<Underscore, Underscore>> \o ReturnValue

(* A register name in which the separator cannot be mistaken: it starts     *)
(* with no underscore and no two underscores stand side by side.            *)
Unambiguous(n) ==
    /\ n # <<>> => n[1] # Underscore
    /\ \A i \in DOMAIN n : i > 1 => ~(n[i] = Underscore /\ n[i - 1] = Underscore)
=============================================================================
