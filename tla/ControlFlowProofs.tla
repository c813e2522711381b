------------------------- MODULE ControlFlowProofs -------------------------
(***************************************************************************)
(* Proofs about ControlFlow, for functions of any number of blocks with    *)
(* any instructions, laid out in any order.                                *)
(***************************************************************************)
EXTENDS ControlFlow, FiniteSetTheorems, SequenceTheorems, TLAPS

(* The places of a function: the label of a block, its instructions, its    *)
(* terminator. One place precedes another in the order of the layout.       *)
LastOf(B, b)  == Len(B[b].ops) + 1
Places(B)     == {x \in Nat \X Nat : x[1] \in DOMAIN B /\ x[2] <= LastOf(B, x[1])}
Inside(B)     == {x \in Places(B) : x[2] # 0}
OpAt(B, x)    == B[x[1]].ops[x[2]]
Doing(B, do)  == {x \in Places(B) : x[2] \in DOMAIN B[x[1]].ops /\ OpAt(B, x).do = do}
Enders(B)     == {x \in Places(B) : x[2] = LastOf(B, x[1])}
Beyond(B, x)  == IF x \in Enders(B) THEN <<x[1] + 1, 0>> ELSE <<x[1], x[2] + 1>>

(* Those that are translated to an instruction of Quil. *)
Writing(B) == {x \in Places(B) : \/ x[2] = 0
                                 \/ x \in Doing(B, "gate")
                                 \/ x \in Enders(B) /\ B[x[1]].term.do = "br"}

(* How many members of S a place comes after. *)
Earlier(S, x) == {p \in S : Precedes(p, x)}
Rank(S, x)    == Cardinality(Earlier(S, x))

(* Where the translation of a place is in the code, and the number of the   *)
(* qubit that is allocated there.                                           *)
Pos(B, x)    == Rank(Writing(B), x) + 1
Number(B, x) == Rank(Doing(B, "alloc"), x)

(* What the proofs need of a function. *)
Sane(B) ==
    /\ DOMAIN B = 1 .. Len(B) /\ Len(B) \in Nat \ {0}
    /\ \A b \in DOMAIN B :
          /\ B[b].ops \in Seq(Ops) /\ Len(B[b].ops) <= MaxOps
          /\ B[b].term.do = "br" => \E t \in DOMAIN B : B[b].term.to = {t}
          /\ B[b].term.to \subseteq DOMAIN B
    /\ \A x, y \in Doing(B, "alloc") : OpAt(B, x).on = OpAt(B, y).on => x = y

-----------------------------------------------------------------------------
(* The order of the places. *)

LEMMA PlacesTyped ==
    ASSUME NEW B, Sane(B), NEW x \in Places(B)
    PROVE  /\ x = <<x[1], x[2]>> /\ x[1] \in Nat /\ x[2] \in Nat
           /\ x[1] \in DOMAIN B /\ x[1] \in 1 .. Len(B)
           /\ Len(B[x[1]].ops) \in Nat /\ B[x[1]].ops \in Seq(Ops)
           /\ DOMAIN B[x[1]].ops = 1 .. Len(B[x[1]].ops)
           /\ LastOf(B, x[1]) \in Nat \ {0} /\ x[2] <= LastOf(B, x[1])
<1>1. x \in Nat \X Nat /\ x[1] \in DOMAIN B /\ x[2] <= LastOf(B, x[1])
  BY DEF Places
<1>2. B[x[1]].ops \in Seq(Ops)
  BY <1>1 DEF Sane
<1>3. Len(B[x[1]].ops) \in Nat /\ DOMAIN B[x[1]].ops = 1 .. Len(B[x[1]].ops)
  BY <1>2, LenProperties
<1>4. LastOf(B, x[1]) \in Nat \ {0}
  BY <1>3 DEF LastOf
<1> QED
  BY <1>1, <1>2, <1>3, <1>4 DEF Sane

LEMMA OrderOfPlaces ==
    ASSUME NEW x \in Nat \X Nat, NEW y \in Nat \X Nat
    PROVE  /\ ~Precedes(x, x)
           /\ Precedes(x, y) => ~Precedes(y, x)
           /\ x = y \/ Precedes(x, y) \/ Precedes(y, x)
           /\ \A z \in Nat \X Nat : Precedes(x, y) /\ Precedes(y, z) => Precedes(x, z)
BY DEF Precedes

LEMMA BeyondIsNext ==
    ASSUME NEW B, Sane(B), NEW x \in Places(B)
    PROVE  /\ Beyond(B, x) \in Nat \X Nat /\ Precedes(x, Beyond(B, x))
           /\ \A p \in Places(B) : Precedes(p, Beyond(B, x)) <=> Precedes(p, x) \/ p = x
<1>1. /\ x[1] \in Nat /\ x[2] \in Nat /\ x = <<x[1], x[2]>>
      /\ LastOf(B, x[1]) \in Nat /\ x[2] <= LastOf(B, x[1])
  BY PlacesTyped
<1>2. Beyond(B, x) \in Nat \X Nat /\ Precedes(x, Beyond(B, x))
  BY <1>1 DEF Beyond, Precedes
<1>3. ASSUME NEW p \in Places(B)
      PROVE  Precedes(p, Beyond(B, x)) <=> Precedes(p, x) \/ p = x
  <2>1. /\ p[1] \in Nat /\ p[2] \in Nat /\ p = <<p[1], p[2]>>
        /\ LastOf(B, p[1]) \in Nat /\ p[2] <= LastOf(B, p[1])
    BY PlacesTyped
  <2>2. p = x <=> p[1] = x[1] /\ p[2] = x[2]
    BY <1>1, <2>1
  <2>3. CASE x \in Enders(B)
    <3>1. Beyond(B, x) = <<x[1] + 1, 0>> /\ x[2] = LastOf(B, x[1])
      BY <2>3 DEF Beyond, Enders
    <3>2. Precedes(p, Beyond(B, x)) <=> p[1] < x[1] \/ p[1] = x[1]
      BY <3>1, <1>1, <2>1 DEF Precedes
    <3>3. p[1] = x[1] => (p[2] < x[2] \/ p[2] = x[2])
      BY <3>1, <1>1, <2>1
    <3> QED
      BY <3>2, <3>3, <2>2, <1>1, <2>1 DEF Precedes
  <2>4. CASE x \notin Enders(B)
    <3>1. Beyond(B, x) = <<x[1], x[2] + 1>>
      BY <2>4 DEF Beyond
    <3>2. p[2] < x[2] + 1 <=> p[2] < x[2] \/ p[2] = x[2]
      BY <1>1, <2>1
    <3> QED
      BY <3>1, <3>2, <2>2, <1>1, <2>1 DEF Precedes
  <2> QED
    BY <2>3, <2>4
<1> QED
  BY <1>2, <1>3

LEMMA PlacesFinite ==
    ASSUME NEW B, Sane(B)
    PROVE  IsFiniteSet(Places(B))
<1> DEFINE Wide == (1 .. Len(B)) \X (0 .. MaxOps + 1)
<1>1. IsFiniteSet(1 .. Len(B)) /\ IsFiniteSet(0 .. MaxOps + 1)
  <2>1. Len(B) \in Int /\ MaxOps + 1 \in Int
    BY BoundsAssumption DEF Sane
  <2> QED
    BY <2>1, FS_Interval
<1>2. IsFiniteSet(Wide)
  BY <1>1, FS_Product
<1>3. ASSUME NEW x \in Places(B) PROVE x \in Wide
  <2>1. /\ x = <<x[1], x[2]>> /\ x[1] \in 1 .. Len(B) /\ x[2] \in Nat
        /\ x[2] <= LastOf(B, x[1]) /\ Len(B[x[1]].ops) \in Nat
    BY PlacesTyped
  <2>2. Len(B[x[1]].ops) <= MaxOps
    BY <2>1 DEF Sane
  <2>3. x[2] \in 0 .. MaxOps + 1
    BY <2>1, <2>2, BoundsAssumption DEF LastOf
  <2> QED
    BY <2>1, <2>3
<1> QED
  BY <1>2, <1>3, FS_Subset

-----------------------------------------------------------------------------
(* Counting them. *)

LEMMA RankStep ==
    ASSUME NEW B, Sane(B), NEW S \in SUBSET Places(B), NEW x \in Places(B)
    PROVE  /\ Rank(S, x) \in Nat
           /\ x \in S => Rank(S, Beyond(B, x)) = Rank(S, x) + 1
           /\ x \notin S => Rank(S, Beyond(B, x)) = Rank(S, x)
<1>1. IsFiniteSet(Earlier(S, x)) /\ Rank(S, x) \in Nat
  BY PlacesFinite, FS_Subset, FS_CardinalityType DEF Earlier, Rank
<1>2. \A p \in S : Precedes(p, Beyond(B, x)) <=> Precedes(p, x) \/ p = x
  BY BeyondIsNext
<1>3. x \notin Earlier(S, x)
  BY OrderOfPlaces DEF Earlier, Places
<1>4. ASSUME x \in S PROVE Rank(S, Beyond(B, x)) = Rank(S, x) + 1
  <2>1. Earlier(S, Beyond(B, x)) = Earlier(S, x) \union {x}
    BY <1>2, <1>4 DEF Earlier
  <2> QED
    BY <1>1, <1>3, <2>1, FS_AddElement DEF Rank
<1>5. ASSUME x \notin S PROVE Rank(S, Beyond(B, x)) = Rank(S, x)
  <2>1. Earlier(S, Beyond(B, x)) = Earlier(S, x)
    BY <1>2, <1>5 DEF Earlier
  <2> QED
    BY <2>1 DEF Rank
<1> QED
  BY <1>1, <1>4, <1>5

LEMMA RankLess ==
    ASSUME NEW B, Sane(B), NEW S \in SUBSET Places(B), NEW x \in S,
           NEW y \in Nat \X Nat, Precedes(x, y)
    PROVE  Rank(S, x) \in Nat /\ Rank(S, y) \in Nat /\ Rank(S, x) < Rank(S, y)
<1>1. IsFiniteSet(Earlier(S, x)) /\ IsFiniteSet(Earlier(S, y))
  BY PlacesFinite, FS_Subset DEF Earlier
<1>2. x \in Nat \X Nat /\ x \notin Earlier(S, x)
  BY OrderOfPlaces DEF Earlier, Places
<1>3. Earlier(S, x) \union {x} \subseteq Earlier(S, y)
  <2>1. \A p \in S : p \in Nat \X Nat
    BY DEF Places
  <2>2. \A p \in S : Precedes(p, x) => Precedes(p, y)
    BY <1>2, <2>1, OrderOfPlaces
  <2> QED
    BY <2>2 DEF Earlier
<1>4. Rank(S, x) \in Nat /\ Rank(S, y) \in Nat
  BY <1>1, FS_CardinalityType DEF Rank
<1>5. Cardinality(Earlier(S, x) \union {x}) = Rank(S, x) + 1
  BY <1>1, <1>2, FS_AddElement DEF Rank
<1>6. Cardinality(Earlier(S, x) \union {x}) <= Rank(S, y)
  BY <1>1, <1>3, FS_Subset DEF Rank
<1> QED
  BY <1>4, <1>5, <1>6

LEMMA RankInjective ==
    ASSUME NEW B, Sane(B), NEW S \in SUBSET Places(B), NEW x \in S, NEW y \in S,
           Rank(S, x) = Rank(S, y)
    PROVE  x = y
<1>1. x \in Nat \X Nat /\ y \in Nat \X Nat
  BY DEF Places
<1>2. ~Precedes(x, y) /\ ~Precedes(y, x)
  BY <1>1, RankLess
<1> QED
  BY <1>1, <1>2, OrderOfPlaces

LEMMA NothingBefore ==
    ASSUME NEW B, Sane(B), NEW S \in SUBSET Places(B)
    PROVE  Earlier(S, <<1, 0>>) = {} /\ Rank(S, <<1, 0>>) = 0
<1>1. ASSUME NEW p \in S PROVE ~Precedes(p, <<1, 0>>)
  <2>1. p[1] \in Nat /\ p[2] \in Nat /\ p[1] \in 1 .. Len(B)
    BY PlacesTyped
  <2> QED
    BY <2>1 DEF Precedes
<1>2. Earlier(S, <<1, 0>>) = {}
  BY <1>1 DEF Earlier
<1> QED
  BY <1>2, FS_EmptySet DEF Rank

(* Behind the last block. *)
AllDone(B) == <<Len(B) + 1, 0>>

LEMMA AllBefore ==
    ASSUME NEW B, Sane(B), NEW x \in Places(B)
    PROVE  /\ AllDone(B) \in Nat \X Nat /\ Precedes(x, AllDone(B))
           /\ x[1] = Len(B) /\ x \in Enders(B) => Beyond(B, x) = AllDone(B)
<1>1. x[1] \in 1 .. Len(B) /\ x[2] \in Nat /\ Len(B) \in Nat
  BY PlacesTyped DEF Sane
<1> QED
  BY <1>1 DEF AllDone, Precedes, Beyond

LEMMA BeyondIsPlace ==
    ASSUME NEW B, Sane(B), NEW x \in Places(B)
    PROVE  /\ Beyond(B, x) \in Places(B) \union {AllDone(B)}
           /\ x \notin Enders(B) => Beyond(B, x) \in Places(B) /\ Beyond(B, x)[2] = x[2] + 1
           /\ x \in Enders(B) => Beyond(B, x) = <<x[1] + 1, 0>>
<1>1. /\ x[1] \in 1 .. Len(B) /\ x[2] \in Nat /\ DOMAIN B = 1 .. Len(B) /\ Len(B) \in Nat
      /\ LastOf(B, x[1]) \in Nat /\ x[2] <= LastOf(B, x[1])
  BY PlacesTyped DEF Sane
<1>2. CASE x \in Enders(B)
  <2>1. Beyond(B, x) = <<x[1] + 1, 0>>
    BY <1>2 DEF Beyond
  <2>2. CASE x[1] = Len(B)
    BY <1>2, <2>1, <2>2 DEF AllDone
  <2>3. CASE x[1] # Len(B)
    <3>1. x[1] + 1 \in DOMAIN B /\ x[1] + 1 \in 1 .. Len(B)
      BY <1>1, <2>3
    <3>2. LastOf(B, x[1] + 1) \in Nat
      <4>1. B[x[1] + 1].ops \in Seq(Ops)
        BY <3>1 DEF Sane
      <4> QED
        BY <4>1, LenProperties DEF LastOf
    <3>3. <<x[1] + 1, 0>> \in Places(B)
      BY <3>1, <3>2, <1>1 DEF Places
    <3> QED
      BY <2>1, <3>3, <1>2
  <2> QED
    BY <2>2, <2>3
<1>3. CASE x \notin Enders(B)
  <2>1. Beyond(B, x) = <<x[1], x[2] + 1>> /\ x[2] # LastOf(B, x[1])
    BY <1>3 DEF Beyond, Enders
  <2>2. x[2] + 1 <= LastOf(B, x[1]) /\ x[2] + 1 \in Nat
    BY <1>1, <2>1
  <2>3. <<x[1], x[2] + 1>> \in Places(B)
    BY <1>1, <2>2 DEF Places
  <2> QED
    BY <2>1, <2>3, <1>3
<1> QED
  BY <1>2, <1>3

-----------------------------------------------------------------------------
(* What the translator has made of the places before a given one. *)

(* Whether a register is released before a place. *)
Freed(B, r, x) == \E p \in Doing(B, "release") : OpAt(B, p).on = r /\ Precedes(p, x)

(* The allocation, laid out before, of the qubit that is used at x. *)
Owner(B, a, x) == Precedes(a, x) /\ OpAt(B, a).on = OpAt(B, x).on

(* The qubits of a gate, and the instructions of the code. *)
QubitLists == {<<>>} \union {<<Fixed(n)>> : n \in Nat}
Items == {Label(b) : b \in Nat} \union {Jump(b) : b \in Nat}
            \union {GateOn(g[1], FALSE, <<>>, 0, g[2]) : g \in (Nat \X Nat) \X QubitLists}

LEMMA ItemsHave ==
    /\ \A b \in Nat : Label(b) \in Items /\ Jump(b) \in Items
    /\ \A x \in Nat \X Nat : \A qs \in QubitLists : GateOn(x, FALSE, <<>>, 0, qs) \in Items
<1>1. \A b \in Nat : Label(b) \in Items /\ Jump(b) \in Items
  BY DEF Items
<1> SUFFICES ASSUME NEW x \in Nat \X Nat, NEW qs \in QubitLists
             PROVE  GateOn(x, FALSE, <<>>, 0, qs) \in Items
  BY <1>1
<1>2. PICK g : g = <<x, qs>>
  OBVIOUS
<1>3. g \in (Nat \X Nat) \X QubitLists /\ g[1] = x /\ g[2] = qs
  BY <1>2
<1>4. GateOn(x, FALSE, <<>>, 0, qs)
         \in {GateOn(h[1], FALSE, <<>>, 0, h[2]) : h \in (Nat \X Nat) \X QubitLists}
  BY <1>3
<1> QED
  BY <1>4 DEF Items

(* The instruction of Quil that a place becomes. *)
Item(B, x, e) ==
    /\ x[2] = 0 => e = Label(x[1])
    /\ x \in Doing(B, "gate") =>
          /\ e.op = "gate" /\ e.name = x
          /\ \A a \in Doing(B, "alloc") :
                Owner(B, a, x) /\ ~Freed(B, OpAt(B, x).on, x)
                   => e.qubits = <<Fixed(Number(B, a))>>
    /\ x \in Enders(B) => e = Jump(CHOOSE b \in B[x[1]].term.to : TRUE)

Written(B, y, cd) == \A x \in Writing(B) : Precedes(x, y) => Item(B, x, cd[Pos(B, x)])
Covered(B, y, cd) == \A j \in 1 .. Len(cd) : \E x \in Writing(B) : Precedes(x, y) /\ Pos(B, x) = j

CodeOK(B, y, cd) ==
    /\ cd \in Seq(Items) /\ Len(cd) = Rank(Writing(B), y)
    /\ Written(B, y, cd) /\ Covered(B, y, cd)

(* The environment: the registers allocated before and not released, each   *)
(* with the number of its qubit.                                            *)
Numbered(B, y, lc) ==
    \A r \in DOMAIN lc : \E a \in Doing(B, "alloc") :
        OpAt(B, a).on = r /\ Precedes(a, y) /\ lc[r] = Number(B, a)
Kept(B, y, lc) ==
    \A a \in Doing(B, "alloc") :
        Precedes(a, y) /\ ~Freed(B, OpAt(B, a).on, y) => OpAt(B, a).on \in DOMAIN lc

EnvOK(B, y, lc, nq) == nq = Number(B, y) /\ Numbered(B, y, lc) /\ Kept(B, y, lc)

LEMMA CodeStart ==
    ASSUME NEW B, Sane(B)
    PROVE  CodeOK(B, <<1, 0>>, <<>>)
<1>1. Writing(B) \in SUBSET Places(B)
  BY DEF Writing
<1>2. Earlier(Writing(B), <<1, 0>>) = {} /\ Rank(Writing(B), <<1, 0>>) = 0
  BY <1>1, NothingBefore
<1>3. Written(B, <<1, 0>>, <<>>)
  BY <1>2 DEF Written, Earlier
<1>4. Covered(B, <<1, 0>>, <<>>)
  <2>1. 1 .. Len(<<>>) = {}
    OBVIOUS
  <2> QED
    BY <2>1 DEF Covered
<1> QED
  BY <1>2, <1>3, <1>4 DEF CodeOK

LEMMA CodeGrows ==
    ASSUME NEW B, Sane(B), NEW x \in Writing(B), NEW cd, CodeOK(B, x, cd),
           NEW e \in Items, Item(B, x, e)
    PROVE  CodeOK(B, Beyond(B, x), Append(cd, e))
<1>0. x \in Places(B) /\ Writing(B) \in SUBSET Places(B) /\ x \in Nat \X Nat
  BY DEF Writing, Places
<1>1. cd \in Seq(Items) /\ Len(cd) \in Nat /\ Len(cd) = Rank(Writing(B), x)
  BY LenProperties DEF CodeOK
<1>2. /\ Append(cd, e) \in Seq(Items) /\ Len(Append(cd, e)) = Len(cd) + 1
      /\ Append(cd, e)[Len(cd) + 1] = e
      /\ \A j \in 1 .. Len(cd) : Append(cd, e)[j] = cd[j]
  BY <1>1, AppendProperties
<1>3. Rank(Writing(B), Beyond(B, x)) = Len(cd) + 1 /\ Pos(B, x) = Len(cd) + 1
  BY <1>0, <1>1, RankStep DEF Pos
<1>4. \A p \in Writing(B) : Precedes(p, Beyond(B, x)) <=> Precedes(p, x) \/ p = x
  BY <1>0, BeyondIsNext
<1>5. \A p \in Writing(B) : Precedes(p, x) => Pos(B, p) \in 1 .. Len(cd)
  <2> SUFFICES ASSUME NEW p \in Writing(B), Precedes(p, x) PROVE Pos(B, p) \in 1 .. Len(cd)
    OBVIOUS
  <2>1. Rank(Writing(B), p) \in Nat /\ Rank(Writing(B), p) < Rank(Writing(B), x)
    BY <1>0, RankLess
  <2> QED
    BY <2>1, <1>1 DEF Pos
<1>6. Written(B, Beyond(B, x), Append(cd, e))
  <2> SUFFICES ASSUME NEW p \in Writing(B), Precedes(p, Beyond(B, x))
               PROVE  Item(B, p, Append(cd, e)[Pos(B, p)])
    BY DEF Written
  <2>1. CASE p = x
    BY <2>1, <1>2, <1>3
  <2>2. CASE Precedes(p, x)
    <3>1. Item(B, p, cd[Pos(B, p)])
      BY <2>2 DEF CodeOK, Written
    <3> QED
      BY <3>1, <2>2, <1>5, <1>2
  <2> QED
    BY <1>4, <2>1, <2>2
<1>7. Covered(B, Beyond(B, x), Append(cd, e))
  <2> SUFFICES ASSUME NEW j \in 1 .. Len(cd) + 1
               PROVE  \E p \in Writing(B) : Precedes(p, Beyond(B, x)) /\ Pos(B, p) = j
    BY <1>2 DEF Covered
  <2>1. CASE j = Len(cd) + 1
    BY <2>1, <1>3, <1>4
  <2>2. CASE j # Len(cd) + 1
    <3>1. j \in 1 .. Len(cd)
      BY <2>2, <1>1
    <3>2. PICK p \in Writing(B) : Precedes(p, x) /\ Pos(B, p) = j
      BY <3>1 DEF CodeOK, Covered
    <3> QED
      BY <3>2, <1>4
  <2> QED
    BY <2>1, <2>2
<1> QED
  BY <1>2, <1>3, <1>6, <1>7 DEF CodeOK

LEMMA CodeStays ==
    ASSUME NEW B, Sane(B), NEW x \in Places(B), x \notin Writing(B), NEW cd, CodeOK(B, x, cd)
    PROVE  CodeOK(B, Beyond(B, x), cd)
<1>1. Writing(B) \in SUBSET Places(B)
  BY DEF Writing
<1>2. Rank(Writing(B), Beyond(B, x)) = Rank(Writing(B), x)
  BY <1>1, RankStep
<1>3. \A p \in Writing(B) : Precedes(p, Beyond(B, x)) <=> Precedes(p, x)
  BY <1>1, BeyondIsNext
<1> QED
  BY <1>2, <1>3 DEF CodeOK, Written, Covered

LEMMA EnvStart ==
    ASSUME NEW B, Sane(B)
    PROVE  EnvOK(B, <<1, 0>>, <<>>, 0)
<1>1. Doing(B, "alloc") \in SUBSET Places(B)
  BY DEF Doing
<1>2. Earlier(Doing(B, "alloc"), <<1, 0>>) = {} /\ Number(B, <<1, 0>>) = 0
  BY <1>1, NothingBefore DEF Number
<1>3. Kept(B, <<1, 0>>, <<>>)
  BY <1>2 DEF Kept, Earlier
<1>4. Numbered(B, <<1, 0>>, <<>>)
  <2>1. DOMAIN <<>> = {}
    OBVIOUS
  <2> QED
    BY <2>1 DEF Numbered
<1> QED
  BY <1>2, <1>3, <1>4 DEF EnvOK

LEMMA FreedBeyond ==
    ASSUME NEW B, Sane(B), NEW x \in Places(B), NEW r
    PROVE  /\ Freed(B, r, x) => Freed(B, r, Beyond(B, x))
           /\ x \in Doing(B, "release") /\ OpAt(B, x).on = r => Freed(B, r, Beyond(B, x))
           /\ Freed(B, r, Beyond(B, x)) =>
                 Freed(B, r, x) \/ (x \in Doing(B, "release") /\ OpAt(B, x).on = r)
<1>1. \A p \in Doing(B, "release") : Precedes(p, Beyond(B, x)) <=> Precedes(p, x) \/ p = x
  BY BeyondIsNext DEF Doing
<1> QED
  BY <1>1 DEF Freed

LEMMA EnvAllocates ==
    ASSUME NEW B, Sane(B), NEW x \in Doing(B, "alloc"), NEW lc, NEW nq, EnvOK(B, x, lc, nq),
           NEW r, r = OpAt(B, x).on, NEW ml,
           ml = [n \in DOMAIN lc \union {r} |-> IF n = r THEN nq ELSE lc[n]]
    PROVE  EnvOK(B, Beyond(B, x), ml, nq + 1)
<1>0. x \in Places(B) /\ Doing(B, "alloc") \in SUBSET Places(B)
  BY DEF Doing
<1>1. nq = Number(B, x) /\ Number(B, Beyond(B, x)) = nq + 1
  BY <1>0, RankStep DEF EnvOK, Number
<1>2. \A p \in Doing(B, "alloc") : Precedes(p, Beyond(B, x)) <=> Precedes(p, x) \/ p = x
  BY <1>0, BeyondIsNext
<1>3. DOMAIN ml = DOMAIN lc \union {r} /\ ml[r] = nq /\ \A n \in DOMAIN lc : n # r => ml[n] = lc[n]
  OBVIOUS
<1>4. Numbered(B, Beyond(B, x), ml)
  <2> SUFFICES ASSUME NEW n \in DOMAIN ml
               PROVE  \E a \in Doing(B, "alloc") : /\ OpAt(B, a).on = n
                                                   /\ Precedes(a, Beyond(B, x))
                                                   /\ ml[n] = Number(B, a)
    BY DEF Numbered
  <2>1. CASE n = r
    BY <2>1, <1>1, <1>2, <1>3
  <2>2. CASE n # r
    <3>1. n \in DOMAIN lc /\ ml[n] = lc[n]
      BY <2>2, <1>3
    <3>2. PICK a \in Doing(B, "alloc") :
             OpAt(B, a).on = n /\ Precedes(a, x) /\ lc[n] = Number(B, a)
      BY <3>1 DEF EnvOK, Numbered
    <3> QED
      BY <3>1, <3>2, <1>2
  <2> QED
    BY <2>1, <2>2
<1>5. Kept(B, Beyond(B, x), ml)
  <2> SUFFICES ASSUME NEW a \in Doing(B, "alloc"), Precedes(a, Beyond(B, x)),
                      ~Freed(B, OpAt(B, a).on, Beyond(B, x))
               PROVE  OpAt(B, a).on \in DOMAIN ml
    BY DEF Kept
  <2>1. CASE a = x
    BY <2>1, <1>3
  <2>2. CASE Precedes(a, x)
    <3>1. ~Freed(B, OpAt(B, a).on, x)
      BY <1>0, FreedBeyond
    <3> QED
      BY <3>1, <2>2, <1>3 DEF EnvOK, Kept
  <2> QED
    BY <2>1, <2>2, <1>2
<1> QED
  BY <1>1, <1>4, <1>5 DEF EnvOK

LEMMA EnvReleases ==
    ASSUME NEW B, Sane(B), NEW x \in Doing(B, "release"), NEW lc, NEW nq, EnvOK(B, x, lc, nq),
           NEW r, r = OpAt(B, x).on, NEW ml, ml = [n \in DOMAIN lc \ {r} |-> lc[n]],
           x \notin Doing(B, "alloc")
    PROVE  EnvOK(B, Beyond(B, x), ml, nq)
<1>0. x \in Places(B) /\ Doing(B, "alloc") \in SUBSET Places(B)
  BY DEF Doing
<1>1. nq = Number(B, x) /\ Number(B, Beyond(B, x)) = nq
  BY <1>0, RankStep DEF EnvOK, Number
<1>2. \A p \in Doing(B, "alloc") : Precedes(p, Beyond(B, x)) <=> Precedes(p, x)
  BY <1>0, BeyondIsNext
<1>3. DOMAIN ml = DOMAIN lc \ {r} /\ \A n \in DOMAIN ml : ml[n] = lc[n]
  OBVIOUS
<1>4. Numbered(B, Beyond(B, x), ml)
  BY <1>2, <1>3 DEF EnvOK, Numbered
<1>5. Kept(B, Beyond(B, x), ml)
  <2> SUFFICES ASSUME NEW a \in Doing(B, "alloc"), Precedes(a, Beyond(B, x)),
                      ~Freed(B, OpAt(B, a).on, Beyond(B, x))
               PROVE  OpAt(B, a).on \in DOMAIN ml
    BY DEF Kept
  <2>1. ~Freed(B, OpAt(B, a).on, x) /\ OpAt(B, a).on # r
    BY <1>0, FreedBeyond
  <2>2. OpAt(B, a).on \in DOMAIN lc
    BY <2>1, <1>2 DEF EnvOK, Kept
  <2> QED
    BY <2>1, <2>2, <1>3
<1> QED
  BY <1>1, <1>4, <1>5 DEF EnvOK

LEMMA EnvStays ==
    ASSUME NEW B, Sane(B), NEW x \in Places(B), NEW lc, NEW nq, EnvOK(B, x, lc, nq),
           x \notin Doing(B, "alloc")
    PROVE  EnvOK(B, Beyond(B, x), lc, nq)
<1>0. Doing(B, "alloc") \in SUBSET Places(B)
  BY DEF Doing
<1>1. Number(B, Beyond(B, x)) = Number(B, x)
  BY <1>0, RankStep DEF Number
<1>2. \A p \in Doing(B, "alloc") : Precedes(p, Beyond(B, x)) <=> Precedes(p, x)
  BY <1>0, BeyondIsNext
<1>3. \A r : Freed(B, r, x) => Freed(B, r, Beyond(B, x))
  BY FreedBeyond
<1> QED
  BY <1>1, <1>2, <1>3 DEF EnvOK, Numbered, Kept

-----------------------------------------------------------------------------
(* How Quil comes from one place in the code to another without a gate. *)

Target(cd, k) == CHOOSE i \in DOMAIN cd : cd[i] = Label(cd[k].block)

Silent(cd, S) ==
    \A k \in S : k \in DOMAIN cd =>
        /\ cd[k].op = "label" => k + 1 \in S
        /\ cd[k].op = "jump" => Target(cd, k) \in S

Leads(cd, i, j) == \A S \in SUBSET Nat : i \in S /\ Silent(cd, S) => j \in S

Still(cd, i) == i \in DOMAIN cd => cd[i].op \notin {"label", "jump"}

LEMMA LeadsHere ==
    ASSUME NEW cd, NEW i
    PROVE  Leads(cd, i, i)
BY DEF Leads

LEMMA LeadsFurther ==
    ASSUME NEW cd, NEW i, NEW j \in DOMAIN cd, Leads(cd, i, j)
    PROVE  /\ cd[j].op = "label" => Leads(cd, i, j + 1)
           /\ cd[j].op = "jump" => Leads(cd, i, Target(cd, j))
<1>1. ASSUME NEW S \in SUBSET Nat, i \in S, Silent(cd, S)
      PROVE  /\ cd[j].op = "label" => j + 1 \in S
             /\ cd[j].op = "jump" => Target(cd, j) \in S
  <2>1. j \in S
    BY <1>1 DEF Leads
  <2> QED
    BY <2>1, <1>1 DEF Silent
<1> QED
  BY <1>1 DEF Leads

LEMMA LeadsOn ==
    ASSUME NEW cd, NEW i \in DOMAIN cd, i \in Nat, NEW j, Still(cd, j), Leads(cd, i, j)
    PROVE  /\ cd[i].op = "label" => Leads(cd, i + 1, j)
           /\ cd[i].op = "jump" => Leads(cd, Target(cd, i), j)
<1>1. ASSUME NEW S \in SUBSET Nat, Silent(cd, S),
             \/ cd[i].op = "label" /\ i + 1 \in S /\ cd[i].op # "jump"
             \/ cd[i].op = "jump" /\ Target(cd, i) \in S /\ cd[i].op # "label"
      PROVE  j \in S
  <2>1. Silent(cd, S \union {i}) /\ S \union {i} \in SUBSET Nat
    BY <1>1 DEF Silent
  <2>2. j \in S \union {i}
    BY <2>1 DEF Leads
  <2>3. j # i
    BY <1>1 DEF Still
  <2> QED
    BY <2>2, <2>3
<1>2. ASSUME cd[i].op = "label" PROVE Leads(cd, i + 1, j)
  BY <1>1, <1>2 DEF Leads
<1>3. ASSUME cd[i].op = "jump" PROVE Leads(cd, Target(cd, i), j)
  BY <1>1, <1>3 DEF Leads
<1> QED
  BY <1>2, <1>3

LEMMA LeadsNowhere ==
    ASSUME NEW cd, NEW i \in Nat, Still(cd, i), NEW j, Leads(cd, i, j)
    PROVE  j = i
<1>1. Silent(cd, {i})
  BY DEF Silent, Still
<1> QED
  BY <1>1 DEF Leads

LEMMA LabelIsPlace ==
    ASSUME NEW B, Sane(B), NEW b \in DOMAIN B
    PROVE  <<b, 0>> \in Places(B) /\ <<b, 0>> \in Writing(B)
<1>1. b \in Nat /\ B[b].ops \in Seq(Ops)
  BY DEF Sane
<1>2. LastOf(B, b) \in Nat
  BY <1>1, LenProperties DEF LastOf
<1> QED
  BY <1>1, <1>2 DEF Writing, Places

(* In the whole code, the instruction of every place that has one.          *)
LEMMA WrittenThere ==
    ASSUME NEW B, Sane(B), NEW cd, CodeOK(B, AllDone(B), cd), NEW x \in Writing(B)
    PROVE  Item(B, x, cd[Pos(B, x)]) /\ Pos(B, x) \in DOMAIN cd
<1>1. DOMAIN cd = 1 .. Len(cd) /\ Len(cd) \in Nat /\ Len(cd) = Rank(Writing(B), AllDone(B))
  BY LenProperties DEF CodeOK
<1>2. Writing(B) \in SUBSET Places(B)
  BY DEF Writing
<1>3. Precedes(x, AllDone(B)) /\ AllDone(B) \in Nat \X Nat
  BY <1>2, AllBefore
<1>4. Item(B, x, cd[Pos(B, x)])
  BY <1>3 DEF CodeOK, Written
<1>5. /\ Rank(Writing(B), x) \in Nat
      /\ Rank(Writing(B), x) < Rank(Writing(B), AllDone(B))
  BY <1>2, <1>3, RankLess
<1> QED
  BY <1>1, <1>4, <1>5 DEF Pos

LEMMA LabelFound ==
    ASSUME NEW B, Sane(B), NEW cd, CodeOK(B, AllDone(B), cd), NEW b \in DOMAIN B
    PROVE  /\ <<b, 0>> \in Writing(B) /\ Writing(B) \in SUBSET Places(B)
           /\ Pos(B, <<b, 0>>) \in DOMAIN cd /\ cd[Pos(B, <<b, 0>>)] = Label(b)
<1>1. <<b, 0>> \in Writing(B) /\ Writing(B) \in SUBSET Places(B)
  BY LabelIsPlace DEF Writing
<1>2. Item(B, <<b, 0>>, cd[Pos(B, <<b, 0>>)]) /\ Pos(B, <<b, 0>>) \in DOMAIN cd
  BY <1>1, WrittenThere
<1> QED
  BY <1>1, <1>2 DEF Item

LEMMA TargetFound ==
    ASSUME NEW B, Sane(B), NEW cd, CodeOK(B, AllDone(B), cd),
           NEW k, NEW b \in DOMAIN B, cd[k].block = b
    PROVE  /\ Target(cd, k) = Pos(B, <<b, 0>>)
           /\ Target(cd, k) \in DOMAIN cd /\ cd[Target(cd, k)] = Label(b)
<1>1. DOMAIN cd = 1 .. Len(cd)
  BY LenProperties DEF CodeOK
<1>2. \A x \in Writing(B) : Item(B, x, cd[Pos(B, x)])
  BY WrittenThere
<1>3. Pos(B, <<b, 0>>) \in DOMAIN cd /\ cd[Pos(B, <<b, 0>>)] = Label(b)
  BY LabelFound
<1>4. ASSUME NEW i \in DOMAIN cd, cd[i] = Label(b)
      PROVE  i = Pos(B, <<b, 0>>)
  <2>1. PICK x \in Writing(B) : Pos(B, x) = i
    BY <1>1 DEF CodeOK, Covered
  <2>2. Item(B, x, Label(b))
    BY <2>1, <1>2, <1>4
  <2>3. x[2] = 0
    <3>1. Label(b).op = "label" /\ \A c : Jump(c).op = "jump"
      BY DEF Label, Jump
    <3> QED
      BY <2>1, <2>2, <3>1 DEF Item, Writing
  <2>4. x[1] = b
    <3>1. Label(b) = Label(x[1])
      BY <2>2, <2>3 DEF Item
    <3> QED
      BY <3>1 DEF Label
  <2>5. x = <<b, 0>>
    <3>1. x \in Nat \X Nat
      BY <2>1 DEF Writing, Places
    <3> QED
      BY <3>1, <2>3, <2>4
  <2> QED
    BY <2>1, <2>5
<1>5. Target(cd, k) = Pos(B, <<b, 0>>)
  <2>1. Target(cd, k) = CHOOSE i \in DOMAIN cd : cd[i] = Label(b)
    BY DEF Target
  <2> HIDE DEF Target
  <2> QED
    BY <2>1, <1>3, <1>4
<1> QED
  BY <1>3, <1>5

(* Quil comes from a jump, over the label it goes to, to the first          *)
(* instruction of that block; and so it does from the end of the block      *)
(* that is laid out before.                                                 *)
LEMMA LeadsIntoBlock ==
    ASSUME NEW B, Sane(B), NEW cd, CodeOK(B, AllDone(B), cd), NEW b \in DOMAIN B,
           NEW i, Leads(cd, i, Pos(B, <<b, 0>>))
    PROVE  <<b, 1>> \in Places(B) /\ Leads(cd, i, Pos(B, <<b, 1>>))
<1>1. /\ <<b, 0>> \in Writing(B) /\ Pos(B, <<b, 0>>) \in DOMAIN cd
      /\ cd[Pos(B, <<b, 0>>)] = Label(b)
  BY LabelFound
<1>2. <<b, 0>> \in Places(B) /\ Writing(B) \in SUBSET Places(B)
  BY <1>1 DEF Writing
<1>3. <<b, 0>> \notin Enders(B) /\ Beyond(B, <<b, 0>>) = <<b, 1>>
  <2>1. LastOf(B, b) # 0
    BY <1>2, PlacesTyped
  <2>2. <<b, 0>> \notin Enders(B)
    BY <2>1 DEF Enders
  <2> QED
    BY <2>2 DEF Beyond
<1>4. <<b, 1>> \in Places(B)
  BY <1>2, <1>3, BeyondIsPlace
<1>5. Pos(B, <<b, 1>>) = Pos(B, <<b, 0>>) + 1
  BY <1>1, <1>2, <1>3, RankStep DEF Pos
<1>6. cd[Pos(B, <<b, 0>>)].op = "label"
  BY <1>1 DEF Label
<1> QED
  BY <1>1, <1>4, <1>5, <1>6, LeadsFurther

-----------------------------------------------------------------------------
(* The invariants. *)

LEMMA WellFormedIsSane ==
    ASSUME NEW B \in Inputs
    PROVE  Sane(B)
<1>1. WellFormed(B)
  BY InputsAssumption
<1>2. /\ B \in Seq([ops : Seq(Ops), term : Terminators]) /\ Len(B) \in 1 .. MaxBlocks
      /\ \A b \in DOMAIN B :
            /\ Len(B[b].ops) <= MaxOps
            /\ B[b].term.to \subseteq DOMAIN B
            /\ B[b].term.do = "br" => Cardinality(B[b].term.to) = 1
      /\ \A b, c \in DOMAIN B : \A i \in DOMAIN B[b].ops, j \in DOMAIN B[c].ops :
            B[b].ops[i] = [do |-> "alloc", on |-> B[c].ops[j].on] /\ B[c].ops[j].do = "alloc"
               => b = c /\ i = j
  BY <1>1 DEF WellFormed
<1>3. DOMAIN B = 1 .. Len(B) /\ Len(B) \in Nat \ {0}
  BY <1>2, LenProperties, BoundsAssumption
<1>4. \A b \in DOMAIN B : B[b] \in [ops : Seq(Ops), term : Terminators]
  BY <1>2, ElementOfSeq, <1>3
<1>5. \A b \in DOMAIN B : B[b].ops \in Seq(Ops)
  BY <1>4
<1>6. ASSUME NEW b \in DOMAIN B, B[b].term.do = "br"
      PROVE  \E t \in DOMAIN B : B[b].term.to = {t}
  <2>1. IsFiniteSet(DOMAIN B)
    <3>1. Len(B) \in Int
      BY <1>3
    <3> QED
      BY <3>1, <1>3, FS_Interval
  <2>2. IsFiniteSet(B[b].term.to)
    BY <2>1, <1>2, FS_Subset
  <2>3. PICK t : B[b].term.to = {t}
    BY <2>2, <1>2, <1>6, FS_Singleton
  <2> QED
    BY <2>3, <1>2
<1>7. ASSUME NEW x \in Doing(B, "alloc"), NEW y \in Doing(B, "alloc"),
             OpAt(B, x).on = OpAt(B, y).on
      PROVE  x = y
  <2>1. /\ x = <<x[1], x[2]>> /\ x[1] \in DOMAIN B /\ x[2] \in DOMAIN B[x[1]].ops
        /\ B[x[1]].ops[x[2]].do = "alloc"
    BY DEF Doing, Places, OpAt
  <2>2. /\ y = <<y[1], y[2]>> /\ y[1] \in DOMAIN B /\ y[2] \in DOMAIN B[y[1]].ops
        /\ B[y[1]].ops[y[2]].do = "alloc"
    BY DEF Doing, Places, OpAt
  <2>3. B[x[1]].ops[x[2]] \in Ops
    <3>1. B[x[1]].ops \in Seq(Ops)
      BY <2>1, <1>5
    <3> QED
      BY <3>1, <2>1, ElementOfSeq, LenProperties
  <2>4. B[x[1]].ops[x[2]] = [do |-> "alloc", on |-> B[y[1]].ops[y[2]].on]
    BY <2>1, <2>3, <1>7 DEF Ops, OpAt
  <2>5. \A i \in DOMAIN B[x[1]].ops, j \in DOMAIN B[y[1]].ops :
           B[x[1]].ops[i] = [do |-> "alloc", on |-> B[y[1]].ops[j].on] /\ B[y[1]].ops[j].do = "alloc"
              => x[1] = y[1] /\ i = j
    BY <2>1, <2>2, <1>2
  <2>6. x[1] = y[1] /\ x[2] = y[2]
    BY <2>1, <2>2, <2>4, <2>5
  <2> QED
    BY <2>1, <2>2, <2>6
<1> QED
  BY <1>2, <1>3, <1>5, <1>6, <1>7 DEF Sane

(* The translation goes through the places in the order of the layout. *)
TransInv ==
    /\ blocks \in Inputs
    /\ next \in Places(blocks) \union {AllDone(blocks)}
    /\ DOMAIN locals \subseteq Registers
    /\ EnvOK(blocks, next, locals, nextQubit)
    /\ CodeOK(blocks, next, code)

(* Where Quil is to come to: where the function is, a gate that it did, or  *)
(* the end.                                                                 *)
Did(x) ==
    /\ pending = Acts(x, <<OpAt(blocks, x).on, 1>>)
    /\ at = Beyond(blocks, x)
    /\ \E a \in Doing(blocks, "alloc") : Owner(blocks, a, x)
    /\ ~Freed(blocks, OpAt(blocks, x).on, x)

Aimed ==
    \/ pending = Idle /\ Leads(code, pc, Pos(blocks, at))
    \/ pending = End /\ Leads(code, pc, Len(code) + 1)
    \/ \E x \in Doing(blocks, "gate") : Did(x) /\ Leads(code, pc, Pos(blocks, x))

Waits == /\ at = <<1, 1>> /\ live = <<>> /\ pending = Idle /\ pc = 1 /\ pairs = {}
         /\ agree /\ departures = {}

Follows ==
    /\ agree
    /\ \A r \in DOMAIN live : live[r] = 1
    /\ \A p \in pairs : \E a \in Doing(blocks, "alloc") :
          p = <<<<OpAt(blocks, a).on, 1>>, Number(blocks, a)>>
    /\ at # <<>> => at \in Inside(blocks) /\ Aimed

Reasons == {"second qubit", "laid out before allocation", "laid out after release",
            "branch not to the next block", "return before the last block"}

Ranges == /\ DOMAIN live \subseteq Registers
          /\ pc \in 1 .. Len(code) + 1
          /\ departures \subseteq Reasons

IInv ==
    /\ TransInv /\ Ranges
    /\ Translating => Waits
    /\ (~Translating /\ departures = {}) => Follows

(* The translator goes on to the place behind. *)
Advances == Beyond(blocks, next) = <<next[1], next[2] + 1>>

-----------------------------------------------------------------------------
(* The translator keeps them. *)

LEMMA OpTyped ==
    ASSUME NEW B, Sane(B), NEW do, NEW x \in Doing(B, do)
    PROVE  OpAt(B, x) \in Ops
<1>1. /\ x \in Places(B) /\ x[2] \in DOMAIN B[x[1]].ops
  BY DEF Doing
<1>2. B[x[1]].ops \in Seq(Ops) /\ x[2] \in 1 .. Len(B[x[1]].ops)
  BY <1>1, PlacesTyped
<1> QED
  BY <1>2, ElementOfSeq DEF OpAt

LEMMA AllocWritesNothing ==
    ASSUME NEW B, Sane(B), NEW x \in Doing(B, "alloc") \union Doing(B, "release")
    PROVE  x \notin Writing(B)
<1>1. /\ x \in Places(B) /\ x[2] \in DOMAIN B[x[1]].ops /\ OpAt(B, x).do # "gate"
  BY DEF Doing
<1>2. x[2] \in 1 .. Len(B[x[1]].ops) /\ Len(B[x[1]].ops) \in Nat
  BY <1>1, PlacesTyped
<1>3. x[2] # 0 /\ x \notin Enders(B)
  BY <1>2 DEF Enders, LastOf
<1> QED
  BY <1>1, <1>3 DEF Writing, Doing

LEMMA TransStart ==
    ASSUME Init
    PROVE  IInv
<1>1. blocks \in Inputs /\ Sane(blocks)
  BY WellFormedIsSane DEF Init
<1>2. /\ next = <<1, 0>> /\ locals = <<>> /\ nextQubit = 0 /\ code = <<>> /\ Waits
  BY DEF Init, Waits
<1>3. next \in Places(blocks)
  <2>1. 1 \in DOMAIN blocks
    BY <1>1 DEF Sane
  <2> QED
    BY <2>1, <1>1, <1>2, LabelIsPlace
<1>4. TransInv
  <2>1. DOMAIN locals = {}
    BY <1>2
  <2> QED
    BY <1>1, <1>2, <1>3, <2>1, CodeStart, EnvStart DEF TransInv
<1>5. Ranges
  <2>1. DOMAIN live = {} /\ Len(code) = 0
    BY <1>2 DEF Waits
  <2> QED
    BY <1>2, <2>1 DEF Ranges, Waits
<1>6. Translating
  BY <1>1, <1>2 DEF Translating, Sane
<1> QED
  BY <1>2, <1>4, <1>5, <1>6 DEF IInv

(* While it translates, next is a place; what it does there.                *)
LEMMA TransPlace ==
    ASSUME TransInv, Translating
    PROVE  /\ Sane(blocks) /\ next \in Places(blocks) /\ next = <<next[1], next[2]>>
           /\ next[2] = 0 => Advances /\ next \in Writing(blocks) /\ next \notin Doing(blocks, "alloc")
           /\ \A do : Instr(do) => Advances /\ next \in Doing(blocks, do) /\ next[2] # 0
           /\ next[2] > Len(Instrs) =>
                 /\ next \in Enders(blocks) /\ next[2] # 0
                 /\ Beyond(blocks, next) = <<next[1] + 1, 0>>
                 /\ \A do : next \notin Doing(blocks, do)
<1>1. Sane(blocks)
  BY WellFormedIsSane DEF TransInv
<1>2. next # AllDone(blocks)
  <2>1. Len(blocks) \in Nat /\ AllDone(blocks)[1] = Len(blocks) + 1
    BY <1>1 DEF AllDone, Sane
  <2> QED
    BY <2>1 DEF Translating
<1>3. next \in Places(blocks)
  BY <1>2 DEF TransInv
<1>4. /\ next = <<next[1], next[2]>> /\ next[1] \in Nat /\ next[2] \in Nat
      /\ Len(Instrs) \in Nat /\ DOMAIN Instrs = 1 .. Len(Instrs)
      /\ LastOf(blocks, next[1]) = Len(Instrs) + 1 /\ next[2] <= LastOf(blocks, next[1])
  BY <1>1, <1>3, PlacesTyped DEF Instrs, LastOf
<1>5. ASSUME next[2] <= Len(Instrs) PROVE Advances
  <2>1. next \notin Enders(blocks)
    BY <1>4, <1>5 DEF Enders
  <2> QED
    BY <2>1 DEF Advances, Beyond
<1>6. ASSUME next[2] = 0
      PROVE  Advances /\ next \in Writing(blocks) /\ next \notin Doing(blocks, "alloc")
  <2>1. 0 \notin DOMAIN Instrs
    BY <1>4
  <2> QED
    BY <1>3, <1>4, <1>5, <1>6, <2>1 DEF Writing, Doing, Instrs
<1>7. ASSUME NEW do, Instr(do)
      PROVE  Advances /\ next \in Doing(blocks, do) /\ next[2] # 0
  <2>1. next[2] \in 1 .. Len(Instrs) /\ Instrs[next[2]].do = do
    BY <1>4, <1>7 DEF Instr
  <2> QED
    BY <1>3, <1>4, <1>5, <2>1 DEF Doing, OpAt, Instrs
<1>8. ASSUME next[2] > Len(Instrs)
      PROVE  /\ next \in Enders(blocks) /\ next[2] # 0
             /\ Beyond(blocks, next) = <<next[1] + 1, 0>>
             /\ \A do : next \notin Doing(blocks, do)
  <2>1. next[2] = LastOf(blocks, next[1]) /\ next[2] # 0 /\ next[2] \notin DOMAIN Instrs
    BY <1>4, <1>8
  <2>2. next \in Enders(blocks)
    BY <2>1, <1>3 DEF Enders
  <2> QED
    BY <2>1, <2>2 DEF Beyond, Doing, Instrs
<1> QED
  BY <1>1, <1>3, <1>4, <1>6, <1>7, <1>8

LEMMA LabelKeeps ==
    ASSUME TransInv, TranslateLabel
    PROVE  TransInv'
<1>1. Translating /\ next[2] = 0
  BY DEF TranslateLabel
<1>2. /\ Sane(blocks) /\ next \in Places(blocks) /\ Advances
      /\ next \in Writing(blocks) /\ next \notin Doing(blocks, "alloc")
  BY <1>1, TransPlace
<1>3. /\ next' = Beyond(blocks, next) /\ code' = Append(code, Label(next[1]))
      /\ UNCHANGED <<blocks, locals, nextQubit>>
  BY <1>2 DEF TranslateLabel, Advance, Advances
<1>4. Label(next[1]) \in Items
  <2>1. next[1] \in Nat
    BY <1>2, PlacesTyped
  <2> QED
    BY <2>1, ItemsHave
<1>5. Item(blocks, next, Label(next[1]))
  BY <1>1, <1>2, PlacesTyped DEF Item, Doing, Enders
<1>6. CodeOK(blocks, Beyond(blocks, next), Append(code, Label(next[1])))
  BY <1>2, <1>4, <1>5, CodeGrows DEF TransInv
<1>7. EnvOK(blocks, Beyond(blocks, next), locals, nextQubit)
  BY <1>2, EnvStays DEF TransInv
<1> QED
  BY <1>2, <1>3, <1>6, <1>7, BeyondIsPlace DEF TransInv

LEMMA AllocateKeeps ==
    ASSUME TransInv, TranslateAllocate
    PROVE  TransInv'
<1>1. Translating /\ Instr("alloc")
  BY DEF TranslateAllocate, Instr
<1>2. /\ Sane(blocks) /\ next \in Places(blocks) /\ Advances
      /\ next \in Doing(blocks, "alloc") /\ next[2] # 0
  BY <1>1, TransPlace
<1>3. On = OpAt(blocks, next).on /\ On \in Registers
  <2>1. OpAt(blocks, next) \in Ops
    BY <1>2, OpTyped
  <2> QED
    BY <2>1 DEF On, OpAt, Instrs, Ops
<1>4. PICK r : r = On
  OBVIOUS
<1>5. /\ next' = Beyond(blocks, next)
      /\ locals' = [n \in DOMAIN locals \union {r} |-> IF n = r THEN nextQubit ELSE locals[n]]
      /\ nextQubit' = nextQubit + 1
      /\ UNCHANGED <<blocks, code>>
  BY <1>2, <1>4 DEF TranslateAllocate, Advance, Advances
<1>6. EnvOK(blocks, Beyond(blocks, next), locals', nextQubit')
  BY <1>2, <1>3, <1>4, <1>5, EnvAllocates DEF TransInv
<1>7. next \notin Writing(blocks)
  BY <1>2, AllocWritesNothing
<1>8. CodeOK(blocks, Beyond(blocks, next), code)
  BY <1>2, <1>7, CodeStays DEF TransInv
<1>9. DOMAIN locals' \subseteq Registers
  BY <1>3, <1>4, <1>5 DEF TransInv
<1> QED
  BY <1>2, <1>5, <1>6, <1>8, <1>9, BeyondIsPlace DEF TransInv

LEMMA ReleaseKeeps ==
    ASSUME TransInv, TranslateRelease
    PROVE  TransInv'
<1>1. Translating /\ Instr("release")
  BY DEF TranslateRelease, Instr
<1>2. /\ Sane(blocks) /\ next \in Places(blocks) /\ Advances
      /\ next \in Doing(blocks, "release") /\ next[2] # 0
  BY <1>1, TransPlace
<1>3. On = OpAt(blocks, next).on
  BY DEF On, OpAt, Instrs
<1>4. PICK r : r = On
  OBVIOUS
<1>5. /\ next' = Beyond(blocks, next)
      /\ locals' = [n \in DOMAIN locals \ {r} |-> locals[n]]
      /\ UNCHANGED <<blocks, code, nextQubit>>
  BY <1>2, <1>4 DEF TranslateRelease, Advance, Advances
<1>6. next \notin Doing(blocks, "alloc")
  BY <1>2 DEF Doing
<1>7. EnvOK(blocks, Beyond(blocks, next), locals', nextQubit)
  BY <1>2, <1>3, <1>4, <1>5, <1>6, EnvReleases DEF TransInv
<1>8. next \notin Writing(blocks)
  BY <1>2, AllocWritesNothing
<1>9. CodeOK(blocks, Beyond(blocks, next), code)
  BY <1>2, <1>8, CodeStays DEF TransInv
<1>10. DOMAIN locals' \subseteq Registers
  BY <1>5 DEF TransInv
<1> QED
  BY <1>2, <1>5, <1>7, <1>9, <1>10, BeyondIsPlace DEF TransInv

(* What a gate becomes in an environment that is as it should be: the       *)
(* register, if allocated before and not released, is bound to the number   *)
(* of its qubit.                                                            *)
LEMMA GateItem ==
    ASSUME NEW B, Sane(B), NEW x \in Doing(B, "gate"), NEW lc, NEW nq, EnvOK(B, x, lc, nq),
           NEW r, r = OpAt(B, x).on, NEW qs,
           qs = IF r \in DOMAIN lc THEN <<Fixed(lc[r])>> ELSE <<>>
    PROVE  /\ GateOn(x, FALSE, <<>>, 0, qs) \in Items
           /\ Item(B, x, GateOn(x, FALSE, <<>>, 0, qs))
<1>0. x \in Places(B) /\ Doing(B, "alloc") \in SUBSET Places(B)
  BY DEF Doing
<1>1. x \in Nat \X Nat /\ x[2] # 0 /\ x \notin Enders(B)
  <2>1. /\ x[2] \in 1 .. Len(B[x[1]].ops) /\ Len(B[x[1]].ops) \in Nat
    BY <1>0, PlacesTyped DEF Doing
  <2> QED
    BY <2>1, <1>0 DEF Places, Enders, LastOf
<1>2. \A a \in Doing(B, "alloc") : Number(B, a) \in Nat
  BY <1>0, RankStep DEF Number
<1>3. ASSUME r \in DOMAIN lc
      PROVE  \E a \in Doing(B, "alloc") : OpAt(B, a).on = r /\ lc[r] = Number(B, a)
  BY <1>3 DEF EnvOK, Numbered
<1>4. qs \in QubitLists
  <2>1. CASE r \in DOMAIN lc
    <3>1. lc[r] \in Nat
      BY <2>1, <1>2, <1>3
    <3>2. qs = <<Fixed(lc[r])>>
      BY <2>1
    <3> QED
      BY <3>1, <3>2 DEF QubitLists
  <2>2. CASE r \notin DOMAIN lc
    BY <2>2 DEF QubitLists
  <2> QED
    BY <2>1, <2>2
<1>5. ASSUME NEW a \in Doing(B, "alloc"), Owner(B, a, x), ~Freed(B, r, x)
      PROVE  qs = <<Fixed(Number(B, a))>>
  <2>1. OpAt(B, a).on = r /\ Precedes(a, x)
    BY <1>5 DEF Owner
  <2>2. r \in DOMAIN lc
    BY <2>1, <1>5 DEF EnvOK, Kept
  <2>3. PICK b \in Doing(B, "alloc") : OpAt(B, b).on = r /\ lc[r] = Number(B, b)
    BY <2>2, <1>3
  <2>4. a = b
    BY <2>1, <2>3 DEF Sane
  <2>5. qs = <<Fixed(lc[r])>>
    BY <2>2
  <2> QED
    BY <2>3, <2>4, <2>5
<1>6. PICK e : e = GateOn(x, FALSE, <<>>, 0, qs)
  OBVIOUS
<1>7. e.op = "gate" /\ e.name = x /\ e.qubits = qs
  BY <1>6 DEF GateOn
<1>8. Item(B, x, e)
  BY <1>1, <1>5, <1>7 DEF Item
<1>9. e \in Items
  BY <1>1, <1>4, <1>6, ItemsHave
<1> QED
  BY <1>6, <1>8, <1>9

LEMMA GateKeeps ==
    ASSUME TransInv, TranslateGate
    PROVE  TransInv'
<1>1. Translating /\ Instr("gate")
  BY DEF TranslateGate, Instr
<1>2. /\ Sane(blocks) /\ next \in Places(blocks) /\ Advances
      /\ next \in Doing(blocks, "gate") /\ next[2] # 0
  BY <1>1, TransPlace
<1>3. PICK r : r = On
  OBVIOUS
<1>4. PICK qs : qs = IF r \in DOMAIN locals THEN <<Fixed(locals[r])>> ELSE <<>>
  OBVIOUS
<1>5. /\ next' = Beyond(blocks, next)
      /\ code' = Append(code, GateOn(next, FALSE, <<>>, 0, qs))
      /\ UNCHANGED <<blocks, locals, nextQubit>>
  BY <1>2, <1>3, <1>4 DEF TranslateGate, Advance, Advances
<1>6. next \notin Doing(blocks, "alloc") /\ next \in Writing(blocks)
  BY <1>2 DEF Doing, Writing
<1>7. r = OpAt(blocks, next).on
  BY <1>3 DEF On, OpAt, Instrs
<1>8. /\ GateOn(next, FALSE, <<>>, 0, qs) \in Items
      /\ Item(blocks, next, GateOn(next, FALSE, <<>>, 0, qs))
  BY <1>2, <1>4, <1>7, GateItem DEF TransInv
<1>9. CodeOK(blocks, Beyond(blocks, next), Append(code, GateOn(next, FALSE, <<>>, 0, qs)))
  BY <1>2, <1>6, <1>8, CodeGrows DEF TransInv
<1>10. EnvOK(blocks, Beyond(blocks, next), locals, nextQubit)
  BY <1>2, <1>6, EnvStays DEF TransInv
<1> QED
  BY <1>2, <1>5, <1>9, <1>10, BeyondIsPlace DEF TransInv

LEMMA TerminatorKeeps ==
    ASSUME TransInv, TranslateTerminator
    PROVE  TransInv'
<1>1. Translating /\ next[2] > Len(Instrs)
  BY DEF TranslateTerminator
<1>2. /\ Sane(blocks) /\ next \in Places(blocks)
      /\ next \in Enders(blocks) /\ next[2] # 0
      /\ Beyond(blocks, next) = <<next[1] + 1, 0>>
      /\ \A do : next \notin Doing(blocks, do)
  BY <1>1, TransPlace
<1>3. PICK term : term = blocks[next[1]].term
  OBVIOUS
<1>4. /\ next' = Beyond(blocks, next) /\ code' = code \o Terminator(term)
      /\ UNCHANGED <<blocks, locals, nextQubit>>
  BY <1>2, <1>3 DEF TranslateTerminator
<1>5. EnvOK(blocks, Beyond(blocks, next), locals, nextQubit)
  BY <1>2, EnvStays DEF TransInv
<1>6. code \in Seq(Items)
  BY DEF TransInv, CodeOK
<1>7. CodeOK(blocks, Beyond(blocks, next), code')
  <2>1. CASE term.do = "br"
    <3>1. PICK t \in DOMAIN blocks : term.to = {t}
      BY <1>2, <1>3, <2>1, PlacesTyped DEF Sane
    <3>2. PICK e : e = Jump(CHOOSE b \in term.to : TRUE)
      OBVIOUS
    <3>3. (CHOOSE b \in term.to : TRUE) = t
      BY <3>1
    <3>4. t \in Nat
      BY <3>1, <1>2 DEF Sane
    <3>5. e \in Items
      BY <3>2, <3>3, <3>4, ItemsHave
    <3>6. Terminator(term) = <<e>>
      BY <2>1, <3>2 DEF Terminator
    <3>7. code' = Append(code, e)
      BY <1>4, <1>6, <3>5, <3>6
    <3>8. next \in Writing(blocks)
      BY <1>2, <1>3, <2>1 DEF Writing
    <3>9. Item(blocks, next, e)
      BY <1>2, <1>3, <3>2 DEF Item
    <3> QED
      BY <1>2, <3>5, <3>7, <3>8, <3>9, CodeGrows DEF TransInv
  <2>2. CASE term.do # "br"
    <3>1. code' = code
      BY <1>4, <1>6, <2>2, ConcatEmptySeq DEF Terminator
    <3>2. next \notin Writing(blocks)
      BY <1>2, <1>3, <2>2 DEF Writing
    <3> QED
      BY <1>2, <3>1, <3>2, CodeStays DEF TransInv
  <2> QED
    BY <2>1, <2>2
<1> QED
  BY <1>2, <1>4, <1>5, <1>7, BeyondIsPlace DEF TransInv

LEMMA TranslateKeeps ==
    ASSUME IInv, Translate
    PROVE  IInv'
<1>1. TransInv /\ Translating /\ Waits
  BY DEF IInv, Translate, TranslateLabel, TranslateAllocate, TranslateRelease, TranslateGate,
         TranslateTerminator, Instr
<1>2. TransInv'
  BY <1>1, LabelKeeps, AllocateKeeps, ReleaseKeeps, GateKeeps, TerminatorKeeps DEF Translate
<1>3. UNCHANGED <<blocks, function, pending, pc, pairs, agree, departures>>
  BY DEF Translate, TranslateLabel, TranslateAllocate, TranslateRelease, TranslateGate,
         TranslateTerminator
<1>4. Waits'
  BY <1>1, <1>3 DEF Waits, function
<1>5. Sane(blocks) /\ Sane(blocks')
  BY <1>1, <1>3, WellFormedIsSane DEF TransInv
<1>6. Len(code') \in Nat
  BY <1>2, LenProperties DEF TransInv, CodeOK
<1>7. Ranges'
  <2>1. DOMAIN live' = {} /\ pc' = 1 /\ departures' = {}
    BY <1>4 DEF Waits
  <2> QED
    BY <2>1, <1>6 DEF Ranges
<1>8. ASSUME ~Translating'
      PROVE  Follows'
  <2>1. next' = AllDone(blocks)
    <3>1. next' \in Places(blocks) \union {AllDone(blocks)}
      BY <1>2, <1>3 DEF TransInv
    <3>2. next' \notin Places(blocks)
      <4>1. ASSUME next' \in Places(blocks) PROVE FALSE
        <5>1. next'[1] \in 1 .. Len(blocks)
          BY <4>1, <1>5, PlacesTyped
        <5> QED
          BY <5>1, <1>3, <1>8, <1>5 DEF Translating, Sane
      <4> QED
        BY <4>1
    <3> QED
      BY <3>1, <3>2
  <2>2. CodeOK(blocks, AllDone(blocks), code')
    BY <2>1, <1>2, <1>3 DEF TransInv
  <2>3. 1 \in DOMAIN blocks
    BY <1>5 DEF Sane
  <2>4. Pos(blocks, <<1, 0>>) = 1
    <3>1. Writing(blocks) \in SUBSET Places(blocks)
      BY DEF Writing
    <3> QED
      BY <3>1, <1>5, NothingBefore DEF Pos
  <2>5. <<1, 1>> \in Places(blocks) /\ Leads(code', 1, Pos(blocks, <<1, 1>>))
    BY <1>5, <2>2, <2>3, <2>4, LeadsHere, LeadsIntoBlock
  <2>6. /\ agree' /\ live' = <<>> /\ pairs' = {} /\ at' = <<1, 1>>
        /\ pending' = Idle /\ pc' = 1
    BY <1>4 DEF Waits
  <2>7. Aimed'
    BY <2>5, <2>6, <1>3 DEF Aimed
  <2>8. DOMAIN live' = {} /\ <<1, 1>> \in Inside(blocks)
    BY <2>5, <2>6 DEF Inside
  <2> QED
    BY <2>6, <2>7, <2>8, <1>3 DEF Follows
<1> QED
  BY <1>2, <1>4, <1>7, <1>8 DEF IInv

-----------------------------------------------------------------------------
(* The machines keep them. *)

LEMMA Translated ==
    ASSUME IInv, UNCHANGED translator
    PROVE  /\ TransInv' /\ Translating' = Translating
           /\ UNCHANGED <<blocks, next, locals, nextQubit, code>>
<1>1. UNCHANGED <<blocks, next, locals, nextQubit, code>>
  BY DEF translator
<1> QED
  BY <1>1 DEF IInv, TransInv, Translating

LEMMA Runs ==
    ASSUME IInv, Running
    PROVE  /\ Sane(blocks) /\ CodeOK(blocks, AllDone(blocks), code)
           /\ Follows /\ at \in Places(blocks) /\ at[2] # 0 /\ Aimed
           /\ at = <<at[1], at[2]>> /\ at[1] \in DOMAIN blocks
           /\ at[2] \in Nat /\ Len(Block.ops) \in Nat /\ DOMAIN Block.ops = 1 .. Len(Block.ops)
           /\ LastOf(blocks, at[1]) = Len(Block.ops) + 1 /\ at[2] <= Len(Block.ops) + 1
<1>1. Sane(blocks) /\ ~Translating
  BY WellFormedIsSane DEF IInv, TransInv, Running
<1>2. next = AllDone(blocks)
  <2>1. ASSUME next \in Places(blocks) PROVE FALSE
    <3>1. next[1] \in 1 .. Len(blocks) /\ Len(blocks) \in Nat
      BY <2>1, <1>1, PlacesTyped DEF Sane
    <3> QED
      BY <3>1, <1>1 DEF Translating
  <2> QED
    BY <2>1 DEF IInv, TransInv
<1>3. CodeOK(blocks, AllDone(blocks), code)
  BY <1>2 DEF IInv, TransInv
<1>4. Follows /\ at \in Places(blocks) /\ at[2] # 0 /\ Aimed
  BY <1>1 DEF IInv, Running, Follows, Inside
<1>5. /\ at = <<at[1], at[2]>> /\ at[1] \in DOMAIN blocks
      /\ at[2] \in Nat /\ Len(Block.ops) \in Nat /\ DOMAIN Block.ops = 1 .. Len(Block.ops)
      /\ LastOf(blocks, at[1]) = Len(Block.ops) + 1 /\ at[2] <= Len(Block.ops) + 1
  BY <1>1, <1>4, PlacesTyped DEF Block, LastOf
<1> QED
  BY <1>1, <1>3, <1>4, <1>5

LEMMA ActsDiffer ==
    /\ Idle # End /\ \A g, q : Acts(g, q) # Idle /\ Acts(g, q) # End
    /\ \A g, q : Acts(g, q).act = "gate" /\ Acts(g, q).gate = g /\ Acts(g, q).on = q
BY DEF Idle, End, Acts

(* At an instruction of the function: where the next one is in the code.    *)
LEMMA AtInstruction ==
    ASSUME IInv, NEW do, AtOp(do)
    PROVE  /\ at \in Doing(blocks, do) /\ This = OpAt(blocks, at).on /\ This \in Registers
           /\ Leads(code, pc, Pos(blocks, at))
           /\ Beyond(blocks, at) = <<at[1], at[2] + 1>>
           /\ Beyond(blocks, at) \in Inside(blocks)
<1>1. Running /\ pending = Idle /\ at[2] <= Len(Block.ops) /\ Block.ops[at[2]].do = do
  BY DEF AtOp, QirTurn
<1>2. /\ Sane(blocks) /\ at \in Places(blocks) /\ at[2] # 0 /\ Aimed
      /\ at[2] \in Nat /\ Len(Block.ops) \in Nat /\ DOMAIN Block.ops = 1 .. Len(Block.ops)
      /\ LastOf(blocks, at[1]) = Len(Block.ops) + 1
  BY <1>1, Runs
<1>3. at \in Doing(blocks, do)
  <2>1. at[2] \in DOMAIN Block.ops
    BY <1>1, <1>2
  <2> QED
    BY <2>1, <1>1, <1>2 DEF Doing, OpAt, Block
<1>4. This = OpAt(blocks, at).on /\ This \in Registers
  <2>1. OpAt(blocks, at) \in Ops
    BY <1>2, <1>3, OpTyped
  <2> QED
    BY <2>1 DEF This, OpAt, Block, Ops
<1>5. Leads(code, pc, Pos(blocks, at))
  BY <1>1, <1>2, ActsDiffer DEF Aimed, Did
<1>6. at \notin Enders(blocks)
  BY <1>1, <1>2 DEF Enders
<1>7. Beyond(blocks, at) = <<at[1], at[2] + 1>>
  BY <1>6 DEF Beyond
<1>8. Beyond(blocks, at) \in Inside(blocks)
  <2>1. Beyond(blocks, at) \in Places(blocks) /\ Beyond(blocks, at)[2] = at[2] + 1
    BY <1>2, <1>6, BeyondIsPlace
  <2>2. at[2] + 1 # 0
    BY <1>2
  <2> QED
    BY <2>1, <2>2 DEF Inside
<1> QED
  BY <1>2, <1>3, <1>4, <1>5, <1>7, <1>8

LEMMA AtTerminator ==
    ASSUME IInv, NEW do, AtTerm(do)
    PROVE  /\ Sane(blocks) /\ CodeOK(blocks, AllDone(blocks), code)
           /\ at \in Enders(blocks) /\ at \in Places(blocks) /\ at[1] \in DOMAIN blocks
           /\ Block = blocks[at[1]] /\ Block.term.do = do
           /\ Leads(code, pc, Pos(blocks, at))
           /\ Beyond(blocks, at) = <<at[1] + 1, 0>>
           /\ \A o : at \notin Doing(blocks, o)
<1>1. Running /\ pending = Idle /\ at[2] > Len(Block.ops) /\ Block.term.do = do
  BY DEF AtTerm, QirTurn
<1>2. /\ Sane(blocks) /\ CodeOK(blocks, AllDone(blocks), code)
      /\ at \in Places(blocks) /\ at[2] # 0 /\ Aimed /\ at[1] \in DOMAIN blocks
      /\ at[2] \in Nat /\ Len(Block.ops) \in Nat /\ DOMAIN Block.ops = 1 .. Len(Block.ops)
      /\ LastOf(blocks, at[1]) = Len(Block.ops) + 1 /\ at[2] <= Len(Block.ops) + 1
  BY <1>1, Runs
<1>3. at[2] = LastOf(blocks, at[1]) /\ at[2] \notin DOMAIN Block.ops
  BY <1>1, <1>2
<1>4. at \in Enders(blocks)
  BY <1>2, <1>3 DEF Enders
<1>5. \A o : at \notin Doing(blocks, o)
  BY <1>3 DEF Doing, Block
<1>6. Leads(code, pc, Pos(blocks, at))
  BY <1>1, <1>2, ActsDiffer DEF Aimed, Did
<1>7. Beyond(blocks, at) = <<at[1] + 1, 0>>
  BY <1>4 DEF Beyond
<1> QED
  BY <1>1, <1>2, <1>4, <1>5, <1>6, <1>7 DEF Block

(* What is laid out before a place, by the places. *)
LEMMA LaidOutPlaces ==
    ASSUME Sane(blocks), NEW r, NEW x
    PROVE  /\ LaidOut("alloc", r, x) =>
                 \E a \in Doing(blocks, "alloc") : OpAt(blocks, a).on = r /\ Precedes(a, x)
           /\ Freed(blocks, r, x) => LaidOut("release", r, x)
<1>1. ASSUME LaidOut("alloc", r, x)
      PROVE  \E a \in Doing(blocks, "alloc") : OpAt(blocks, a).on = r /\ Precedes(a, x)
  <2>1. PICK b \in DOMAIN blocks : \E i \in DOMAIN blocks[b].ops :
           blocks[b].ops[i] = [do |-> "alloc", on |-> r] /\ Precedes(<<b, i>>, x)
    BY <1>1 DEF LaidOut
  <2>2. PICK i \in DOMAIN blocks[b].ops :
           blocks[b].ops[i] = [do |-> "alloc", on |-> r] /\ Precedes(<<b, i>>, x)
    BY <2>1
  <2>3. <<b, 0>> \in Places(blocks)
    BY LabelIsPlace
  <2>4. b \in Nat /\ DOMAIN blocks[b].ops = 1 .. Len(blocks[b].ops) /\ Len(blocks[b].ops) \in Nat
    BY <2>3, PlacesTyped
  <2>5. <<b, i>> \in Doing(blocks, "alloc") /\ OpAt(blocks, <<b, i>>).on = r
    BY <2>2, <2>4 DEF Doing, Places, LastOf, OpAt
  <2> QED
    BY <2>2, <2>5
<1>2. ASSUME Freed(blocks, r, x)
      PROVE  LaidOut("release", r, x)
  <2>1. PICK p \in Doing(blocks, "release") : OpAt(blocks, p).on = r /\ Precedes(p, x)
    BY <1>2 DEF Freed
  <2>2. OpAt(blocks, p) \in Ops
    BY OpTyped
  <2>3. OpAt(blocks, p) = [do |-> "release", on |-> r]
    BY <2>1, <2>2 DEF Ops, Doing
  <2>4. p = <<p[1], p[2]>> /\ p[1] \in DOMAIN blocks /\ p[2] \in DOMAIN blocks[p[1]].ops
    BY DEF Doing, Places
  <2> QED
    BY <2>1, <2>3, <2>4 DEF LaidOut, OpAt
<1> QED
  BY <1>1, <1>2

LEMMA AllocateFollows ==
    ASSUME IInv, QirAllocate
    PROVE  IInv'
<1>1. AtOp("alloc") /\ Running
  BY DEF QirAllocate, AtOp, QirTurn
<1>2. /\ Sane(blocks) /\ Follows
      /\ at \in Doing(blocks, "alloc") /\ This \in Registers
      /\ Leads(code, pc, Pos(blocks, at))
      /\ Beyond(blocks, at) = <<at[1], at[2] + 1>>
      /\ Beyond(blocks, at) \in Inside(blocks)
  BY <1>1, AtInstruction, Runs
<1>3. /\ UNCHANGED <<translator, pending, pc, pairs, agree>>
      /\ at' = Beyond(blocks, at)
      /\ departures' = departures \union IF Held > 0 THEN {"second qubit"} ELSE {}
  BY <1>2 DEF QirAllocate, Onward, Departs
<1>4. PICK r : r = This
  OBVIOUS
<1>5. live' = [n \in DOMAIN live \union {r} |-> IF n = r THEN Held + 1 ELSE live[n]]
  BY <1>4 DEF QirAllocate
<1>6. /\ TransInv' /\ Translating' = Translating
      /\ UNCHANGED <<blocks, next, locals, nextQubit, code>>
  BY <1>3, Translated
<1>7. Ranges'
  <2>1. DOMAIN live' \subseteq Registers
    BY <1>2, <1>4, <1>5 DEF IInv, Ranges
  <2> QED
    BY <2>1, <1>3, <1>6 DEF IInv, Ranges, Reasons
<1>8. ASSUME departures' = {}
      PROVE  Follows'
  <2>1. ~(Held > 0)
    BY <1>3, <1>8
  <2>2. r \notin DOMAIN live
    BY <2>1, <1>2, <1>4 DEF Held, Follows
  <2>3. Held = 0
    BY <2>2, <1>4 DEF Held
  <2>4. \A n \in DOMAIN live' : live'[n] = 1
    BY <2>3, <1>2, <1>5 DEF Follows
  <2>5. Pos(blocks, Beyond(blocks, at)) = Pos(blocks, at)
    <3>1. at \notin Writing(blocks) /\ at \in Places(blocks)
      BY <1>2, AllocWritesNothing DEF Doing
    <3>2. Writing(blocks) \in SUBSET Places(blocks)
      BY DEF Writing
    <3> QED
      BY <3>1, <3>2, <1>2, RankStep DEF Pos
  <2>6. pending = Idle
    BY <1>1 DEF AtOp, QirTurn
  <2>7. Aimed'
    BY <2>5, <2>6, <1>2, <1>3, <1>6 DEF Aimed
  <2> QED
    BY <2>4, <2>7, <1>2, <1>3, <1>6 DEF Follows
<1>9. ~Translating'
  BY <1>1, <1>6 DEF Running
<1> QED
  BY <1>6, <1>7, <1>8, <1>9 DEF IInv

LEMMA ReleaseFollows ==
    ASSUME IInv, QirRelease
    PROVE  IInv'
<1>1. AtOp("release") /\ Running
  BY DEF QirRelease, AtOp, QirTurn
<1>2. /\ Sane(blocks) /\ Follows
      /\ at \in Doing(blocks, "release")
      /\ Leads(code, pc, Pos(blocks, at))
      /\ Beyond(blocks, at) = <<at[1], at[2] + 1>>
      /\ Beyond(blocks, at) \in Inside(blocks)
  BY <1>1, AtInstruction, Runs
<1>3. /\ UNCHANGED <<translator, pending, pc, agree, departures>>
      /\ at' = Beyond(blocks, at) /\ pairs' \subseteq pairs
  BY <1>2 DEF QirRelease, Onward
<1>4. PICK r : r = This
  OBVIOUS
<1>5. live' = [n \in DOMAIN live \ {r} |-> live[n]]
  BY <1>4 DEF QirRelease
<1>6. /\ TransInv' /\ Translating' = Translating
      /\ UNCHANGED <<blocks, next, locals, nextQubit, code>>
  BY <1>3, Translated
<1>7. Ranges'
  <2>1. DOMAIN live' \subseteq Registers
    BY <1>5 DEF IInv, Ranges
  <2> QED
    BY <2>1, <1>3, <1>6 DEF IInv, Ranges
<1>8. Follows'
  <2>1. \A n \in DOMAIN live' : live'[n] = 1
    BY <1>2, <1>5 DEF Follows
  <2>2. Pos(blocks, Beyond(blocks, at)) = Pos(blocks, at)
    <3>1. at \notin Writing(blocks) /\ at \in Places(blocks)
      BY <1>2, AllocWritesNothing DEF Doing
    <3>2. Writing(blocks) \in SUBSET Places(blocks)
      BY DEF Writing
    <3> QED
      BY <3>1, <3>2, <1>2, RankStep DEF Pos
  <2>3. pending = Idle
    BY <1>1 DEF AtOp, QirTurn
  <2>4. Aimed'
    BY <2>2, <2>3, <1>2, <1>3, <1>6 DEF Aimed
  <2>5. \A p \in pairs' : \E a \in Doing(blocks, "alloc") :
           p = <<<<OpAt(blocks, a).on, 1>>, Number(blocks, a)>>
    BY <1>2, <1>3 DEF Follows
  <2> QED
    BY <2>1, <2>4, <2>5, <1>2, <1>3, <1>6 DEF Follows
<1>9. ~Translating'
  BY <1>1, <1>6 DEF Running
<1> QED
  BY <1>6, <1>7, <1>8, <1>9 DEF IInv

LEMMA GateFollows ==
    ASSUME IInv, QirGate
    PROVE  IInv'
<1>1. AtOp("gate") /\ Running /\ Held > 0
  BY DEF QirGate, AtOp, QirTurn
<1>2. /\ Sane(blocks) /\ Follows
      /\ at \in Doing(blocks, "gate") /\ This = OpAt(blocks, at).on
      /\ Leads(code, pc, Pos(blocks, at))
      /\ Beyond(blocks, at) = <<at[1], at[2] + 1>>
      /\ Beyond(blocks, at) \in Inside(blocks)
  BY <1>1, AtInstruction, Runs
<1>3. /\ UNCHANGED <<translator, live, pc, pairs, agree>>
      /\ at' = Beyond(blocks, at) /\ pending' = Acts(at, <<This, Held>>)
      /\ departures' = departures
            \union (IF LaidOut("alloc", This, at) THEN {} ELSE {"laid out before allocation"})
            \union (IF LaidOut("release", This, at) THEN {"laid out after release"} ELSE {})
  BY <1>2 DEF QirGate, Onward
<1>4. /\ TransInv' /\ Translating' = Translating
      /\ UNCHANGED <<blocks, next, locals, nextQubit, code>>
  BY <1>3, Translated
<1>5. Ranges'
  BY <1>3, <1>4 DEF IInv, Ranges, Reasons
<1>6. ASSUME departures' = {}
      PROVE  Follows'
  <2>1. LaidOut("alloc", This, at) /\ ~LaidOut("release", This, at)
    BY <1>3, <1>6
  <2>2. PICK x : x = at
    OBVIOUS
  <2>3. x \in Doing(blocks, "gate") /\ Leads(code, pc, Pos(blocks, x))
    BY <2>2, <1>2
  <2>4. /\ \E a \in Doing(blocks, "alloc") : Owner(blocks, a, x)
        /\ ~Freed(blocks, OpAt(blocks, x).on, x)
    BY <2>1, <2>2, <1>2, LaidOutPlaces DEF Owner
  <2>5. Held = 1
    BY <1>1, <1>2 DEF Held, Follows
  <2>6. pending' = Acts(x, <<OpAt(blocks, x).on, 1>>) /\ at' = Beyond(blocks, x)
    BY <2>2, <2>5, <1>2, <1>3
  <2>7. Did(x)'
    BY <2>4, <2>6, <1>4 DEF Did
  <2>8. Aimed'
    BY <2>3, <2>7, <1>3, <1>4 DEF Aimed
  <2> QED
    BY <2>8, <1>2, <1>3, <1>4 DEF Follows
<1>7. ~Translating'
  BY <1>1, <1>4 DEF Running
<1> QED
  BY <1>4, <1>5, <1>6, <1>7 DEF IInv

LEMMA BranchFollows ==
    ASSUME IInv, QirBranch
    PROVE  IInv'
<1>1. PICK do : AtTerm(do) /\ do \in {"br", "condbr"}
  BY DEF QirBranch
<1>2. /\ Sane(blocks) /\ CodeOK(blocks, AllDone(blocks), code)
      /\ at \in Enders(blocks) /\ at \in Places(blocks) /\ at[1] \in DOMAIN blocks
      /\ Block = blocks[at[1]] /\ Block.term.do = do
      /\ Leads(code, pc, Pos(blocks, at))
      /\ Beyond(blocks, at) = <<at[1] + 1, 0>>
      /\ \A o : at \notin Doing(blocks, o)
  BY <1>1, AtTerminator
<1>3. Running /\ pending = Idle /\ Follows
  BY <1>1, Runs DEF AtTerm, QirTurn
<1>4. PICK b \in Block.term.to :
         /\ at' = <<b, 1>>
         /\ Departs(Block.term.do = "condbr" /\ b # at[1] + 1, "branch not to the next block")
  BY DEF QirBranch
<1>5. b \in DOMAIN blocks
  BY <1>2, <1>4 DEF Sane
<1>6. UNCHANGED <<translator, live, pending, pc, pairs, agree>>
  BY DEF QirBranch
<1>7. /\ TransInv' /\ Translating' = Translating
      /\ UNCHANGED <<blocks, next, locals, nextQubit, code>>
  BY <1>6, Translated
<1>8. Ranges'
  <2>1. departures' \subseteq Reasons
    BY <1>4 DEF IInv, Ranges, Reasons, Departs
  <2> QED
    BY <2>1, <1>6, <1>7 DEF IInv, Ranges
<1>9. ASSUME departures' = {}
      PROVE  Follows'
  <2>0. Writing(blocks) \in SUBSET Places(blocks)
    BY DEF Writing
  <2>1. Leads(code, pc, Pos(blocks, <<b, 0>>))
    <3>1. CASE do = "br"
      <4>1. at \in Writing(blocks)
        BY <1>2, <3>1 DEF Writing
      <4>2. Item(blocks, at, code[Pos(blocks, at)]) /\ Pos(blocks, at) \in DOMAIN code
        BY <1>2, <4>1, WrittenThere
      <4>3. PICK t \in DOMAIN blocks : Block.term.to = {t}
        BY <1>2, <3>1 DEF Sane
      <4>4. Block.term.to = {b}
        BY <4>3, <1>4
      <4>5. code[Pos(blocks, at)] = Jump(b)
        <5>1. code[Pos(blocks, at)] = Jump(CHOOSE c \in Block.term.to : TRUE)
          BY <4>2, <1>2 DEF Item
        <5>2. (CHOOSE c \in Block.term.to : TRUE) = b
          BY <4>4
        <5> QED
          BY <5>1, <5>2
      <4>6. code[Pos(blocks, at)].op = "jump" /\ code[Pos(blocks, at)].block = b
        BY <4>5 DEF Jump
      <4>7. Target(code, Pos(blocks, at)) = Pos(blocks, <<b, 0>>)
        BY <4>6, <1>2, <1>5, TargetFound
      <4> QED
        BY <4>2, <4>6, <4>7, <1>2, LeadsFurther
    <3>2. CASE do = "condbr"
      <4>1. b = at[1] + 1
        BY <1>2, <1>4, <1>9, <3>2 DEF Departs
      <4>2. Beyond(blocks, at) = <<b, 0>>
        BY <4>1, <1>2
      <4>3. at \notin Writing(blocks)
        <5>1. at[2] # 0
          BY <1>3, Runs
        <5> QED
          BY <5>1, <1>2, <3>2 DEF Writing
      <4>4. Pos(blocks, <<b, 0>>) = Pos(blocks, at)
        BY <4>2, <4>3, <2>0, <1>2, RankStep DEF Pos
      <4> QED
        BY <4>4, <1>2
    <3> QED
      BY <3>1, <3>2, <1>1
  <2>2. <<b, 1>> \in Places(blocks) /\ Leads(code, pc, Pos(blocks, <<b, 1>>))
    BY <2>1, <1>2, <1>5, LeadsIntoBlock
  <2>3. at' \in Inside(blocks)
    <3>1. <<b, 1>> \in Inside(blocks)
      BY <2>2 DEF Inside
    <3> QED
      BY <3>1, <1>4
  <2>4. Aimed'
    BY <2>2, <1>3, <1>4, <1>6, <1>7 DEF Aimed
  <2> QED
    BY <2>3, <2>4, <1>3, <1>6, <1>7 DEF Follows
<1>10. ~Translating'
  BY <1>3, <1>7 DEF Running
<1> QED
  BY <1>7, <1>8, <1>9, <1>10 DEF IInv

LEMMA ReturnFollows ==
    ASSUME IInv, QirReturn
    PROVE  IInv'
<1>1. AtTerm("ret")
  BY DEF QirReturn
<1>2. /\ Sane(blocks) /\ CodeOK(blocks, AllDone(blocks), code)
      /\ at \in Enders(blocks) /\ at \in Places(blocks) /\ at[1] \in DOMAIN blocks
      /\ Block = blocks[at[1]] /\ Block.term.do = "ret"
      /\ Leads(code, pc, Pos(blocks, at))
      /\ \A o : at \notin Doing(blocks, o)
  BY <1>1, AtTerminator
<1>3. Running /\ Follows /\ at[2] # 0
  BY <1>1, Runs DEF AtTerm, QirTurn
<1>4. /\ UNCHANGED <<translator, function, pc, pairs, agree>> /\ pending' = End
      /\ departures' = departures \union
            IF at[1] # Len(blocks) THEN {"return before the last block"} ELSE {}
  BY DEF QirReturn, Departs
<1>5. /\ TransInv' /\ Translating' = Translating
      /\ UNCHANGED <<blocks, next, locals, nextQubit, code>>
  BY <1>4, Translated
<1>6. Ranges'
  BY <1>4, <1>5 DEF IInv, Ranges, Reasons, function
<1>7. ASSUME departures' = {}
      PROVE  Follows'
  <2>1. at[1] = Len(blocks)
    BY <1>4, <1>7
  <2>2. Beyond(blocks, at) = AllDone(blocks)
    BY <2>1, <1>2, AllBefore
  <2>3. at \notin Writing(blocks) /\ Writing(blocks) \in SUBSET Places(blocks)
    BY <1>2, <1>3 DEF Writing
  <2>4. Rank(Writing(blocks), at) = Rank(Writing(blocks), AllDone(blocks))
    BY <2>2, <2>3, <1>2, RankStep
  <2>5. Pos(blocks, at) = Len(code) + 1
    BY <2>4, <1>2 DEF Pos, CodeOK
  <2>6. Aimed'
    BY <2>5, <1>2, <1>4, <1>5 DEF Aimed
  <2> QED
    BY <2>6, <1>2, <1>3, <1>4, <1>5 DEF Follows, function
<1>8. ~Translating'
  BY <1>3, <1>5 DEF Running
<1> QED
  BY <1>5, <1>6, <1>7, <1>8 DEF IInv

(* Quil is on its way to the place j of its code, which it does not pass    *)
(* over: the gate that is pending, or the end.                              *)
ForGate(j) == \E x \in Doing(blocks, "gate") : Did(x) /\ j = Pos(blocks, x)
OnItsWay(j) ==
    /\ Leads(code, pc, j) /\ Still(code, j)
    /\ (pending = End /\ j = Len(code) + 1) \/ ForGate(j)

LEMMA GateThere ==
    ASSUME NEW B, Sane(B), NEW cd, CodeOK(B, AllDone(B), cd), NEW x \in Doing(B, "gate")
    PROVE  /\ x \in Writing(B) /\ x \in Places(B) /\ Pos(B, x) \in DOMAIN cd
           /\ Item(B, x, cd[Pos(B, x)]) /\ cd[Pos(B, x)].op = "gate"
           /\ Pos(B, Beyond(B, x)) = Pos(B, x) + 1
<1>1. x \in Writing(B) /\ x \in Places(B) /\ Writing(B) \in SUBSET Places(B)
  BY DEF Writing, Doing
<1>2. Item(B, x, cd[Pos(B, x)]) /\ Pos(B, x) \in DOMAIN cd
  BY <1>1, WrittenThere
<1>3. Pos(B, Beyond(B, x)) = Pos(B, x) + 1
  BY <1>1, RankStep DEF Pos
<1> QED
  BY <1>1, <1>2, <1>3 DEF Item

LEMMA QuilRuns ==
    ASSUME IInv, QuilTurn
    PROVE  /\ Sane(blocks) /\ CodeOK(blocks, AllDone(blocks), code) /\ Follows
           /\ DOMAIN code = 1 .. Len(code) /\ Len(code) \in Nat
           /\ pc \in 1 .. Len(code) + 1
           /\ at \in Inside(blocks) /\ Running /\ ~Translating /\ departures = {}
           /\ \E j : OnItsWay(j)
<1>1. Running /\ pending # Idle
  BY DEF QuilTurn
<1>2. Sane(blocks) /\ CodeOK(blocks, AllDone(blocks), code) /\ Follows /\ Aimed
  BY <1>1, Runs
<1>3. DOMAIN code = 1 .. Len(code) /\ Len(code) \in Nat
  BY <1>2, LenProperties DEF CodeOK
<1>4. at \in Inside(blocks) /\ ~Translating /\ departures = {}
  BY <1>1, <1>2 DEF Running, Follows
<1>5. pc \in 1 .. Len(code) + 1
  BY DEF IInv, Ranges
<1>6. CASE pending = End /\ Leads(code, pc, Len(code) + 1)
  <2>1. Still(code, Len(code) + 1)
    BY <1>3 DEF Still
  <2>2. OnItsWay(Len(code) + 1)
    BY <2>1, <1>6 DEF OnItsWay
  <2> QED
    BY <2>2, <1>1, <1>2, <1>3, <1>4, <1>5
<1>7. CASE \E x \in Doing(blocks, "gate") : Did(x) /\ Leads(code, pc, Pos(blocks, x))
  <2>1. PICK x \in Doing(blocks, "gate") : Did(x) /\ Leads(code, pc, Pos(blocks, x))
    BY <1>7
  <2>2. code[Pos(blocks, x)].op = "gate"
    BY <1>2, GateThere
  <2>3. OnItsWay(Pos(blocks, x))
    BY <2>1, <2>2 DEF OnItsWay, ForGate, Still
  <2> QED
    BY <2>3, <1>1, <1>2, <1>3, <1>4, <1>5
<1> QED
  BY <1>1, <1>2, <1>6, <1>7 DEF Aimed

(* Over a label or along a jump, it stays on its way. *)
LEMMA StaysOnItsWay ==
    ASSUME IInv, QuilTurn, UNCHANGED <<translator, function, pending, pairs, agree, departures>>,
           pc' \in 1 .. Len(code) + 1,
           \A j : OnItsWay(j) => Leads(code, pc', j)
    PROVE  IInv'
<1>1. /\ Sane(blocks) /\ Follows /\ ~Translating
      /\ \E j : OnItsWay(j)
  BY QuilRuns
<1>2. /\ TransInv' /\ Translating' = Translating
      /\ UNCHANGED <<blocks, next, locals, nextQubit, code>>
  BY Translated
<1>3. Ranges'
  BY <1>2 DEF IInv, Ranges, function
<1>4. UNCHANGED <<at, live, pending, pairs, agree>>
  BY DEF function
<1>5. PICK j : OnItsWay(j)
  BY <1>1
<1>6. Leads(code, pc', j)
  BY <1>5
<1>7. Aimed'
  <2>1. CASE pending = End /\ j = Len(code) + 1
    BY <2>1, <1>2, <1>4, <1>6 DEF Aimed
  <2>2. CASE ForGate(j)
    <3>1. PICK x \in Doing(blocks, "gate") : Did(x) /\ j = Pos(blocks, x)
      BY <2>2 DEF ForGate
    <3>2. Did(x)'
      BY <3>1, <1>2, <1>4 DEF Did
    <3> QED
      BY <3>1, <3>2, <1>2, <1>6 DEF Aimed
  <2> QED
    BY <2>1, <2>2, <1>5 DEF OnItsWay
<1>8. Follows'
  BY <1>1, <1>2, <1>4, <1>7 DEF Follows
<1> QED
  BY <1>1, <1>2, <1>3, <1>8 DEF IInv

LEMMA LabelFollows ==
    ASSUME IInv, QuilLabel
    PROVE  IInv'
<1>1. QuilTurn /\ pc <= Len(code) /\ code[pc].op = "label" /\ pc' = pc + 1
  BY DEF QuilLabel, Op
<1>2. pc \in 1 .. Len(code) + 1 /\ Len(code) \in Nat /\ DOMAIN code = 1 .. Len(code)
  BY <1>1, QuilRuns
<1>3. pc \in DOMAIN code /\ pc \in Nat /\ pc + 1 \in 1 .. Len(code) + 1
  BY <1>1, <1>2
<1>4. ASSUME NEW j, OnItsWay(j) PROVE Leads(code, pc', j)
  BY <1>1, <1>3, <1>4, LeadsOn DEF OnItsWay
<1> QED
  BY <1>1, <1>3, <1>4, StaysOnItsWay DEF QuilLabel

LEMMA JumpFollows ==
    ASSUME IInv, QuilJump
    PROVE  IInv'
<1>1. QuilTurn /\ pc <= Len(code) /\ code[pc].op = "jump" /\ pc' = Target(code, pc)
  BY DEF QuilJump, Op, Target
<1>2. /\ Sane(blocks) /\ CodeOK(blocks, AllDone(blocks), code)
      /\ pc \in 1 .. Len(code) + 1 /\ Len(code) \in Nat /\ DOMAIN code = 1 .. Len(code)
  BY <1>1, QuilRuns
<1>3. pc \in DOMAIN code /\ pc \in Nat
  BY <1>1, <1>2
<1>4. PICK x \in Writing(blocks) : Pos(blocks, x) = pc
  BY <1>2, <1>3 DEF CodeOK, Covered
<1>5. Item(blocks, x, code[pc])
  BY <1>2, <1>4, WrittenThere
<1>6. x \in Enders(blocks) /\ blocks[x[1]].term.do = "br"
  <2>1. Label(x[1]).op = "label"
    BY DEF Label
  <2> QED
    BY <2>1, <1>1, <1>5 DEF Item, Writing
<1>7. code[pc] = Jump(CHOOSE b \in blocks[x[1]].term.to : TRUE)
  BY <1>5, <1>6 DEF Item
<1>8. PICK t \in DOMAIN blocks : blocks[x[1]].term.to = {t}
  <2>1. x[1] \in DOMAIN blocks
    BY <1>4 DEF Writing, Places
  <2> QED
    BY <2>1, <1>2, <1>6 DEF Sane
<1>9. code[pc].block = t
  <2>1. (CHOOSE b \in blocks[x[1]].term.to : TRUE) = t
    BY <1>8
  <2> QED
    BY <2>1, <1>7 DEF Jump
<1>10. Target(code, pc) \in DOMAIN code
  BY <1>2, <1>9, TargetFound
<1>11. pc' \in 1 .. Len(code) + 1
  BY <1>1, <1>2, <1>10
<1>12. ASSUME NEW j, OnItsWay(j) PROVE Leads(code, pc', j)
  BY <1>1, <1>3, <1>12, LeadsOn DEF OnItsWay
<1> QED
  BY <1>1, <1>11, <1>12, StaysOnItsWay DEF QuilJump

(* A gate of Quil is the one that is pending, on the qubit that the         *)
(* function uses.                                                           *)
LEMMA QuilGateFollows ==
    ASSUME IInv, QuilGate
    PROVE  IInv'
<1>1. QuilTurn /\ pc <= Len(code) /\ code[pc].op = "gate"
  BY DEF QuilGate, Op
<1>2. /\ Sane(blocks) /\ CodeOK(blocks, AllDone(blocks), code) /\ Follows
      /\ pc \in 1 .. Len(code) + 1 /\ Len(code) \in Nat /\ DOMAIN code = 1 .. Len(code)
      /\ at \in Inside(blocks) /\ ~Translating
  BY <1>1, QuilRuns
<1>3. PICK j : OnItsWay(j)
  BY <1>1, QuilRuns
<1>4. pc \in Nat /\ pc + 1 \in 1 .. Len(code) + 1 /\ pc # Len(code) + 1
  BY <1>1, <1>2
<1>5. j = pc
  <2>1. Still(code, pc)
    BY <1>1 DEF Still
  <2> QED
    BY <2>1, <1>3, <1>4, LeadsNowhere DEF OnItsWay
<1>6. PICK x \in Doing(blocks, "gate") : Did(x) /\ pc = Pos(blocks, x)
  BY <1>3, <1>4, <1>5 DEF OnItsWay, ForGate
<1>7. /\ Item(blocks, x, code[pc]) /\ Pos(blocks, Beyond(blocks, x)) = pc + 1
  BY <1>2, <1>6, GateThere
<1>8. PICK a \in Doing(blocks, "alloc") : Owner(blocks, a, x)
  BY <1>6 DEF Did
<1>9. code[pc].name = x /\ code[pc].qubits = <<Fixed(Number(blocks, a))>>
  BY <1>6, <1>7, <1>8 DEF Item, Did
<1>10. code[pc].qubits # <<>> /\ code[pc].qubits[1].fixed = Number(blocks, a)
  BY <1>9 DEF Fixed
<1>11. pending.act = "gate" /\ pending.gate = x /\ pending.on = <<OpAt(blocks, a).on, 1>>
  BY <1>6, <1>8, ActsDiffer DEF Did, Owner
<1>12. /\ agree' = TRUE /\ pending' = Idle /\ pc' = pc + 1
       /\ pairs' = pairs \union {<<<<OpAt(blocks, a).on, 1>>, Number(blocks, a)>>}
       /\ UNCHANGED <<translator, function, departures>>
  BY <1>9, <1>10, <1>11 DEF QuilGate
<1>13. /\ TransInv' /\ Translating' = Translating
       /\ UNCHANGED <<blocks, next, locals, nextQubit, code, at, live>>
  BY <1>12, Translated DEF function
<1>14. Ranges'
  BY <1>4, <1>12, <1>13 DEF IInv, Ranges
<1>15. \A p \in pairs' : \E c \in Doing(blocks, "alloc") :
          p = <<<<OpAt(blocks, c).on, 1>>, Number(blocks, c)>>
  BY <1>2, <1>12 DEF Follows
<1>16. Aimed'
  <2>1. Pos(blocks, at) = pc'
    BY <1>6, <1>7, <1>12 DEF Did
  <2>2. Leads(code, pc', Pos(blocks, at))
    BY <2>1, LeadsHere
  <2> QED
    BY <2>2, <1>12, <1>13 DEF Aimed
<1>17. Follows'
  BY <1>2, <1>12, <1>13, <1>15, <1>16 DEF Follows
<1> QED
  BY <1>2, <1>13, <1>14, <1>17 DEF IInv

(* Quil ends where the function did. *)
LEMMA HaltFollows ==
    ASSUME IInv, QuilHalt
    PROVE  IInv'
<1>1. QuilTurn /\ pc > Len(code)
  BY DEF QuilHalt
<1>2. /\ Sane(blocks) /\ CodeOK(blocks, AllDone(blocks), code) /\ Follows
      /\ pc \in 1 .. Len(code) + 1 /\ Len(code) \in Nat /\ DOMAIN code = 1 .. Len(code)
      /\ ~Translating
  BY <1>1, QuilRuns
<1>3. PICK j : OnItsWay(j)
  BY <1>1, QuilRuns
<1>4. pc \in Nat /\ pc \notin DOMAIN code
  BY <1>1, <1>2
<1>5. j = pc
  <2>1. Still(code, pc)
    BY <1>4 DEF Still
  <2> QED
    BY <2>1, <1>3, <1>4, LeadsNowhere DEF OnItsWay
<1>6. pending = End
  <2>1. ~ForGate(pc)
    BY <1>2, <1>4, GateThere DEF ForGate
  <2> QED
    BY <2>1, <1>3, <1>5 DEF OnItsWay
<1>7. /\ agree' = TRUE /\ pending' = Idle /\ at' = <<>>
      /\ UNCHANGED <<translator, live, pc, pairs, departures>>
  BY <1>6 DEF QuilHalt
<1>8. /\ TransInv' /\ Translating' = Translating
      /\ UNCHANGED <<blocks, next, locals, nextQubit, code>>
  BY <1>7, Translated
<1>9. Ranges'
  BY <1>7, <1>8 DEF IInv, Ranges
<1>10. Follows'
  BY <1>2, <1>7, <1>8 DEF Follows
<1> QED
  BY <1>2, <1>8, <1>9, <1>10 DEF IInv

LEMMA StutterKeeps ==
    ASSUME IInv, UNCHANGED vars
    PROVE  IInv'
<1>1. UNCHANGED <<translator, function, pending, pc, pairs, agree, departures>>
  BY DEF vars
<1>2. UNCHANGED <<blocks, next, locals, nextQubit, code, at, live>>
  BY <1>1 DEF translator, function
<1>3. TransInv' /\ Translating' = Translating
  BY <1>1, Translated
<1>4. Ranges' /\ Waits' = Waits
  BY <1>1, <1>2 DEF IInv, Ranges, Waits
<1>5. Aimed' = Aimed
  <2>1. \A x : Did(x)' = Did(x)
    BY <1>1, <1>2 DEF Did
  <2> QED
    BY <2>1, <1>1, <1>2 DEF Aimed
<1>6. Follows' = Follows
  BY <1>1, <1>2, <1>5 DEF Follows
<1> QED
  BY <1>1, <1>3, <1>4, <1>6 DEF IInv

LEMMA NextKeeps ==
    ASSUME IInv, [Next]_vars
    PROVE  IInv'
<1>1. CASE Translate
  BY <1>1, TranslateKeeps
<1>2. CASE Qir
  BY <1>2, AllocateFollows, GateFollows, ReleaseFollows, BranchFollows, ReturnFollows DEF Qir
<1>3. CASE Quil
  BY <1>3, LabelFollows, JumpFollows, QuilGateFollows, HaltFollows DEF Quil
<1>4. CASE UNCHANGED vars
  BY <1>4, StutterKeeps
<1> QED
  BY <1>1, <1>2, <1>3, <1>4 DEF Next

-----------------------------------------------------------------------------
(* The inductive invariant, which is more than the properties say. While    *)
(* the blocks are translated, the code and the environment are those of the *)
(* places before the next one. While function and Quil run and nothing      *)
(* departs, Quil's next instruction leads, by labels and jumps alone, to    *)
(* the gate or the end that is pending or, if none is, to the function's    *)
(* place.                                                                   *)
THEOREM Invariance == Spec => []IInv
<1>1. Init => IInv
  BY TransStart
<1>2. IInv /\ [Next]_vars => IInv'
  BY NextKeeps
<1> QED
  BY <1>1, <1>2, PTL DEF Spec

(* The shape of the state: above all, that a register in the environment    *)
(* has a number that has been given out (LocalEnvironment.variables and     *)
(* next_qubit_to_allocate).                                                 *)
THEOREM TypeCorrect == Spec => []TypeOK
<1>1. ASSUME IInv PROVE TypeOK
  <2>1. Sane(blocks) /\ TransInv /\ Ranges
    BY <1>1, WellFormedIsSane DEF IInv, TransInv
  <2>2. next \in Nat \X Nat
    <3>1. AllDone(blocks) \in Nat \X Nat
      BY <2>1 DEF AllDone, Sane
    <3> QED
      BY <2>1, <3>1 DEF TransInv, Places
  <2>3. \/ next = <<Len(blocks) + 1, 0>>
        \/ next[1] \in DOMAIN blocks /\ next[2] \in 0 .. Len(blocks[next[1]].ops) + 1
    <3>1. CASE next = AllDone(blocks)
      BY <3>1 DEF AllDone
    <3>2. CASE next \in Places(blocks)
      <4>1. /\ next[1] \in DOMAIN blocks /\ next[2] \in Nat
            /\ LastOf(blocks, next[1]) \in Nat /\ next[2] <= LastOf(blocks, next[1])
        BY <2>1, <3>2, PlacesTyped
      <4>2. next[2] \in 0 .. LastOf(blocks, next[1])
        BY <4>1
      <4> QED
        BY <4>1, <4>2 DEF LastOf
    <3> QED
      BY <2>1, <3>1, <3>2 DEF TransInv
  <2>4. ASSUME NEW r \in DOMAIN locals PROVE locals[r] \in 0 .. nextQubit - 1
    <3>1. PICK a \in Doing(blocks, "alloc") :
             Precedes(a, next) /\ locals[r] = Number(blocks, a)
      BY <2>1 DEF TransInv, EnvOK, Numbered
    <3>2. Doing(blocks, "alloc") \in SUBSET Places(blocks)
      BY DEF Doing
    <3>3. /\ Number(blocks, a) \in Nat /\ Number(blocks, next) \in Nat
          /\ Number(blocks, a) < Number(blocks, next)
      BY <2>1, <2>2, <3>1, <3>2, RankLess DEF Number
    <3>4. nextQubit = Number(blocks, next)
      BY <2>1 DEF TransInv, EnvOK
    <3> QED
      BY <3>1, <3>3, <3>4
  <2> QED
    BY <2>1, <2>3, <2>4 DEF TypeOK, TransInv, Ranges, Reasons
<1> QED
  BY <1>1, Invariance, PTL

(* A run that departs in nothing has the gates of its Quil, in their order, *)
(* and ends with it, through any jumps (block.rs translates br to a jump    *)
(* and lets every other block fall through to the next one).                *)
THEOREM TakesOnePath == Spec => []SamePath
<1>1. ASSUME IInv PROVE SamePath
  BY <1>1 DEF IInv, SamePath, Waits, Follows
<1> QED
  BY <1>1, Invariance, PTL

(* Then Quil has one qubit for each qubit of the function that is in use,   *)
(* since the one counter of the function numbers each allocation once       *)
(* (LocalEnvironment.allocate_qubit), whichever block it is in.             *)
THEOREM OneQubitEach == Spec => []OneToOne
<1>1. ASSUME IInv, departures = {}, NEW p \in pairs, NEW q \in pairs
      PROVE  p[1] = q[1] <=> p[2] = q[2]
  <2>1. Sane(blocks)
    BY <1>1, WellFormedIsSane DEF IInv, TransInv
  <2>2. Follows
    BY <1>1 DEF IInv, Waits
  <2>3. PICK a \in Doing(blocks, "alloc") :
           p = <<<<OpAt(blocks, a).on, 1>>, Number(blocks, a)>>
    BY <2>2 DEF Follows
  <2>4. PICK b \in Doing(blocks, "alloc") :
           q = <<<<OpAt(blocks, b).on, 1>>, Number(blocks, b)>>
    BY <2>2 DEF Follows
  <2>5. p[1] = q[1] => a = b
    BY <2>1, <2>3, <2>4 DEF Sane
  <2>6. p[2] = q[2] => a = b
    <3>1. Doing(blocks, "alloc") \in SUBSET Places(blocks)
      BY DEF Doing
    <3>2. p[2] = Number(blocks, a) /\ q[2] = Number(blocks, b)
      BY <2>3, <2>4
    <3> QED
      BY <2>1, <3>1, <3>2, RankInjective DEF Number
  <2> QED
    BY <2>3, <2>4, <2>5, <2>6
<1>2. IInv => OneToOne
  BY <1>1 DEF OneToOne
<1> QED
  BY <1>2, Invariance, PTL
=============================================================================
