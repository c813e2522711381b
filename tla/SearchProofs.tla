----------------------------- MODULE SearchProofs -----------------------------
(***************************************************************************)
(* Proof that ModuleTranslation implements the search through the call     *)
(* graph of Circuits: a body is known by the calls it has passed, its code *)
(* by the circuits it applies.                                             *)
(***************************************************************************)
EXTENDS ModuleTranslationProofs

-----------------------------------------------------------------------------
(* The calls of a body. *)

Calling(fun)   == {k \in 1 .. Len(fun.body) : fun.body[k].do = "call"}
Passed(fun, k) == Cardinality(Under(Calling(fun), k))

LEMMA CalleesAre ==
    ASSUME NEW body, NEW n \in Nat, DOMAIN body = 1 .. n,
           NEW P, P = {i \in 1 .. n : body[i].do = "call"},
           NEW c, c = Cardinality(P)
    PROVE  /\ c \in Nat /\ c <= n /\ IsFiniteSet(P)
           /\ CalleesIn(body) = [i \in 1 .. c |-> body[InOrder(P)[i]].fn]
           /\ Len(CalleesIn(body)) = c
           /\ \A i \in 1 .. c : InOrder(P)[i] \in P
<1>1. P \in SUBSET (1 .. n)
  OBVIOUS
<1>2. /\ c \in Nat /\ c <= n /\ IsFiniteSet(P)
      /\ InOrder(P) \in [1 .. c -> P]
  BY <1>1, InOrderMore
<1>3. DOMAIN InOrder(P) = 1 .. c
  BY <1>2
<1>4. PICK cs : cs = Picked(body, P)
  OBVIOUS
<1>5. DOMAIN cs = 1 .. c /\ \A i \in 1 .. c : cs[i] = body[InOrder(P)[i]]
  BY <1>3, <1>4 DEF Picked
<1>6. CalleesIn(body) = [i \in DOMAIN cs |-> cs[i].fn]
  BY <1>4 DEF CalleesIn
<1>7. CalleesIn(body) = [i \in 1 .. c |-> body[InOrder(P)[i]].fn]
  BY <1>5, <1>6
<1>8. Len(CalleesIn(body)) = c
  <2>1. PICK t : t = CalleesIn(body)
    OBVIOUS
  <2>2. t = [i \in 1 .. c |-> t[i]]
    BY <1>7, <2>1
  <2> QED
    BY <2>1, <2>2, <1>2, ListedIs DEF Listed
<1> QED
  BY <1>2, <1>7, <1>8

LEMMA CalleesCounted ==
    ASSUME NEW body, NEW n \in Nat, DOMAIN body = 1 .. n,
           NEW P, P = {i \in 1 .. n : body[i].do = "call"}
    PROVE  Len(CalleesIn(body)) = Cardinality(P)
BY CalleesAre

Passing(fun, k, cs) ==
    LET p == Passed(fun, k)
    IN  /\ p \in Nat
        /\ fun.body[k].do # "call" => Passed(fun, k + 1) = p
        /\ fun.body[k].do = "call" =>
              Passed(fun, k + 1) = p + 1 /\ p + 1 \in 1 .. Len(cs) /\ cs[p + 1] = fun.body[k].fn

(* How many calls precede an instruction, and which call it is itself. *)
LEMMA CallsCounted ==
    ASSUME NEW m \in Modules, NEW f \in Functions, NEW fun, fun = m.functions[f],
           NEW n, n = Len(fun.body), NEW cs, cs = CalleesIn(fun.body)
    PROVE  /\ n \in Nat /\ Passed(fun, 1) = 0 /\ Passed(fun, n + 1) = Len(cs)
           /\ Len(cs) \in 0 .. MaxBody
           /\ cs \in [1 .. Len(cs) -> Functions]
           /\ \A k \in 1 .. n + 1 :
                 /\ Passed(fun, k) \in Nat
                 /\ Len(CalleesIn(SubSeq(fun.body, 1, k - 1))) = Passed(fun, k)
           /\ \A k \in 1 .. n : Passing(fun, k, cs)
<1>0. PICK P, body : P = Calling(fun) /\ body = fun.body
  OBVIOUS
<1>1. n \in Nat /\ DOMAIN body = 1 .. n /\ Len(body) = n
  BY <1>0, BodyTypes
<1>2. WellFormed(m)
  BY ModulesAssumption
<1>3. n <= MaxBody /\ body \in Seq(Instructions)
  BY <1>0, <1>2 DEF WellFormed
<1>4. P = {i \in 1 .. n : body[i].do = "call"}
  BY <1>0 DEF Calling
<1>5. PICK c : c = Cardinality(P)
  OBVIOUS
<1>6. /\ c \in Nat /\ c <= n /\ IsFiniteSet(P) /\ Len(cs) = c
      /\ cs = [i \in 1 .. c |-> body[InOrder(P)[i]].fn]
      /\ \A i \in 1 .. c : InOrder(P)[i] \in P
  <2>1. cs = CalleesIn(body)
    BY <1>0
  <2> QED
    BY <2>1, <1>1, <1>4, <1>5, CalleesAre
<1>7. P \in SUBSET (Nat \ {0})
  BY <1>4
<1>8. Passed(fun, 1) = 0 /\ Passed(fun, n + 1) = Len(cs)
  <2>1. \A j \in P : j < n + 1
    BY <1>1, <1>4
  <2>2. Under(P, n + 1) = P
    BY <2>1 DEF Under
  <2> QED
    BY <2>2, <1>0, <1>5, <1>6, <1>7, UnderNone DEF Passed
<1>9. Len(cs) \in 0 .. MaxBody
  BY <1>1, <1>3, <1>6, LimitsAssumption
<1>10. cs \in [1 .. Len(cs) -> Functions]
  <2>1. ASSUME NEW k \in P PROVE body[k].fn \in Functions
    <3>1. k \in 1 .. Len(fun.body) /\ body[k].do = "call"
      BY <1>0, <1>1, <1>4
    <3> QED
      BY <3>1, <1>0, InstructionTypes
  <2> QED
    BY <2>1, <1>6
<1>11. ASSUME NEW k \in 1 .. n + 1
       PROVE  /\ Passed(fun, k) \in Nat
              /\ Len(CalleesIn(SubSeq(fun.body, 1, k - 1))) = Passed(fun, k)
  <2>1. k \in Nat /\ k - 1 \in Nat /\ k - 1 <= n
    BY <1>1
  <2>2. PICK b, l : b = SubSeq(body, 1, k - 1) /\ l = k - 1 /\ l \in Nat
    BY <2>1
  <2>3. DOMAIN b = 1 .. l /\ \A i \in 1 .. l : b[i] = body[i]
    <3>1. \A i \in 1 .. l : i \in 1 .. n
      BY <2>1, <2>2, <1>1
    <3>2. /\ b \in Seq(Instructions) /\ Len(b) = l
          /\ \A i \in 1 .. l : b[i] = body[i]
      BY <2>1, <2>2, <1>1, <1>3
    <3> QED
      BY <3>2, LenProperties
  <2>4. {i \in 1 .. l : b[i].do = "call"} = Under(P, k)
    <3>1. \A i \in 1 .. l : i \in 1 .. n /\ i < k
      BY <2>1, <2>2, <1>1
    <3>2. \A i \in 1 .. n : i < k => i \in 1 .. l
      BY <2>1, <2>2, <1>1
    <3>3. \A i : i \in Under(P, k) <=> i \in 1 .. n /\ body[i].do = "call" /\ i < k
      BY <1>4 DEF Under
    <3> QED
      BY <3>1, <3>2, <3>3, <2>3
  <2>5. PICK Q, d : Q = Under(P, k) /\ d = Cardinality(Q)
    OBVIOUS
  <2>6. Len(CalleesIn(b)) = d /\ d \in Nat
    <3>1. l \in Nat /\ DOMAIN b = 1 .. l /\ Q = {i \in 1 .. l : b[i].do = "call"}
      BY <2>2, <2>3, <2>4, <2>5
    <3>2. d = Cardinality(Q)
      BY <2>5
    <3>3. d \in Nat
      BY <3>1, <3>2, CalleesAre
    <3>4. Len(CalleesIn(b)) = d
      BY <3>1, <3>2, CalleesCounted
    <3> QED
      BY <3>3, <3>4
  <2> QED
    BY <2>2, <2>5, <2>6, <1>0 DEF Passed
<1>12. ASSUME NEW k \in 1 .. n
       PROVE  Passing(fun, k, cs)
  <2>0. k \in 1 .. n + 1
    BY <1>1
  <2>1. k \in Nat /\ (k \in P <=> body[k].do = "call")
    BY <1>1, <1>4
  <2>2. /\ k \in P => Passed(fun, k + 1) = Passed(fun, k) + 1
        /\ k \notin P => Passed(fun, k + 1) = Passed(fun, k)
    BY <2>1, <1>0, <1>7, UnderNext DEF Passed
  <2>3. ASSUME k \in P
        PROVE  /\ Passed(fun, k) + 1 \in 1 .. Len(cs)
               /\ cs[Passed(fun, k) + 1] = body[k].fn
    <3>1. PICK q : q = Passed(fun, k) + 1
      OBVIOUS
    <3>2. q \in 1 .. c /\ InOrder(P)[q] = k
      BY <2>3, <3>1, <1>0, <1>5, <1>6, <1>7, InOrderFinds DEF Passed
    <3> QED
      BY <3>1, <3>2, <1>6
  <2> QED
    BY <2>0, <2>1, <2>2, <2>3, <1>0, <1>11 DEF Passing
<1> QED
  BY <1>0, <1>1, <1>8, <1>9, <1>10, <1>11, <1>12
LEMMA CallPassed ==
    ASSUME NEW m \in Modules, NEW f \in Functions, NEW fun, fun = m.functions[f],
           NEW k \in 1 .. Len(fun.body)
    PROVE  Passing(fun, k, CalleesIn(fun.body))
<1>1. PICK n, cs : n = Len(fun.body) /\ cs = CalleesIn(fun.body)
  OBVIOUS
<1>2. k \in 1 .. n
  BY <1>1
<1> QED
  BY <1>1, <1>2, CallsCounted

LEMMA AllPassed ==
    ASSUME NEW m \in Modules, NEW f \in Functions, NEW fun, fun = m.functions[f]
    PROVE  /\ Len(fun.body) \in Nat /\ Len(CalleesIn(fun.body)) \in Nat
           /\ Passed(fun, Len(fun.body) + 1) = Len(CalleesIn(fun.body))
<1>1. PICK n, cs : n = Len(fun.body) /\ cs = CalleesIn(fun.body)
  OBVIOUS
<1>2. n \in Nat /\ Passed(fun, n + 1) = Len(cs) /\ Len(cs) \in 0 .. MaxBody
  BY <1>1, CallsCounted
<1> QED
  BY <1>1, <1>2

-----------------------------------------------------------------------------
(* The circuits that a code applies. *)

Applies(op) == op.op = "gate" /\ op.name \in Functions

Chosen(code) == {i \in With(code, "gate") : code[i].name \in Functions}

LEMMA ChosenGrow ==
    ASSUME NEW code, NEW n, Listed(code, n), NEW op
    PROVE  /\ Chosen(code) \in SUBSET (1 .. n)
           /\ Chosen(Append(code, op)) =
                 IF Applies(op) THEN Chosen(code) \union {n + 1} ELSE Chosen(code)
<1>1. PICK t : t = Append(code, op)
  OBVIOUS
<1>2. /\ Listed(t, n + 1) /\ Agree(t, code, n) /\ EndsWith(t, n + 1, op)
  BY <1>1, ListedAppend
<1>3. n \in Nat /\ DOMAIN code = 1 .. n /\ DOMAIN t = 1 .. n + 1
  BY <1>2, ListedIs
<1>4. 1 .. n + 1 = (1 .. n) \union {n + 1}
  BY <1>3
<1>5. \A i : i \in Chosen(code) <=> i \in 1 .. n /\ Applies(code[i])
  BY <1>3 DEF Chosen, With, Applies
<1>6. \A i : i \in Chosen(t) <=> i \in 1 .. n + 1 /\ Applies(t[i])
  BY <1>3 DEF Chosen, With, Applies
<1>7. \A i \in 1 .. n : t[i] = code[i]
  BY <1>2 DEF Agree
<1>8. t[n + 1] = op
  BY <1>2 DEF EndsWith
<1>9. CASE Applies(op)
  BY <1>1, <1>4, <1>5, <1>6, <1>7, <1>8, <1>9
<1>10. CASE ~Applies(op)
  BY <1>1, <1>4, <1>5, <1>6, <1>7, <1>8, <1>10
<1> QED
  BY <1>5, <1>9, <1>10

LEMMA CircuitsAppended ==
    ASSUME NEW code, NEW n, Listed(code, n), NEW op
    PROVE  /\ \E c : Listed(CircuitsIn(code), c)
           /\ Applies(op) => CircuitsIn(Append(code, op)) = Append(CircuitsIn(code), op.name)
           /\ ~Applies(op) => CircuitsIn(Append(code, op)) = CircuitsIn(code)
<1>1. PICK P, t : P = Chosen(code) /\ t = Append(code, op)
  OBVIOUS
<1>2. PICK c, gs : c = Cardinality(P) /\ gs = Picked(code, P)
  OBVIOUS
<1>3. P \in SUBSET (1 .. n)
  BY <1>1, ChosenGrow
<1>5. /\ Listed(gs, c) /\ Picked(t, P) = gs
      /\ Picked(t, P \union {n + 1}) = Append(gs, op)
  <2>1. /\ Listed(Picked(code, P), Cardinality(P))
        /\ PicksAlike(Append(code, op), code, P)
        /\ PicksMore(Append(code, op), code, P, n + 1, op)
    BY <1>3, PickedGrows
  <2> QED
    BY <1>1, <1>2, <2>1 DEF PicksAlike, PicksMore
<1>6. c \in Nat /\ DOMAIN gs = 1 .. c
  BY <1>5, ListedIs
<1>7. CircuitsIn(code) = [i \in 1 .. c |-> gs[i].name]
  BY <1>1, <1>2, <1>6 DEF CircuitsIn, Chosen
<1>8. PICK u : u = CircuitsIn(code)
  OBVIOUS
<1>9. Listed(u, c)
  BY <1>6, <1>7, <1>8 DEF Listed
<1>10. ASSUME ~Applies(op)
       PROVE  CircuitsIn(t) = u
  <2>1. Chosen(t) = P
    BY <1>1, <1>10, ChosenGrow
  <2> QED
    BY <2>1, <1>5, <1>6, <1>7, <1>8 DEF CircuitsIn, Chosen
<1>11. ASSUME Applies(op)
       PROVE  CircuitsIn(t) = Append(u, op.name)
  <2>1. PICK more : more = Append(gs, op)
    OBVIOUS
  <2>2. Chosen(t) = P \union {n + 1}
    BY <1>1, <1>11, ChosenGrow
  <2>3. Listed(more, c + 1) /\ Agree(more, gs, c) /\ EndsWith(more, c + 1, op)
    BY <2>1, <1>5, ListedAppend
  <2>4. DOMAIN more = 1 .. c + 1
    BY <2>3, ListedIs
  <2>5. CircuitsIn(t) = [i \in 1 .. c + 1 |-> more[i].name]
    BY <2>1, <2>2, <2>4, <1>5 DEF CircuitsIn, Chosen
  <2>6. PICK v, w : v = Append(u, op.name) /\ w = CircuitsIn(t)
    OBVIOUS
  <2>7. Listed(v, c + 1) /\ Agree(v, u, c) /\ EndsWith(v, c + 1, op.name)
    BY <2>6, <1>9, ListedAppend
  <2>8. Listed(w, c + 1)
    BY <2>5, <2>6, <1>6 DEF Listed
  <2>9. \A i \in 1 .. c + 1 : i \in 1 .. c \/ i = c + 1
    BY <1>6
  <2>10. ASSUME NEW i \in 1 .. c + 1 PROVE w[i] = v[i]
    <3>1. CASE i \in 1 .. c
      <4>1. w[i] = gs[i].name /\ u[i] = gs[i].name
        BY <3>1, <2>3, <2>5, <2>6, <1>7, <1>8 DEF Agree
      <4> QED
        BY <4>1, <3>1, <2>7 DEF Agree
    <3>2. CASE i = c + 1
      BY <3>2, <2>3, <2>5, <2>6, <2>7 DEF EndsWith
    <3> QED
      BY <3>1, <3>2, <2>9
  <2>11. Agree(w, v, c + 1)
    BY <2>10 DEF Agree
  <2> QED
    BY <2>6, <2>7, <2>8, <2>11, ListedEqual
<1> QED
  BY <1>1, <1>8, <1>9, <1>10, <1>11

LEMMA CircuitsOfNothing == CircuitsIn(<<>>) = <<>>
<1>1. Chosen(<<>>) = {}
  BY DEF Chosen, With
<1>2. Cardinality({}) = 0
  BY FS_EmptySet
<1>3. DOMAIN InOrder({}) = {}
  BY <1>2 DEF InOrder
<1>4. PICK gs : gs = Picked(<<>>, {})
  OBVIOUS
<1>5. DOMAIN gs = {}
  BY <1>3, <1>4 DEF Picked
<1>6. CircuitsIn(<<>>) = [i \in {} |-> gs[i].name]
  BY <1>1, <1>4, <1>5 DEF CircuitsIn, Chosen
<1> QED
  BY <1>6

-----------------------------------------------------------------------------
(* A stack as the search sees it. *)

FrameIn(m, frame) ==
    [fn    |-> frame.fn,
     next  |-> 1 + Passed(m.functions[frame.fn], frame.next),
     gates |-> CircuitsIn(frame.code)]

Mapped(m, stk) == [i \in 1 .. Len(stk) |-> FrameIn(m, stk[i])]

(* Mapping commutes with pushing and with popping. *)
MapsAppend(m, stk, fr) == Mapped(m, Append(stk, fr)) = Append(Mapped(m, stk), FrameIn(m, fr))

LEMMA MappedIs ==
    ASSUME NEW m, NEW stk, NEW n, Listed(stk, n)
    PROVE  /\ Len(stk) = n /\ Listed(Mapped(m, stk), n) /\ Len(Mapped(m, stk)) = n
           /\ \A i \in 1 .. n : Mapped(m, stk)[i] = FrameIn(m, stk[i])
<1>1. n \in Nat /\ Len(stk) = n
  BY ListedIs
<1>2. PICK t : t = Mapped(m, stk)
  OBVIOUS
<1>3. t = [i \in 1 .. n |-> FrameIn(m, stk[i])]
  BY <1>1, <1>2 DEF Mapped
<1>4. Listed(t, n)
  BY <1>1, <1>3 DEF Listed
<1>5. Len(t) = n
  BY <1>4, ListedIs
<1> QED
  BY <1>1, <1>2, <1>3, <1>4, <1>5

LEMMA MappedAppend ==
    ASSUME NEW m, NEW stk, NEW n, Listed(stk, n), NEW fr
    PROVE  MapsAppend(m, stk, fr)
<1>1. PICK t, s : t = Append(stk, fr) /\ s = Mapped(m, stk)
  OBVIOUS
<1>2. PICK g : g = FrameIn(m, fr)
  OBVIOUS
<1>3. PICK u, v : u = Mapped(m, t) /\ v = Append(s, g)
  OBVIOUS
<1>4. Listed(t, n + 1) /\ Agree(t, stk, n) /\ EndsWith(t, n + 1, fr)
  BY <1>1, ListedAppend
<1>5. n \in Nat /\ Listed(s, n) /\ \A i \in 1 .. n : s[i] = FrameIn(m, stk[i])
  BY <1>1, MappedIs, ListedIs
<1>6. Listed(u, n + 1) /\ \A i \in 1 .. n + 1 : u[i] = FrameIn(m, t[i])
  BY <1>3, <1>4, MappedIs
<1>7. Listed(v, n + 1) /\ Agree(v, s, n) /\ EndsWith(v, n + 1, g)
  BY <1>3, <1>5, ListedAppend
<1>8. \A i \in 1 .. n + 1 : i \in 1 .. n \/ i = n + 1
  BY <1>5
<1>9. ASSUME NEW i \in 1 .. n + 1 PROVE u[i] = v[i]
  <2>1. CASE i \in 1 .. n
    BY <2>1, <1>4, <1>5, <1>6, <1>7 DEF Agree
  <2>2. CASE i = n + 1
    BY <2>2, <1>2, <1>4, <1>6, <1>7 DEF EndsWith
  <2> QED
    BY <2>1, <2>2, <1>8
<1>10. Agree(u, v, n + 1)
  BY <1>9 DEF Agree
<1>11. u = v
  BY <1>6, <1>7, <1>10, ListedEqual
<1> QED
  BY <1>1, <1>2, <1>3, <1>11 DEF MapsAppend

MapsBelow(m, stk) ==
    LET s == Mapped(m, stk)
    IN  Mapped(m, SubSeq(stk, 1, Len(stk) - 1)) = SubSeq(s, 1, Len(s) - 1)

LEMMA ListedBelow ==
    ASSUME NEW stk, NEW n, Listed(stk, n), stk # <<>>,
           NEW b, b = SubSeq(stk, 1, Len(stk) - 1)
    PROVE  /\ n \in Nat /\ n >= 1 /\ n - 1 \in Nat /\ Listed(b, n - 1)
           /\ \A i \in 1 .. n - 1 : b[i] = stk[i]
<1>1. n \in Nat /\ Len(stk) = n
  BY ListedIs
<1>2. PICK S : stk \in Seq(S)
  BY ListedWith
<1>3. /\ b \in Seq(S) /\ Len(stk) \in Nat \ {0} /\ Len(b) = Len(stk) - 1
      /\ \A i \in 1 .. Len(stk) - 1 : b[i] = stk[i]
  BY <1>2, BelowTop
<1>4. Listed(b, Len(b))
  BY <1>3, ListedSeq
<1> QED
  BY <1>1, <1>3, <1>4

LEMMA MappedBelow ==
    ASSUME NEW m, NEW stk, NEW n, Listed(stk, n), stk # <<>>
    PROVE  /\ MapsBelow(m, stk) /\ Mapped(m, stk) # <<>>
           /\ Listed(SubSeq(stk, 1, Len(stk) - 1), n - 1)
           /\ Mapped(m, stk)[Len(Mapped(m, stk))] = FrameIn(m, stk[Len(stk)])
<1>1. PICK s : s = Mapped(m, stk)
  OBVIOUS
<1>2. PICK b, c : b = SubSeq(stk, 1, Len(stk) - 1) /\ c = SubSeq(s, 1, Len(s) - 1)
  OBVIOUS
<1>3. PICK u : u = Mapped(m, b)
  OBVIOUS
<1>4. /\ n \in Nat /\ n >= 1 /\ n - 1 \in Nat /\ Listed(b, n - 1)
      /\ \A i \in 1 .. n - 1 : b[i] = stk[i]
  BY <1>2, ListedBelow
<1>5. /\ Len(stk) = n /\ Listed(s, n) /\ Len(s) = n
      /\ \A i \in 1 .. n : s[i] = FrameIn(m, stk[i])
  BY <1>1, MappedIs
<1>6. s # <<>>
  BY <1>4, <1>5, EmptySeq
<1>7. Listed(c, n - 1) /\ \A i \in 1 .. n - 1 : c[i] = s[i]
  <2>1. c = SubSeq(s, 1, Len(s) - 1) /\ Listed(s, n)
    BY <1>2, <1>5
  <2> QED
    BY <2>1, <1>6, ListedBelow
<1>8. Listed(u, n - 1) /\ \A i \in 1 .. n - 1 : u[i] = FrameIn(m, b[i])
  BY <1>3, <1>4, MappedIs
<1>9. \A i \in 1 .. n - 1 : i \in 1 .. n
  BY <1>4
<1>10. \A i \in 1 .. n - 1 : u[i] = c[i]
  BY <1>4, <1>5, <1>7, <1>8, <1>9
<1>11. u = c
  BY <1>7, <1>8, <1>10, ListedEqual DEF Agree
<1>12. s[n] = FrameIn(m, stk[n])
  BY <1>4, <1>5
<1> QED
  BY <1>1, <1>2, <1>3, <1>4, <1>5, <1>6, <1>11, <1>12 DEF MapsBelow

-----------------------------------------------------------------------------
(* The state of the search. *)

LEMMA FrameMaps ==
    ASSUME module \in Modules, NEW D, NEW frame, FrameOK(module, D, frame)
    PROVE  SearchFrame(frame) = FrameIn(module, frame)
<1>1. PICK f, fun : f = frame.fn /\ fun = module.functions[f]
  OBVIOUS
<1>2. PICK k : k = frame.next
  OBVIOUS
<1>3. f \in Functions /\ k \in 1 .. Len(fun.body) + 1
  BY <1>1, <1>2 DEF FrameOK
<1>4. Len(CalleesIn(SubSeq(fun.body, 1, k - 1))) = Passed(fun, k)
  <2>1. PICK n, cs : n = Len(fun.body) /\ cs = CalleesIn(fun.body)
    OBVIOUS
  <2>2. k \in 1 .. n + 1 /\ fun = module.functions[f]
    BY <1>1, <1>3, <2>1
  <2> QED
    BY <1>3, <2>1, <2>2, CallsCounted
<1> QED
  BY <1>1, <1>2, <1>4 DEF SearchFrame, FrameIn, Fun

(* While bodies are translated. *)
LEMMA StackMaps == TInv /\ stack # <<>> => /\ Entry \in module.defined
                                          /\ SearchStack = Mapped(module, stack)
<1> SUFFICES ASSUME TInv, stack # <<>>
             PROVE  Entry \in module.defined /\ SearchStack = Mapped(module, stack)
  OBVIOUS
<1>1. PICK n : n = Len(stack)
  OBVIOUS
<1>2. /\ n \in Nat /\ n >= 1 /\ DOMAIN stack = 1 .. n
      /\ \A i \in 1 .. n : FrameOK(module, DOMAIN circuits, stack[i])
  BY <1>1, StackTop DEF TInv, StackOK, Underway
<1>3. Entry \in module.defined
  <2>1. stack[1].fn = Entry /\ 1 \in 1 .. n
    BY <1>2 DEF TInv, StackOK
  <2> QED
    BY <2>1, <1>2 DEF FrameOK
<1>4. \A i \in 1 .. n : SearchFrame(stack[i]) = FrameIn(module, stack[i])
  BY <1>2, FrameMaps DEF TInv
<1>5. SearchStack = [i \in 1 .. n |-> SearchFrame(stack[i])]
  BY <1>2, <1>3 DEF SearchStack
<1>6. Mapped(module, stack) = [i \in 1 .. n |-> FrameIn(module, stack[i])]
  BY <1>1 DEF Mapped
<1> QED
  BY <1>3, <1>4, <1>5, <1>6

LEMMA StackMapsNext == TInv' /\ stack' # <<>> => SearchStack' = Mapped(module', stack')
<1>1. TInv /\ stack # <<>> => SearchStack = Mapped(module, stack)
  BY StackMaps
<1>2. (TInv /\ stack # <<>>)' => (SearchStack = Mapped(module, stack))'
  BY <1>1, PTL
<1> QED
  BY <1>2

(* Where the innermost translation stands. *)
LEMMA TopMaps ==
    ASSUME TInv, status = "running"
    PROVE  /\ SearchStatus = "running" /\ Len(SearchStack) = Len(stack)
           /\ Search!Top = FrameIn(module, Top)
           /\ Search!Below = Mapped(module, Below)
           /\ ~AtEnd /\ Instr.do = "call" => Search!AtCall /\ Search!Callee = Instr.fn
           /\ AtEnd => ~Search!AtCall
<1>1. PICK f, fun, k : f = Top.fn /\ fun = module.functions[f] /\ k = Top.next
  OBVIOUS
<1>2. PICK n, cs : n = Len(fun.body) /\ cs = CalleesIn(fun.body)
  OBVIOUS
<1>3. /\ stack # <<>> /\ f \in Functions /\ f \in module.defined
      /\ AtEnd => k > n
      /\ ~AtEnd => k \in 1 .. n /\ Instr = fun.body[k]
      /\ k \in 1 .. n + 1
  BY <1>1, <1>2, TopFacts
<1>4. PICK l, s : l = Len(stack) /\ s = Mapped(module, stack)
  OBVIOUS
<1>5. SearchStack = s /\ Entry \in module.defined
  BY <1>3, <1>4, StackMaps
<1>6. Listed(stack, l)
  BY <1>4 DEF TInv, StackOK
<1>7. Len(s) = l
  BY <1>4, <1>6, MappedIs
<1>8. /\ MapsBelow(module, stack)
      /\ s[Len(s)] = FrameIn(module, stack[l])
  BY <1>3, <1>4, <1>6, MappedBelow
<1>9. Search!Top = FrameIn(module, Top)
  BY <1>4, <1>5, <1>8 DEF Search!Top, Top
<1>10. Search!Below = Mapped(module, Below)
  BY <1>4, <1>5, <1>8 DEF Search!Below, Below, MapsBelow
<1>11. SearchStatus = "running"
  BY <1>5 DEF SearchStatus
<1>12. /\ Search!Top.fn = f /\ Search!Top.next = 1 + Passed(fun, k)
  BY <1>1, <1>9 DEF FrameIn
<1>13. SearchCalls[f] = cs
  BY <1>1, <1>2, <1>3 DEF SearchCalls, Fun
<1>14. PICK m \in Modules : m = module
  BY DEF TInv
<1>15. ASSUME ~AtEnd, Instr.do = "call"
       PROVE  Search!AtCall /\ Search!Callee = Instr.fn
  <2>0. k \in 1 .. Len(fun.body) /\ fun = m.functions[f] /\ fun.body[k].do = "call"
    BY <1>1, <1>2, <1>3, <1>14, <1>15
  <2>1. PICK p \in Nat : p = Passed(fun, k)
    BY <2>0, <1>3, CallPassed DEF Passing
  <2>2. p + 1 \in 1 .. Len(cs) /\ cs[p + 1] = Instr.fn
    BY <2>0, <2>1, <1>2, <1>3, <1>15, CallPassed DEF Passing
  <2>3. 1 + p = p + 1 /\ 1 + p <= Len(cs)
    BY <2>1, <2>2
  <2> QED
    BY <2>1, <2>2, <2>3, <1>12, <1>13 DEF Search!AtCall, Search!Callee
<1>16. ASSUME AtEnd
       PROVE  ~Search!AtCall
  <2>0. fun = m.functions[f]
    BY <1>1, <1>14
  <2>1. n \in Nat /\ Passed(fun, n + 1) = Len(cs) /\ Len(cs) \in Nat
    BY <2>0, <1>2, <1>3, AllPassed
  <2>2. k = n + 1
    BY <2>1, <1>3, <1>16
  <2>3. ~(1 + Passed(fun, k) <= Len(cs))
    BY <2>1, <2>2
  <2> QED
    BY <2>3, <1>12, <1>13 DEF Search!AtCall
<1> QED
  BY <1>4, <1>5, <1>7, <1>9, <1>10, <1>11, <1>15, <1>16

(* What the innermost translation becomes. *)
LEMMA TopMapped ==
    ASSUME TInv, TInv', status = "running", NEW fr, stack' = Append(Below, fr), module' = module
    PROVE  SearchStack' = Append(Search!Below, FrameIn(module, fr))
<1>1. PICK b, l : b = Below /\ l = Len(stack)
  OBVIOUS
<1>2. stack # <<>> /\ Listed(stack, l)
  BY <1>1, TopFacts DEF TInv, StackOK
<1>3. Listed(b, l - 1)
  BY <1>1, <1>2, MappedBelow DEF Below
<1>4. stack' # <<>>
  BY <1>1, <1>3, ListedAppend
<1>5. SearchStack' = Mapped(module, Append(b, fr))
  BY <1>1, <1>4, StackMapsNext
<1>6. MapsAppend(module, b, fr)
  BY <1>3, MappedAppend
<1>7. Search!Below = Mapped(module, b)
  BY <1>1, TopMaps
<1> QED
  BY <1>5, <1>6, <1>7 DEF MapsAppend

(* The frame of a translation that has passed an instruction. *)
Resembles(m, fr, frame)  == FrameIn(m, fr) = FrameIn(m, frame)
Answers(m, fr, frame, f) == FrameIn(m, fr) = Search!Applied(FrameIn(m, frame), f)

LEMMA PassedFrame ==
    ASSUME NEW m \in Modules, NEW D, NEW frame, FrameOK(m, D, frame),
           NEW fun, fun = m.functions[frame.fn], frame.next \in 1 .. Len(fun.body),
           NEW i, i = fun.body[frame.next],
           NEW fr, fr.fn = frame.fn, fr.next = frame.next + 1
    PROVE  /\ i.do # "call" /\ CircuitsIn(fr.code) = CircuitsIn(frame.code) =>
                 Resembles(m, fr, frame)
           /\ i.do = "call" /\ CircuitsIn(fr.code) = Append(CircuitsIn(frame.code), i.fn) =>
                 Answers(m, fr, frame, i.fn)
<1>1. PICK k, g : k = frame.next /\ g = FrameIn(m, frame)
  OBVIOUS
<1>2. PICK f : f = frame.fn
  OBVIOUS
<1>3. f \in Functions /\ k \in 1 .. Len(fun.body) /\ fun = m.functions[f] /\ i = fun.body[k]
  BY <1>1, <1>2 DEF FrameOK
<1>6. /\ i.do # "call" => Passed(fun, k + 1) = Passed(fun, k)
      /\ i.do = "call" => Passed(fun, k + 1) = Passed(fun, k) + 1
      /\ Passed(fun, k) \in Nat
  <2>1. Passing(fun, k, CalleesIn(fun.body))
    BY <1>3, CallPassed
  <2> QED
    BY <2>1, <1>3 DEF Passing
<1>7. PICK p \in Nat : p = Passed(fun, k)
  BY <1>6
<1>8. g = [fn |-> f, next |-> 1 + p, gates |-> CircuitsIn(frame.code)]
  BY <1>1, <1>2, <1>3, <1>7 DEF FrameIn
<1>9. FrameIn(m, fr) = [fn |-> f, next |-> 1 + Passed(fun, k + 1), gates |-> CircuitsIn(fr.code)]
  BY <1>1, <1>2, <1>3 DEF FrameIn
<1>10. PICK a, b : a = FrameIn(m, fr) /\ b = CircuitsIn(fr.code)
  OBVIOUS
<1>11. ASSUME i.do # "call", b = CircuitsIn(frame.code)
       PROVE  a = g
  BY <1>6, <1>7, <1>8, <1>9, <1>10, <1>11
<1>12. ASSUME i.do = "call", b = Append(CircuitsIn(frame.code), i.fn)
       PROVE  a = Search!Applied(g, i.fn)
  <2>1. 1 + Passed(fun, k + 1) = (1 + p) + 1
    BY <1>6, <1>7, <1>12
  <2>2. g.fn = f /\ g.next = 1 + p /\ g.gates = CircuitsIn(frame.code)
    BY <1>8
  <2> QED
    BY <2>1, <2>2, <1>9, <1>10, <1>12 DEF Search!Applied
<1> QED
  BY <1>1, <1>10, <1>11, <1>12 DEF Resembles, Answers

-----------------------------------------------------------------------------
(* The steps of the search. *)

LEMMA Restored ==
    ASSUME NEW s, NEW n, Listed(s, n), s # <<>>
    PROVE  Append(SubSeq(s, 1, Len(s) - 1), s[Len(s)]) = s
<1>1. PICK b, t : b = SubSeq(s, 1, Len(s) - 1) /\ t = Append(b, s[Len(s)])
  OBVIOUS
<1>2. /\ n \in Nat /\ n >= 1 /\ n - 1 \in Nat /\ Listed(b, n - 1)
      /\ \A i \in 1 .. n - 1 : b[i] = s[i]
  BY <1>1, ListedBelow
<1>3. Len(s) = n /\ (n - 1) + 1 = n
  BY <1>2, ListedIs
<1>4. Listed(t, (n - 1) + 1) /\ Agree(t, b, n - 1) /\ EndsWith(t, (n - 1) + 1, s[n])
  BY <1>1, <1>2, <1>3, ListedAppend
<1>5. Listed(t, n) /\ t[n] = s[n] /\ \A i \in 1 .. n - 1 : t[i] = s[i]
  BY <1>2, <1>3, <1>4 DEF Agree, EndsWith
<1>6. \A i \in 1 .. n : i \in 1 .. n - 1 \/ i = n
  BY <1>2
<1>7. Agree(t, s, n)
  BY <1>5, <1>6 DEF Agree
<1> QED
  BY <1>1, <1>5, <1>7, ListedEqual

(* What the search does not see of a step: everything but its stack and its *)
(* status.                                                                  *)
LEMMA RestStays ==
    ASSUME UNCHANGED <<module, circuits>>, status # "done", status' # "done"
    PROVE  UNCHANGED <<SearchCalls, module.defined, SearchCircuits, SearchProgram>>
BY DEF SearchCalls, SearchCircuits, SearchProgram, Fun

LEMMA StepUnseen ==
    ASSUME TInv, TInv', status = "running", NEW fr, stack' = Append(Below, fr),
           FrameIn(module, fr) = FrameIn(module, Top), UNCHANGED <<module, circuits, status>>
    PROVE  UNCHANGED Search!vars
<1>1. PICK l, s : l = Len(stack) /\ s = Mapped(module, stack)
  OBVIOUS
<1>2. stack # <<>> /\ Listed(stack, l)
  BY <1>1, TopFacts DEF TInv, StackOK
<1>3. SearchStack = s
  BY <1>1, <1>2, StackMaps
<1>4. Listed(s, l) /\ Len(s) = l
  BY <1>1, <1>2, MappedIs
<1>5. s # <<>>
  BY <1>1, <1>2, MappedBelow
<1>6. SearchStack' = Append(Search!Below, Search!Top)
  BY TopMapped, TopMaps
<1>7. Append(Search!Below, Search!Top) = s
  BY <1>3, <1>4, <1>5, Restored DEF Search!Below, Search!Top
<1>8. UNCHANGED <<SearchCalls, module.defined, SearchCircuits, SearchProgram>>
  BY RestStays
<1>9. SearchStatus' = SearchStatus
  BY DEF SearchStatus
<1> QED
  BY <1>3, <1>6, <1>7, <1>8, <1>9 DEF Search!vars

NoGateNamed == "X" \notin Functions

(* A frame that has passed an instruction that is no call. *)
LEMMA EmittedUnseen ==
    ASSUME TInv, TInv', status = "running", ~AtEnd, Instr.do # "call",
           NEW fr, fr.fn = Top.fn, fr.next = Top.next + 1,
           stack' = Append(Below, fr), UNCHANGED <<module, circuits, status>>,
           CircuitsIn(fr.code) = CircuitsIn(Top.code)
    PROVE  UNCHANGED Search!vars
<1>1. PICK m \in Modules : m = module
  BY DEF TInv
<1>2. PICK fun, frame : fun = module.functions[Top.fn] /\ frame = Top
  OBVIOUS
<1>3. PICK D, i : D = DOMAIN circuits /\ i = fun.body[frame.next]
  OBVIOUS
<1>4. /\ FrameOK(m, D, frame) /\ fun = m.functions[frame.fn]
      /\ frame.next \in 1 .. Len(fun.body) /\ i = Instr
  BY <1>1, <1>2, <1>3, TopFacts
<1>5. fr.fn = frame.fn /\ fr.next = frame.next + 1 /\ i.do # "call"
  BY <1>2, <1>4
<1>6. Resembles(m, fr, frame)
  BY <1>2, <1>3, <1>4, <1>5, PassedFrame
<1>7. FrameIn(module, fr) = FrameIn(module, Top)
  BY <1>1, <1>2, <1>6 DEF Resembles
<1> QED
  BY <1>7, StepUnseen

LEMMA AllocateUnseen == TInv /\ TInv' /\ Allocate => UNCHANGED Search!vars
<1> SUFFICES ASSUME TInv, TInv', Allocate PROVE UNCHANGED Search!vars
  OBVIOUS
<1>1. status = "running" /\ ~AtEnd /\ Instr.do # "call"
  BY DEF Allocate, At
<1>2. PICK frame, locals : frame = Top /\ locals = Insert(Top.locals, NameOf(Top.fn, Defined),
                                                        Fixed(Top.nextQubit))
  OBVIOUS
<1>3. PICK fr : fr = Stepped(frame, locals, frame.nextQubit + 1, <<>>)
  OBVIOUS
<1>4. stack' = Append(Below, fr) /\ UNCHANGED <<module, circuits, status>>
  BY <1>2, <1>3 DEF Allocate
<1>5. fr.fn = frame.fn /\ fr.next = frame.next + 1 /\ fr.code = frame.code \o <<>>
  BY <1>3 DEF Stepped
<1>6. PICK n : Listed(frame.code, n)
  BY <1>1, <1>2, TopFacts
<1>7. fr.code = frame.code
  BY <1>5, <1>6, ListedConcat
<1> QED
  BY <1>1, <1>2, <1>4, <1>5, <1>7, EmittedUnseen

(* Instructions of Quil that apply no circuit. *)
LEMMA OtherUnseen ==
    ASSUME TInv, TInv', status = "running", ~AtEnd, Instr.do # "call",
           NEW op, ~Applies(op), stack' = Append(Below, Emitting(Top, <<op>>)),
           UNCHANGED <<module, circuits, status>>
    PROVE  UNCHANGED Search!vars
<1>1. PICK frame : frame = Top
  OBVIOUS
<1>2. PICK fr : fr = Emitting(frame, <<op>>)
  OBVIOUS
<1>3. fr.fn = frame.fn /\ fr.next = frame.next + 1 /\ fr.code = frame.code \o <<op>>
  BY <1>2 DEF Emitting, Stepped
<1>4. PICK n : Listed(frame.code, n)
  BY <1>1, TopFacts
<1>5. fr.code = Append(frame.code, op)
  BY <1>3, <1>4, ListedConcat
<1>6. CircuitsIn(fr.code) = CircuitsIn(frame.code)
  BY <1>4, <1>5, CircuitsAppended
<1> QED
  BY <1>1, <1>2, <1>3, <1>6, EmittedUnseen

LEMMA GateUnseen == NoGateNamed /\ TInv /\ TInv' /\ Gate => UNCHANGED Search!vars
<1> SUFFICES ASSUME NoGateNamed, TInv, TInv', Gate PROVE UNCHANGED Search!vars
  OBVIOUS
<1>1. PICK op : op = GateOn("X", FALSE, <<>>, 0, <<Local(Top, Instr.on)>>)
  OBVIOUS
<1>2. op.name = "X"
  BY <1>1 DEF GateOn
<1>3. ~Applies(op)
  BY <1>2 DEF Applies, NoGateNamed
<1>4. /\ status = "running" /\ ~AtEnd /\ Instr.do # "call"
      /\ UNCHANGED <<module, circuits, status>>
      /\ stack' = Append(Below, Emitting(Top, <<op>>))
  BY <1>1 DEF Gate, At
<1> QED
  BY <1>3, <1>4, OtherUnseen

LEMMA MeasureUnseen == TInv /\ TInv' /\ Measure => UNCHANGED Search!vars
<1> SUFFICES ASSUME TInv, TInv', Measure PROVE UNCHANGED Search!vars
  OBVIOUS
<1>1. PICK op : op = Measurement(Local(Top, Instr.on), Region(Top.fn, Defined))
  OBVIOUS
<1>2. op.op = "measure"
  BY <1>1 DEF Measurement
<1>3. ~Applies(op)
  BY <1>2 DEF Applies
<1>4. /\ status = "running" /\ ~AtEnd /\ Instr.do # "call"
      /\ UNCHANGED <<module, circuits, status>>
      /\ stack' = Append(Below, Emitting(Top, <<op>>))
  BY <1>1 DEF Measure, At
<1> QED
  BY <1>3, <1>4, OtherUnseen

(* The gate of a call, and the frame that has passed the call. *)
LEMMA CalledMaps ==
    ASSUME NEW m \in Modules, m = module, NEW D, NEW frame, FrameOK(m, D, frame),
           NEW fun, fun = m.functions[frame.fn], frame.next \in 1 .. Len(fun.body),
           NEW i, i = fun.body[frame.next], i.do = "call"
    PROVE  Answers(m, Called(frame, i.fn), frame, i.fn) /\ i.fn \in Functions
<1>1. PICK f : f = i.fn
  OBVIOUS
<1>2. f \in Functions
  BY <1>1, InstructionTypes DEF FrameOK
<1>3. PICK op : op = GateOn(f, FALSE, <<>>, 0, [a \in DOMAIN i.args |-> Local(frame, i.args[a])])
  OBVIOUS
<1>4. PICK fr : fr = Emitting(frame, <<op>>)
  OBVIOUS
<1>5. Called(frame, f) = fr
  BY <1>3, <1>4 DEF Called, Fun
<1>6. fr.fn = frame.fn /\ fr.next = frame.next + 1 /\ fr.code = frame.code \o <<op>>
  BY <1>4 DEF Emitting, Stepped
<1>7. PICK n : Listed(frame.code, n)
  BY DEF FrameOK
<1>8. fr.code = Append(frame.code, op)
  BY <1>6, <1>7, ListedConcat
<1>9. op.op = "gate" /\ op.name = f
  BY <1>3 DEF GateOn
<1>10. Applies(op)
  BY <1>2, <1>9 DEF Applies
<1>11. CircuitsIn(fr.code) = Append(CircuitsIn(frame.code), i.fn)
  BY <1>1, <1>7, <1>8, <1>9, <1>10, CircuitsAppended
<1>12. Answers(m, fr, frame, i.fn)
  BY <1>6, <1>11, PassedFrame
<1> QED
  BY <1>1, <1>2, <1>5, <1>12

LEMMA CallMaps == TInv /\ TInv' /\ Call => Search!Apply
<1> SUFFICES ASSUME TInv, TInv', Call PROVE Search!Apply
  OBVIOUS
<1>1. /\ status = "running" /\ ~AtEnd /\ Instr.do = "call" /\ Instr.fn \in DOMAIN circuits
      /\ stack' = Append(Below, Called(Top, Instr.fn))
      /\ UNCHANGED <<module, circuits, status>>
  BY DEF Call, At
<1>2. PICK m \in Modules : m = module
  BY DEF TInv
<1>3. PICK frame, D : frame = Top /\ D = DOMAIN circuits
  OBVIOUS
<1>4. PICK fun, g : fun = m.functions[frame.fn] /\ g = FrameIn(m, frame)
  OBVIOUS
<1>5. PICK i : i = fun.body[frame.next]
  OBVIOUS
<1>6. /\ FrameOK(m, D, frame) /\ frame.next \in 1 .. Len(fun.body)
      /\ i = Instr
  BY <1>1, <1>2, <1>3, <1>4, <1>5, TopFacts
<1>7. FrameIn(m, Called(frame, i.fn)) = Search!Applied(g, i.fn)
  <2>1. Answers(m, Called(frame, i.fn), frame, i.fn)
    BY <1>1, <1>2, <1>4, <1>5, <1>6, CalledMaps
  <2> QED
    BY <2>1, <1>4 DEF Answers
<1>8. /\ SearchStatus = "running" /\ Search!Top = g
      /\ Search!AtCall /\ Search!Callee = i.fn
  BY <1>1, <1>2, <1>3, <1>4, <1>6, TopMaps
<1>9. SearchStack' = Append(Search!Below, Search!Applied(Search!Top, Search!Callee))
  <2>1. PICK fr : fr = Called(frame, i.fn)
    OBVIOUS
  <2>2. stack' = Append(Below, fr)
    BY <2>1, <1>1, <1>3, <1>6
  <2>3. SearchStack' = Append(Search!Below, FrameIn(module, fr))
    BY <2>2, <1>1, TopMapped
  <2> QED
    BY <2>1, <2>3, <1>2, <1>7, <1>8
<1>10. UNCHANGED <<SearchCalls, module.defined, SearchCircuits, SearchProgram>>
  BY <1>1, RestStays
<1>11. SearchStatus' = SearchStatus
  BY <1>1 DEF SearchStatus
<1>12. Search!Callee \in DOMAIN SearchCircuits
  BY <1>1, <1>6, <1>8 DEF SearchCircuits
<1> QED
  BY <1>8, <1>9, <1>10, <1>11, <1>12 DEF Search!Apply

LEMMA FreshMaps ==
    ASSUME NEW m \in Modules, m = module, NEW f \in Functions
    PROVE  FrameIn(m, Frame(f)) = Search!Frame(f)
<1>1. PICK fr, fun : fr = Frame(f) /\ fun = m.functions[f]
  OBVIOUS
<1>2. fr.fn = f /\ fr.next = 1 /\ fr.code = <<>>
  BY <1>1 DEF Frame
<1>3. Passed(fun, 1) = 0
  <2>1. PICK n, cs : n = Len(fun.body) /\ cs = CalleesIn(fun.body)
    OBVIOUS
  <2> QED
    BY <1>1, <2>1, CallsCounted
<1>4. FrameIn(m, fr) = [fn |-> f, next |-> 1, gates |-> <<>>]
  BY <1>1, <1>2, <1>3, CircuitsOfNothing DEF FrameIn
<1> QED
  BY <1>1, <1>4 DEF Search!Frame

LEMMA DescendMaps == TInv /\ TInv' /\ Descend => Search!Descend
<1> SUFFICES ASSUME TInv, TInv', Descend PROVE Search!Descend
  OBVIOUS
<1>1. /\ status = "running" /\ ~AtEnd /\ Instr.do = "call" /\ Instr.fn \notin DOMAIN circuits
      /\ Instr.fn \in module.defined /\ Len(stack) < StackLimit
      /\ stack' = Append(stack, Frame(Instr.fn))
      /\ UNCHANGED <<module, circuits, status>>
  BY DEF Descend, At
<1>2. PICK m \in Modules : m = module
  BY DEF TInv
<1>3. PICK f : f = Instr.fn
  OBVIOUS
<1>4. f \in Functions
  <2>1. PICK fun, k : fun = module.functions[Top.fn] /\ k = Top.next
    OBVIOUS
  <2>2. Top.fn \in Functions /\ k \in 1 .. Len(fun.body) /\ Instr = fun.body[k]
    BY <2>1, <1>1, TopFacts
  <2> QED
    BY <2>1, <2>2, <1>1, <1>3, InstructionTypes DEF TInv
<1>5. /\ SearchStatus = "running" /\ Len(SearchStack) = Len(stack)
      /\ Search!AtCall /\ Search!Callee = f
  BY <1>1, <1>3, TopMaps
<1>6. SearchStack' = Append(SearchStack, Search!Frame(f))
  <2>1. PICK fr, n : fr = Frame(f) /\ n = Len(stack)
    OBVIOUS
  <2>2. stack # <<>> /\ Listed(stack, n)
    BY <2>1, <1>1, TopFacts DEF TInv, StackOK
  <2>3. stack' = Append(stack, fr) /\ stack' # <<>>
    BY <2>1, <2>2, <1>1, <1>3, ListedAppend
  <2>4. SearchStack' = Mapped(m, Append(stack, fr))
    BY <2>3, <1>1, <1>2, StackMapsNext
  <2>5. MapsAppend(m, stack, fr)
    BY <2>2, MappedAppend
  <2>6. SearchStack = Mapped(m, stack)
    BY <2>2, <1>2, StackMaps
  <2>7. FrameIn(m, fr) = Search!Frame(f)
    BY <2>1, <1>2, <1>4, FreshMaps
  <2> QED
    BY <2>4, <2>5, <2>6, <2>7 DEF MapsAppend
<1>7. UNCHANGED <<SearchCalls, module.defined, SearchCircuits, SearchProgram>>
  BY <1>1, RestStays
<1>8. SearchStatus' = SearchStatus
  BY <1>1 DEF SearchStatus
<1>9. Search!Callee \notin DOMAIN SearchCircuits
  BY <1>1, <1>3, <1>5 DEF SearchCircuits
<1> QED
  BY <1>1, <1>3, <1>5, <1>6, <1>7, <1>8, <1>9 DEF Search!Descend

(* The ways to fail while bodies are translated. *)
LEMMA StopMaps ==
    ASSUME TInv, status = "running", UNCHANGED <<module, stack, circuits>>,
           status' \in {"overflow", "MissingFunctionDefinition", "MissingOperandName"}
    PROVE  /\ UNCHANGED <<SearchCalls, module.defined, SearchStack, SearchCircuits, SearchProgram>>
           /\ SearchStatus' = IF status' = "MissingOperandName" THEN "error" ELSE status'
<1>1. UNCHANGED <<SearchCalls, module.defined, SearchCircuits, SearchProgram>>
  BY RestStays
<1>2. SearchStack' = SearchStack
  BY DEF SearchStack, SearchFrame, Fun
<1>3. Entry \in module.defined
  BY StackMaps, TopFacts
<1>4. SearchStatus' = IF status' = "MissingOperandName" THEN "error" ELSE status'
  BY <1>3 DEF SearchStatus
<1> QED
  BY <1>1, <1>2, <1>4

LEMMA OverflowMaps == TInv /\ Overflow => Search!Overflow
<1> SUFFICES ASSUME TInv, Overflow PROVE Search!Overflow
  OBVIOUS
<1>1. /\ status = "running" /\ ~AtEnd /\ Instr.do = "call" /\ Instr.fn \notin DOMAIN circuits
      /\ Instr.fn \in module.defined /\ Len(stack) = StackLimit
      /\ UNCHANGED <<module, stack, circuits>> /\ status' = "overflow"
  BY DEF Overflow, At
<1>2. /\ UNCHANGED <<SearchCalls, module.defined, SearchStack, SearchCircuits, SearchProgram>>
      /\ SearchStatus' = "overflow"
  BY <1>1, StopMaps
<1>3. /\ SearchStatus = "running" /\ Len(SearchStack) = Len(stack)
      /\ Search!AtCall /\ Search!Callee = Instr.fn
  BY <1>1, TopMaps
<1>4. Search!Callee \notin DOMAIN SearchCircuits
  BY <1>1, <1>3 DEF SearchCircuits
<1> QED
  BY <1>1, <1>2, <1>3, <1>4 DEF Search!Overflow

LEMMA MissingMaps == TInv /\ Missing => Search!Missing
<1> SUFFICES ASSUME TInv, Missing PROVE Search!Missing
  OBVIOUS
<1>1. /\ status = "running" /\ ~AtEnd /\ Instr.do = "call" /\ Instr.fn \notin DOMAIN circuits
      /\ Instr.fn \notin module.defined
      /\ UNCHANGED <<module, stack, circuits>> /\ status' = "MissingFunctionDefinition"
  BY DEF Missing, At
<1>2. /\ UNCHANGED <<SearchCalls, module.defined, SearchStack, SearchCircuits, SearchProgram>>
      /\ SearchStatus' = "MissingFunctionDefinition"
  BY <1>1, StopMaps
<1>3. /\ SearchStatus = "running" /\ Search!AtCall /\ Search!Callee = Instr.fn
  BY <1>1, TopMaps
<1>4. Search!Callee \notin DOMAIN SearchCircuits
  BY <1>1, <1>3 DEF SearchCircuits
<1> QED
  BY <1>1, <1>2, <1>3, <1>4 DEF Search!Missing

LEMMA ReturnConstantMaps == TInv /\ ReturnConstant => Search!Fail
<1> SUFFICES ASSUME TInv, ReturnConstant PROVE Search!Fail
  OBVIOUS
<1>1. /\ status = "running" /\ UNCHANGED <<module, stack, circuits>>
      /\ status' = "MissingOperandName"
  BY DEF ReturnConstant
<1>2. /\ UNCHANGED <<SearchCalls, module.defined, SearchStack, SearchCircuits, SearchProgram>>
      /\ SearchStatus' = "error"
  BY <1>1, StopMaps
<1>3. SearchStatus = "running"
  BY <1>1, TopMaps
<1> QED
  BY <1>2, <1>3 DEF Search!Fail

(* The code of a whole body applies what its calls did. *)
LEMMA FinishedMaps ==
    ASSUME NEW n, NEW frame, Listed(frame.code, n)
    PROVE  CircuitsIn(FinishedCode(frame)) = CircuitsIn(frame.code)
<1>1. CASE Returned(frame.fn).returns # "register"
  BY <1>1 DEF FinishedCode
<1>2. CASE Returned(frame.fn).returns = "register"
  <2>1. PICK op : op = Move(ReturnLabel(FunctionNames[frame.fn]),
                            Region(frame.fn, Returned(frame.fn).register))
    OBVIOUS
  <2>2. FinishedCode(frame) = Append(frame.code, op)
    BY <2>1, <1>2 DEF FinishedCode
  <2>3. op.op = "move"
    BY <2>1 DEF Move
  <2>4. ~Applies(op)
    BY <2>3 DEF Applies
  <2> QED
    BY <2>2, <2>4, CircuitsAppended
<1> QED
  BY <1>1, <1>2

LEMMA ReturnMaps == TInv /\ TInv' /\ Return => Search!Return
<1> SUFFICES ASSUME TInv, TInv', Return PROVE Search!Return
  OBVIOUS
<1>1. /\ status = "running" /\ AtEnd /\ Len(stack) > 1
      /\ circuits' = Insert(circuits, Top.fn, CircuitOf(Top))
      /\ UNCHANGED <<module, status>>
  BY DEF Return
<1>2. PICK m \in Modules : m = module
  BY DEF TInv
<1>3. PICK top, f : top = Top /\ f = Top.fn
  OBVIOUS
<1>4. PICK b, l : b = Below /\ l = Len(stack)
  OBVIOUS
<1>5. /\ stack # <<>> /\ Listed(stack, l)
      /\ \E n : Listed(top.code, n)
  BY <1>1, <1>3, <1>4, TopFacts DEF TInv, StackOK
<1>6. /\ SearchStatus = "running" /\ Len(SearchStack) = Len(stack) /\ ~Search!AtCall
      /\ Search!Top = FrameIn(m, top) /\ Search!Below = Mapped(m, b)
  BY <1>1, <1>2, <1>3, <1>4, TopMaps
<1>7. Search!Top.fn = f /\ Search!Top.gates = CircuitsIn(top.code)
  BY <1>3, <1>6 DEF FrameIn
<1>8. SearchCircuits' = [g \in DOMAIN SearchCircuits \union {Search!Top.fn} |->
                           IF g = Search!Top.fn THEN Search!Top.gates ELSE SearchCircuits[g]]
  <2>1. PICK D, c : D = DOMAIN circuits /\ c = CircuitOf(top)
    OBVIOUS
  <2>2. circuits' = [g \in D \union {f} |-> IF g = f THEN c ELSE circuits[g]]
    BY <2>1, <1>1, <1>3 DEF Insert
  <2>3. c.code = FinishedCode(top)
    BY <2>1 DEF CircuitOf
  <2>4. CircuitsIn(c.code) = Search!Top.gates
    BY <2>3, <1>5, <1>7, FinishedMaps
  <2>5. SearchCircuits = [g \in D |-> CircuitsIn(circuits[g].code)]
    BY <2>1 DEF SearchCircuits
  <2>6. SearchCircuits' = [g \in D \union {f} |-> CircuitsIn(circuits'[g].code)]
    BY <2>2 DEF SearchCircuits
  <2>7. \A g \in D \union {f} : CircuitsIn(circuits'[g].code) =
           IF g = f THEN Search!Top.gates ELSE SearchCircuits[g]
    BY <2>2, <2>4, <2>5
  <2>8. DOMAIN SearchCircuits = D
    BY <2>5
  <2> QED
    BY <2>6, <2>7, <2>8, <1>7
<1>9. b # <<>> /\ Listed(b, l - 1)
  <2>1. /\ l \in Nat /\ Listed(b, l - 1)
    BY <1>4, <1>5, ListedBelow DEF Below
  <2>2. Len(b) = l - 1 /\ l > 1
    BY <2>1, <1>1, <1>4, ListedIs
  <2>3. Len(b) # 0
    BY <2>1, <2>2
  <2> QED
    BY <2>1, <2>3, EmptySeq
<1>10. PICK caller : caller = b[Len(b)]
  OBVIOUS
<1>11. PICK fun, D : fun = m.functions[caller.fn] /\ D = DOMAIN circuits
  OBVIOUS
<1>12. PICK i : i = fun.body[caller.next]
  OBVIOUS
<1>13. /\ FrameOK(m, D, caller) /\ caller.next \in 1 .. Len(fun.body)
       /\ i.do = "call" /\ i.fn = f
  <2>1. fun = module.functions[caller.fn]
    BY <1>2, <1>11
  <2> QED
    BY <2>1, <1>1, <1>2, <1>3, <1>4, <1>10, <1>11, <1>12, CallerFacts
<1>14. PICK fr : fr = Called(caller, f)
  OBVIOUS
<1>15. FrameIn(m, fr) = Search!Applied(FrameIn(m, caller), f)
  <2>1. Answers(m, Called(caller, i.fn), caller, i.fn)
    BY <1>2, <1>11, <1>12, <1>13, CalledMaps
  <2> QED
    BY <2>1, <1>13, <1>14 DEF Answers
<1>16. PICK low : low = SubSeq(b, 1, Len(b) - 1)
  OBVIOUS
<1>17. stack' = Append(low, fr)
  BY <1>3, <1>4, <1>10, <1>14, <1>16 DEF Return
<1>18. /\ MapsBelow(m, b) /\ Listed(low, (l - 1) - 1)
       /\ Mapped(m, b)[Len(Mapped(m, b))] = FrameIn(m, caller)
  BY <1>9, <1>10, <1>16, MappedBelow
<1>19. Search!Below[Len(Search!Below)] = FrameIn(m, caller)
  BY <1>6, <1>18
<1>20. SearchStack' = Append(Mapped(m, low), FrameIn(m, fr))
  <2>1. stack' # <<>>
    BY <1>17, <1>18, ListedAppend
  <2>2. SearchStack' = Mapped(m, Append(low, fr))
    BY <2>1, <1>1, <1>2, <1>17, StackMapsNext
  <2>3. MapsAppend(m, low, fr)
    BY <1>18, MappedAppend
  <2> QED
    BY <2>2, <2>3 DEF MapsAppend
<1>21. Mapped(m, low) = SubSeq(Search!Below, 1, Len(Search!Below) - 1)
  BY <1>6, <1>16, <1>18 DEF MapsBelow
<1>22. /\ UNCHANGED <<SearchCalls, module.defined, SearchProgram>>
       /\ SearchStatus' = SearchStatus
  BY <1>1 DEF SearchCalls, SearchProgram, SearchStatus, Fun
<1> QED
  BY <1>1, <1>6, <1>7, <1>8, <1>15, <1>19, <1>20, <1>21, <1>22 DEF Search!Return

LEMMA OrderExists ==
    ASSUME NEW D, IsFiniteSet(D)
    PROVE  \E s \in [1 .. Cardinality(D) -> D] : \A i, j \in DOMAIN s : s[i] = s[j] => i = j
<1>1. PICK n \in Nat : n = Cardinality(D) /\ ExistsBijection(1 .. n, D)
  BY FS_CardinalityType
<1>2. PICK s \in Bijection(1 .. n, D) : TRUE
  BY <1>1 DEF ExistsBijection
<1>3. s \in [1 .. n -> D] /\ \A i, j \in 1 .. n : s[i] = s[j] => i = j
  BY <1>2 DEF Bijection, Injection, IsInjective
<1> QED
  BY <1>1, <1>3

LEMMA FinishMaps == TInv /\ TInv' /\ Finish => Search!Finish
<1> SUFFICES ASSUME TInv, TInv', Finish PROVE Search!Finish
  OBVIOUS
<1>1. /\ status = "running" /\ AtEnd /\ Len(stack) = 1 /\ status' = "done"
      /\ UNCHANGED <<module, stack, circuits>>
      /\ program'.circuits = circuits /\ program'.code = FinishedCode(Top)
  BY DEF Finish
<1>2. PICK top, D : top = Top /\ D = DOMAIN circuits
  OBVIOUS
<1>3. /\ SearchStatus = "running" /\ Len(SearchStack) = 1 /\ ~Search!AtCall
      /\ Search!Top = FrameIn(module, top)
  BY <1>1, <1>2, TopMaps
<1>4. CircuitsIn(program'.code) = Search!Top.gates
  <2>1. \E n : Listed(top.code, n)
    BY <1>1, <1>2, TopFacts
  <2>2. CircuitsIn(FinishedCode(top)) = CircuitsIn(top.code)
    BY <2>1, FinishedMaps
  <2> QED
    BY <2>2, <1>1, <1>2, <1>3 DEF FrameIn
<1>5. PICK order : order = SearchOrder'
  OBVIOUS
<1>6. order \in [1 .. Cardinality(D) -> D] /\ \A i, j \in DOMAIN order : order[i] = order[j] => i = j
  <2>1. D \subseteq Functions
    BY <1>2 DEF TInv, CircuitsOK, Built, CircuitOK
  <2>2. IsFiniteSet(D)
    BY <2>1, FiniteAssumption, FS_Subset
  <2>3. order = CHOOSE s \in [1 .. Cardinality(D) -> D] : \A i, j \in DOMAIN s : s[i] = s[j] => i = j
    BY <1>1, <1>2, <1>5 DEF SearchOrder
  <2>4. \E s \in [1 .. Cardinality(D) -> D] : \A i, j \in DOMAIN s : s[i] = s[j] => i = j
    BY <2>2, OrderExists
  <2> QED
    BY Zenon, <2>3, <2>4
<1>7. DOMAIN SearchCircuits = D /\ \A f \in D : SearchCircuits[f] = CircuitsIn(circuits[f].code)
  BY <1>2 DEF SearchCircuits
<1>8. order \in Search!Orders(DOMAIN SearchCircuits)
  <2>1. order \in Search!Orders(D)
    BY <1>6 DEF Search!Orders, Search!Cardinality, Cardinality
  <2> QED
    BY <2>1, <1>7
<1>9. SearchProgram' = [i \in DOMAIN order |-> <<order[i], SearchCircuits[order[i]]>>]
                         \o <<<<"entry", Search!Top.gates>>>>
  <2>1. SearchProgram' =
           [i \in DOMAIN order |-> <<order[i], CircuitsIn(program'.circuits[order[i]].code)>>]
              \o <<<<"entry", CircuitsIn(program'.code)>>>>
    BY <1>1, <1>5 DEF SearchProgram
  <2>2. \A i \in DOMAIN order :
           CircuitsIn(program'.circuits[order[i]].code) = SearchCircuits[order[i]]
    BY <1>1, <1>6, <1>7
  <2>3. [i \in DOMAIN order |-> <<order[i], CircuitsIn(program'.circuits[order[i]].code)>>]
           = [i \in DOMAIN order |-> <<order[i], SearchCircuits[order[i]]>>]
    BY <2>2
  <2> QED
    BY <2>1, <2>3, <1>4
<1>10. UNCHANGED <<SearchCalls, module.defined, SearchStack, SearchCircuits>>
  BY <1>1 DEF SearchCalls, SearchStack, SearchFrame, SearchCircuits, Fun
<1>11. SearchStatus' = "done"
  <2>1. Entry \in module.defined
    BY <1>1, TopFacts, StackMaps
  <2> QED
    BY <2>1, <1>1 DEF SearchStatus
<1> QED
  BY <1>3, <1>8, <1>9, <1>10, <1>11 DEF Search!Finish

(* Before the bodies: the search has its entry point, if the module defines *)
(* it, and waits.                                                           *)
Waiting == status \in {"started", "read", "found", "constants"}

LEMMA WaitingMaps ==
    ASSUME TInv, Waiting
    PROVE  /\ Entry \in module.defined =>
                 SearchStatus = "running" /\ SearchStack = <<Search!Frame(Entry)>>
           /\ Entry \notin module.defined => SearchStack = <<>>
           /\ stack = <<>> /\ circuits = <<>>
BY DEF TInv, Prepared, Waiting, SearchStatus, SearchStack, Search!Frame

LEMMA ReadMaps == TInv /\ TInv' /\ (Read \/ FindEntry \/ PrimeConstants \/ PrimeParameters)
                     => Search!Fail \/ UNCHANGED Search!vars
<1> SUFFICES ASSUME TInv, TInv', Read \/ FindEntry \/ PrimeConstants \/ PrimeParameters
             PROVE  Search!Fail \/ UNCHANGED Search!vars
  OBVIOUS
<1>1. /\ Waiting /\ UNCHANGED <<module, circuits>> /\ status # "done" /\ status' # "done"
      /\ Waiting' \/ status' = "running"
           \/ status' \in {"InvalidLLVMByteCode", "NoEntryPoint", "UnsupportedFloatType",
                            "UnsupportedParameterType"}
  BY DEF Read, FindEntry, PrimeConstants, PrimeParameters, Goto, Waiting
<1>2. UNCHANGED <<SearchCalls, module.defined, SearchCircuits, SearchProgram>>
  BY <1>1, RestStays
<1>3. stack = <<>>
  BY <1>1, WaitingMaps
<1>4. \/ stack' = <<>>
      \/ status = "constants" /\ stack' = <<Frame(Entry)>> /\ status' = "running"
  BY <1>3 DEF Read, FindEntry, PrimeConstants, PrimeParameters, Goto
<1>5. SearchStack' = SearchStack
  <2>1. CASE stack' = <<>>
    BY <2>1, <1>1, <1>3 DEF SearchStack
  <2>2. CASE status = "constants" /\ stack' = <<Frame(Entry)>> /\ status' = "running"
    <3>1. PICK m \in Modules : m = module
      BY DEF TInv
    <3>2. PICK fr : fr = Frame(Entry)
      OBVIOUS
    <3>3. stack' = Append(<<>>, fr) /\ stack' # <<>>
      BY <2>2, <3>2
    <3>4. SearchStack' = Mapped(m, Append(<<>>, fr))
      BY <3>1, <3>3, <1>1, StackMapsNext
    <3>5. Listed(<<>>, 0)
      BY DEF Listed
    <3>6. MapsAppend(m, <<>>, fr)
      BY <3>5, MappedAppend
    <3>7. Mapped(m, <<>>) = <<>>
      BY DEF Mapped
    <3>8. FrameIn(m, fr) = Search!Frame(Entry)
      BY <3>1, <3>2, FreshMaps, EntryAssumption
    <3>9. SearchStack' = <<Search!Frame(Entry)>>
      BY <3>4, <3>6, <3>7, <3>8 DEF MapsAppend
    <3>10. Entry \in module.defined
      BY <2>2 DEF TInv, Prepared
    <3> QED
      BY <3>9, <3>10, <1>1, WaitingMaps
  <2> QED
    BY <2>1, <2>2, <1>4
<1>6. CASE Entry \notin module.defined
  BY <1>1, <1>2, <1>5, <1>6 DEF SearchStatus, Search!vars
<1>7. CASE Entry \in module.defined
  <2>1. SearchStatus = "running"
    BY <1>1, <1>7, WaitingMaps
  <2>2. SearchStatus' \in {"running", "error"}
    BY <1>1, <1>7 DEF SearchStatus, Waiting
  <2> QED
    BY <2>1, <2>2, <1>2, <1>5 DEF Search!Fail, Search!vars
<1> QED
  BY <1>6, <1>7

LEMMA StartMaps == Init => Search!Init
<1> SUFFICES ASSUME Init PROVE Search!Init
  OBVIOUS
<1>1. /\ module \in Modules /\ stack = <<>> /\ circuits = <<>> /\ status = "started"
  BY DEF Init
<1>2. WellFormed(module)
  BY <1>1, ModulesAssumption
<1>3. module.defined \in SUBSET Functions
  BY <1>2 DEF WellFormed
<1>4. ASSUME NEW f \in Functions
      PROVE  CalleesIn(Fun(f).body) \in Search!Bodies
  <2>1. PICK fun, n : fun = module.functions[f] /\ n = Len(fun.body)
    OBVIOUS
  <2>2. PICK cs, l : cs = CalleesIn(fun.body) /\ l = Len(cs)
    OBVIOUS
  <2>3. l \in 0 .. MaxBody /\ cs \in [1 .. l -> Functions]
    BY <2>1, <2>2, <1>1, CallsCounted
  <2>4. cs \in Search!Bodies
    BY <2>3 DEF Search!Bodies
  <2> QED
    BY <2>1, <2>2, <2>4 DEF Fun
<1>5. <<>> \in Search!Bodies
  <2>1. <<>> \in [1 .. 0 -> Functions] /\ 0 \in 0 .. MaxBody
    BY LimitsAssumption
  <2> QED
    BY <2>1 DEF Search!Bodies
<1>6. SearchCalls \in [Functions -> Search!Bodies]
  BY <1>4, <1>5 DEF SearchCalls
<1>7. \A f \in Functions \ module.defined : SearchCalls[f] = <<>>
  BY DEF SearchCalls
<1>8. SearchStack = IF Entry \in module.defined THEN <<Search!Frame(Entry)>> ELSE <<>>
  BY <1>1 DEF SearchStack, Search!Frame
<1>9. SearchCircuits = <<>> /\ SearchProgram = <<>>
  BY <1>1 DEF SearchCircuits, SearchProgram
<1>10. SearchStatus = IF Entry \in module.defined THEN "running" ELSE "UndefinedEntryPoint"
  BY <1>1 DEF SearchStatus
<1> QED
  BY <1>3, <1>6, <1>7, <1>8, <1>9, <1>10 DEF Search!Init

LEMMA NothingMoves == UNCHANGED vars => UNCHANGED Search!vars
<1> SUFFICES ASSUME UNCHANGED vars PROVE UNCHANGED Search!vars
  OBVIOUS
<1>1. UNCHANGED <<module, stack, circuits, program, status>>
  BY DEF vars
<1>2. UNCHANGED <<SearchCalls, module.defined, SearchStack, SearchCircuits, SearchStatus>>
  BY <1>1 DEF SearchCalls, SearchStack, SearchFrame, SearchCircuits, SearchStatus, Fun
<1>3. SearchOrder' = SearchOrder
  BY <1>1 DEF SearchOrder
<1>4. SearchProgram' = SearchProgram
  BY <1>1, <1>3 DEF SearchProgram
<1> QED
  BY <1>2, <1>4 DEF Search!vars

LEMMA StepMaps == NoGateNamed /\ TInv /\ TInv' /\ [Next]_vars => [Search!Next]_(Search!vars)
<1> SUFFICES ASSUME NoGateNamed, TInv, TInv', [Next]_vars
             PROVE  Search!Next \/ UNCHANGED Search!vars
  OBVIOUS
<1>1. CASE Read \/ FindEntry \/ PrimeConstants \/ PrimeParameters
  BY <1>1, ReadMaps DEF Search!Next
<1>2. CASE Allocate
  BY <1>2, AllocateUnseen
<1>3. CASE Gate
  BY <1>3, GateUnseen
<1>4. CASE Measure
  BY <1>4, MeasureUnseen
<1>5. CASE Call
  BY <1>5, CallMaps DEF Search!Next
<1>6. CASE Descend
  BY <1>6, DescendMaps DEF Search!Next
<1>7. CASE Overflow
  BY <1>7, OverflowMaps DEF Search!Next
<1>8. CASE Missing
  BY <1>8, MissingMaps DEF Search!Next
<1>9. CASE ReturnConstant
  BY <1>9, ReturnConstantMaps DEF Search!Next
<1>10. CASE Return
  BY <1>10, ReturnMaps DEF Search!Next
<1>11. CASE Finish
  BY <1>11, FinishMaps DEF Search!Next
<1>12. CASE UNCHANGED vars
  BY <1>12, NothingMoves
<1> QED
  BY <1>1, <1>2, <1>3, <1>4, <1>5, <1>6, <1>7, <1>8, <1>9, <1>10, <1>11, <1>12 DEF Next

(* Whatever a body holds, translate_module, translate_function_body and the *)
(* translation of calls (function.rs) go through the call graph as Circuits *)
(* says, provided that no function has the name of a gate.                  *)
THEOREM Searches ==
    ASSUME NoGateNamed
    PROVE  Spec => ImplementsSearch
<1>1. Init => Search!Init
  BY StartMaps
<1>2. TInv /\ TInv' /\ [Next]_vars => [Search!Next]_(Search!vars)
  BY StepMaps
<1> QED
  BY <1>1, <1>2, Translates, PTL DEF Spec, ImplementsSearch, Search!Spec

-----------------------------------------------------------------------------
(* What is proved of a search holds of the run of the whole translator. The *)
(* theorems are about the modules that CircuitsProofs extends; Found is     *)
(* Search with them.                                                        *)

Found == INSTANCE CircuitsProofs WITH
    MaxCalls <- MaxBody,        calls    <- SearchCalls,
    defined  <- module.defined, stack    <- SearchStack,
    circuits <- SearchCircuits, program  <- SearchProgram,
    status   <- SearchStatus

LEMMA SearchFound == Search!Spec => Found!Spec
<1>1. Search!Init => Found!Init
  BY Zenon DEF Search!Init, Found!Init, Search!Bodies, Found!Bodies, Search!Frame,
       Found!Frame
<1>2. Search!Apply => Found!Apply
  BY Zenon DEF Search!Apply, Found!Apply, Search!AtCall, Found!AtCall, Search!Callee,
       Found!Callee, Search!Top, Found!Top, Search!Below, Found!Below, Search!Applied,
       Found!Applied
<1>3. Search!Descend => Found!Descend
  BY Zenon DEF Search!Descend, Found!Descend, Search!AtCall, Found!AtCall, Search!Callee,
       Found!Callee, Search!Top, Found!Top, Search!Frame, Found!Frame
<1>4. Search!Overflow => Found!Overflow
  BY Zenon DEF Search!Overflow, Found!Overflow, Search!AtCall, Found!AtCall,
       Search!Callee, Found!Callee, Search!Top, Found!Top
<1>5. Search!Missing => Found!Missing
  BY Zenon DEF Search!Missing, Found!Missing, Search!AtCall, Found!AtCall, Search!Callee,
       Found!Callee, Search!Top, Found!Top
<1>6. Search!Return => Found!Return
  BY Zenon DEF Search!Return, Found!Return, Search!AtCall, Found!AtCall, Search!Top,
       Found!Top, Search!Below, Found!Below, Search!Applied, Found!Applied
<1>7. Search!Fail => Found!Fail
  BY Zenon DEF Search!Fail, Found!Fail, Search!AtCall, Found!AtCall, Search!Top, Found!Top
<1>8. Search!Finish => Found!Finish
  BY Zenon DEF Search!Finish, Found!Finish, Search!AtCall, Found!AtCall, Search!Top,
       Found!Top, Search!Orders, Found!Orders, Search!Cardinality, Found!Cardinality
<1>9. [Search!Next]_(Search!vars) => [Found!Next]_(Found!vars)
  BY Zenon, <1>2, <1>3, <1>4, <1>5, <1>6, <1>7, <1>8 DEF Search!Next, Found!Next, Search!vars, Found!vars
<1> QED
  BY <1>1, <1>9, PTL DEF Search!Spec, Found!Spec

(* The assumptions of Circuits hold of the whole translator. *)
LEMMA FoundFinite == IsFiniteSet(Functions) => Found!IsFiniteSet(Functions)
BY Zenon DEF IsFiniteSet, Found!IsFiniteSet

LEMMA FoundFacts ==
    /\ Found!Spec => []Found!IInv
    /\ Found!Spec => []Found!RInv
    /\ Found!Spec => []Found!DepthBounded
    /\ Found!Spec => []Found!StopsForCause
<1>1. /\ Entry \in Functions /\ Found!IsFiniteSet(Functions)
      /\ MaxBody \in Nat /\ StackLimit \in Nat \ {0}
  BY EntryAssumption, FiniteAssumption, LimitsAssumption, FoundFinite
<1>2. Found!Spec => []Found!IInv
  BY <1>1, Found!Invariance
<1>3. Found!Spec => []Found!RInv
  BY <1>1, Found!ReachedInvariance
<1>4. Found!Spec => []Found!DepthBounded
  BY <1>1, Found!Bounded
<1>5. Found!Spec => []Found!StopsForCause
  BY <1>1, Found!Justified
<1> QED
  BY <1>2, <1>3, <1>4, <1>5

LEMMA AnswerFits ==
    ASSUME TInv, Found!IInv, Found!RInv, Found!DepthBounded, Found!StopsForCause
    PROVE  AnswerJustified
<1>1. Search!Reach(Entry) = Found!Reach(Entry) /\ (Search!Recursive <=> Found!Recursive)
  BY Zenon DEF Search!Reach, Found!Reach, Search!Recursive, Found!Recursive,
     Search!Callees, Found!Callees, Search!CallsWithin, Found!CallsWithin
<1>2. status \in {"done", "overflow", "MissingFunctionDefinition"} => SearchStatus = status
  <2>1. SUFFICES ASSUME status \in {"done", "overflow", "MissingFunctionDefinition"}
                 PROVE  SearchStatus = status
    OBVIOUS
  <2>2. stack # <<>>
    BY <2>1 DEF TInv, Prepared
  <2>3. Entry \in module.defined
    BY <2>2, StackMaps
  <2> QED
    BY <2>1, <2>3 DEF SearchStatus
<1>3. ASSUME status = "done"
      PROVE  DOMAIN program.circuits = Search!Reach(Entry) /\ ~Search!Recursive
  <2>1. DOMAIN SearchCircuits = Found!Reach(Entry)
    <3>1. /\ Entry \in Functions /\ Found!IsFiniteSet(Functions)
          /\ MaxBody \in Nat /\ StackLimit \in Nat \ {0}
      BY EntryAssumption, FiniteAssumption, LimitsAssumption, FoundFinite
    <3> QED
      BY <3>1, <1>2, <1>3, Found!ReachedAtEnd
  <2>2. program.circuits = circuits
    BY <1>3 DEF TInv, OutputOK
  <2>3. DOMAIN SearchCircuits = DOMAIN circuits
    BY DEF SearchCircuits
  <2> QED
    BY <1>1, <1>2, <1>3, <2>1, <2>2, <2>3 DEF Found!DepthBounded
<1>4. ASSUME status = "overflow", StackLimit >= Cardinality(Functions)
      PROVE  Search!Recursive
  <2>1. Cardinality(Functions) = Found!Cardinality(Functions)
    BY Zenon DEF Cardinality, Found!Cardinality
  <2> QED
    BY <1>1, <1>2, <1>4, <2>1 DEF Found!StopsForCause
<1>5. ASSUME status = "MissingFunctionDefinition"
      PROVE  ~(Search!Reach(Entry) \subseteq module.defined)
  BY <1>1, <1>2, <1>5 DEF Found!StopsForCause
<1> QED
  BY <1>3, <1>4, <1>5 DEF AnswerJustified

(* Whatever a module holds, what translate_module answers fits it: the      *)
(* circuits of a program (translate/mod.rs) are those of the functions that *)
(* the entry point leads to, and an overflow or a missing body has its      *)
(* cause in the calls of the module (function.rs:506-513).                  *)
THEOREM Justified ==
    ASSUME NoGateNamed
    PROVE  Spec => []AnswerJustified
<1>1. TInv /\ Found!IInv /\ Found!RInv /\ Found!DepthBounded /\ Found!StopsForCause
         => AnswerJustified
  BY AnswerFits
<1>2. Spec => Found!Spec
  BY Searches, SearchFound, PTL DEF ImplementsSearch
<1> QED
  BY <1>1, <1>2, FoundFacts, Translates, PTL
=============================================================================
