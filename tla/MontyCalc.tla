----------------------------- MODULE MontyCalc -----------------------------
(* A program that calls the modular arithmetic of MIRACL on its residues, the *)
(* operands of a call chosen with every overlap, and what the library makes   *)
(* of the call: the algorithms of MiraclMonty and MiraclRoots run on the      *)
(* words of the numbers.  The state is what the program holds; the library's  *)
(* memory is built from it for every call, its scratch numbers holding        *)
(* whatever an earlier call left there.                                       *)
EXTENDS MiraclRoots, TLC

CONSTANTS Reg,          \* the residues of the program
          Programs      \* the programs of the run: the moduli they start with, what the
                        \* residue a and the rest hold, the operations they call and the
                        \* moduli, integers, factors, indices they call them with

VARIABLES program,
          modulus,      \* the modulus that is set, 0 before there is one
          rep,          \* its residues, as the library represents them
          call          \* the operation it calls, with its operands

vars == <<program, modulus, rep, call>>
NoCall == [op |-> "none", a |-> <<>>]
Field == INSTANCE FieldCalc WITH Beyond <- TooBig

Init == /\ program \in Programs
        /\ modulus \in program.moduli
        /\ rep \in [Reg -> program.a \union program.rest]
        /\ \A r \in Reg : /\ rep[r] \in IF r = "a" THEN program.a ELSE program.rest
                          /\ rep[r] < modulus \/ rep[r] = 0
        /\ call = NoCall

Called(op, args) == /\ call = NoCall /\ op \in program.ops
                    /\ modulus = 0 => op \in {"prepare", "nres", "sqroot", "lucas"}
                    /\ call' = [op |-> op, a |-> args]
                    /\ UNCHANGED <<program, modulus, rep>>
Prime(n) == n > 1 /\ \A d \in 2 .. n - 1 : n % d # 0

CallPrepare(n) == Called("prepare", <<n>>)
CallNres(n, z) == Called("nres", <<n, z>>)
CallRedc(x) == Called("redc", <<x>>)
CallBinary(x, w) == \E op \in {"negate", "div2", "div3", "div5"} : Called(op, <<x, w>>)
CallTernary(x, y, w) == \E op \in {"modadd", "modsub", "modmult", "moddiv"} : Called(op, <<x, y, w>>)
CallPremult(x, k, w) == Called("premult", <<x, k, w>>)
\* The source divides by products and takes roots modulo primes alone.
CallDoubleInverse(x, y, w, z) == Prime(modulus) /\ y \notin {x, w} /\ Called("double_inverse", <<x, y, w, z>>)
CallMultiInverse(x) == Prime(modulus) /\ Called("multi_inverse", x)
CallComplex(a, b, r, i) == r \notin {b, i} /\ Called("complex", <<a, b, r, i>>)
CallLazy(a0, a1, b0, b1, r, i) == r # i /\ Called("lazy", <<a0, a1, b0, b1, r, i>>)
CallNresSqroot(x, w) == Prime(modulus) /\ Called("nres_sqroot", <<x, w>>)
\* The first result must not be P: it is written before P is copied when r is 1.
CallNresLucas(P, r, vp, v) == vp # P /\ Called("nres_lucas", <<P, r, vp, v>>)
CallSqroot(x, p) == (Prime(p) \/ p < 2 \/ p % 2 = 0) /\ Called("sqroot", <<x, p>>)
CallLucas(P, r, p) == p > 1 /\ Called("lucas", <<P, r, p>>)

Next ==
  \/ \E n \in program.newModuli : CallPrepare(n)
  \/ \E n \in program.integers, z \in Reg : CallNres(n, z)
  \/ \E x \in Reg : CallRedc(x)
  \/ \E x, w \in Reg : CallBinary(x, w)
  \/ \E x, y, w \in Reg : CallTernary(x, y, w)
  \/ \E x, w \in Reg, k \in program.factors : CallPremult(x, k, w)
  \/ \E x, y, w, z \in Reg : CallDoubleInverse(x, y, w, z)
  \/ \E x \in UNION {[1 .. k -> Reg] : k \in 1 .. 3} : CallMultiInverse(x)
  \/ \E a, b, r, i \in Reg : CallComplex(a, b, r, i)
  \/ \E a0, a1, b0, b1, r, i \in Reg : CallLazy(a0, a1, b0, b1, r, i)
  \/ \E x, w \in Reg : CallNresSqroot(x, w)
  \/ \E P, vp, v \in Reg, r \in program.indices : CallNresLucas(P, r, vp, v)
  \/ \E x \in program.integers, p \in program.newModuli : CallSqroot(x, p)
  \/ \E P \in program.integers, r \in program.indices, p \in program.newModuli : CallLucas(P, r, p)

Spec == Init /\ [][Next]_vars

-----------------------------------------------------------------------------
(* The library.                                                               *)
Scratch == {"w0", "w1", "w2", "w3", "w4", "w5", "w6", "w8", "w9", "w10", "w11", "w14", "w15",
            "n", "k", "t1", "t2", "t3"}
Full == [w |-> [i \in Idx |-> B - 1], len |-> Ext, neg |-> TRUE]
With(m, name, n) == [m EXCEPT !.r[name] = OfInt(n)]
\* What mirsys() leaves, and what prepare_monty() makes of it.
Fresh == [r |-> [s \in Reg \union Scratch \union {"modulus", "pR", "one"} |-> Zero],
          ndash |-> 0, NO_CARRY |-> FALSE, qnr |-> 0, pmod8 |-> 0, ERNUM |-> 0, check |-> TRUE]
Prepared == {<<p, IF p = 0 THEN Fresh ELSE prepare_monty(With(Fresh, "n", p), "n")>> :
             p \in UNION {q.moduli : q \in Programs}}
Memory(junk) == LET m == (CHOOSE t \in Prepared : t[1] = modulus)[2]
                IN  [m EXCEPT !.r = [r \in Reg |-> OfInt(rep[r])] @@ [s \in Scratch |-> junk] @@ m.r]

\* The residue a number stands for: B^len(modulus) taken out again.
Elem(b, N) == LET n == Value(N)
                  r == CHOOSE r \in 0 .. n - 1 : (r * BTo[N.len]) % n = 1
              IN  IF n = 0 THEN 0 ELSE (Value(b) * r) % n

\* The memory with the integers the call c brings along in it.
Given(c, m) ==
  LET a == c.a
  IN  CASE c.op \in {"prepare", "nres"} -> With(m, "n", a[1])
        [] c.op = "nres_lucas" -> With(m, "n", a[2])
        [] c.op = "sqroot" -> With(With(m, "n", a[2]), "k", a[1])
        [] c.op = "lucas" -> With(With(With(m, "n", a[3]), "k", a[2]), "t3", a[1])
        [] OTHER -> m
\* A call run on the memory m, that holds its integers, with the operands a: the
\* memory it leaves, and what it answers: its result, and what it put in numbers
\* that are not among the residues; after an error they mean nothing.
Ran(n, ret) == [m |-> n, ret |-> IF n.ERNUM = 0 THEN ret ELSE 0]
Done(n)     == Ran(n, 0)

Prepare(m, a)  == Done(prepare_monty(m, "n"))
Nres(m, a)     == Done(nres(m, "n", a[2]))
Redc(m, a)     == LET n == redc(m, a[1], "n") IN Ran(n, Value(n.r["n"]))
ModAdd(m, a)   == Done(nres_modadd(m, a[1], a[2], a[3]))
ModSub(m, a)   == Done(nres_modsub(m, a[1], a[2], a[3]))
ModMult(m, a)  == Done(nres_modmult(m, a[1], a[2], a[3]))
ModDiv(m, a)   == Ran(nres_moddiv(m, a[1], a[2], a[3]), moddiv_gcd(m, a[1], a[2]))
Negate(m, a)   == Done(nres_negate(m, a[1], a[2]))
Div2(m, a)     == Done(nres_div2(m, a[1], a[2]))
Div3(m, a)     == Done(nres_div3(m, a[1], a[2]))
Div5(m, a)     == Done(nres_div5(m, a[1], a[2]))
Premult(m, a)  == Done(nres_premult(m, a[1], a[2], a[3]))
DoubleInverse(m, a) == Done(nres_double_inverse(m, a[1], a[2], a[3], a[4]))
Targets == <<"t1", "t2", "t3">>
MultiInverse(m, a) ==
  LET n == nres_multi_inverse(m, a, Targets)
  IN  Ran(n, [i \in DOMAIN a |-> Elem(n.r[Targets[i]], n.r["modulus"])])
Complex(m, a)    == Done(nres_complex(m, a[1], a[2], a[3], a[4]))
Lazy(m, a)       == Done(nres_lazy(m, a[1], a[2], a[3], a[4], a[5], a[6]))
NresSqroot(m, a) == Ran(nres_sqroot(m, a[1], a[2]), sqroot_ok(m, a[1], a[2]))
NresLucas(m, a)  == Done(nres_lucas(m, a[1], "n", a[3], a[4]))
Sqroot(m, a)     == LET n == sqroot(m, "k", "n", "t1") IN Ran(n, <<sqroot_ret(m, "k", "n", "t1"), Value(n.r["t1"])>>)
LucasOf(m, a)    == LET n == lucas(m, "t3", "k", "n", "t1", "t2") IN Ran(n, <<Value(n.r["t1"]), Value(n.r["t2"])>>)

Run(c, m) ==
  CASE c.op = "prepare" -> Prepare(m, c.a)     [] c.op = "nres" -> Nres(m, c.a)
    [] c.op = "redc" -> Redc(m, c.a)           [] c.op = "modadd" -> ModAdd(m, c.a)
    [] c.op = "modsub" -> ModSub(m, c.a)       [] c.op = "modmult" -> ModMult(m, c.a)
    [] c.op = "moddiv" -> ModDiv(m, c.a)       [] c.op = "negate" -> Negate(m, c.a)
    [] c.op = "div2" -> Div2(m, c.a)           [] c.op = "div3" -> Div3(m, c.a)
    [] c.op = "div5" -> Div5(m, c.a)           [] c.op = "premult" -> Premult(m, c.a)
    [] c.op = "double_inverse" -> DoubleInverse(m, c.a)
    [] c.op = "multi_inverse" -> MultiInverse(m, c.a)
    [] c.op = "complex" -> Complex(m, c.a)     [] c.op = "lazy" -> Lazy(m, c.a)
    [] c.op = "nres_sqroot" -> NresSqroot(m, c.a) [] c.op = "nres_lucas" -> NresLucas(m, c.a)
    [] c.op = "sqroot" -> Sqroot(m, c.a)       [] c.op = "lucas" -> LucasOf(m, c.a)

-----------------------------------------------------------------------------
(* Properties.                                                                *)
Residues(m) == [r \in Reg |-> Elem(m.r[r], m.r["modulus"])]

\* Every call has the meaning the abstract field gives it, whatever the scratch
\* numbers held: representation, the two carries of redc, the sums that go
\* unreduced when the modulus leaves room, overlapping operands and the exponents
\* of the roots all work out (mrmonty.c, mrsroot.c, mrlucas.c).
Implements ==
  [][\A junk \in {Zero, Full}, c \in {call'} :
       \A m \in {Given(c, Memory(junk))} :
         \A ran \in {Run(c, m)}, v \in {Residues(m)} :
           IF ran.m.ERNUM # 0 THEN Field!MayFail(c, v, modulus)
           ELSE \A w \in {Residues(ran.m)} :
                  Field!MayReturn(c, v, modulus, w, Value(ran.m.r["modulus"]), ran.ret)]_vars

\* A call that raises no error leaves residues below the modulus that is set,
\* without a sign and clean above their length: what nres_modadd, nres_negate and
\* redc take for granted when they correct by one subtraction; and the overflow
\* check is on again.
Reduced ==
  [][\A junk \in {Zero, Full}, c \in {call'} :
       \A n \in {Run(c, Given(c, Memory(junk))).m} :
         n.ERNUM = 0 =>
           /\ n.check
           /\ \A r \in Reg : /\ CleanTail(n.r[r]) /\ Canonical(n.r[r]) /\ ~n.r[r].neg
                             /\ Value(n.r["modulus"]) = modulus => Value(n.r[r]) < modulus]_vars
=============================================================================
