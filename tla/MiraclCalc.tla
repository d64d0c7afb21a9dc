----------------------------- MODULE MiraclCalc -----------------------------
(* A program that calls the arithmetic of MIRACL on its numbers, the operands *)
(* of a call chosen with every overlap, and what the library makes of the     *)
(* call: the algorithms of MiraclBig, MiraclArith, MiraclPowers and           *)
(* MiraclEuclid run on the words of the numbers.  The state is what the       *)
(* program knows; the library's memory is built from it for every call, its   *)
(* scratch numbers holding whatever an earlier call left there.               *)
EXTENDS MiraclEuclid, TLC

CONSTANTS Reg,          \* the numbers of the program
          Programs      \* the programs of the run: what their numbers a and the rest
                        \* hold, the operations they call, and the small integers,
                        \* shifts, exponents, octet strings, words they call them with

Scratch == {"w0", "w1", "w2", "w3", "w4", "w5", "w6"}
Numbers == -(BTo[nib] - 1) .. BTo[nib] - 1
ASSUME ProgramsAssumption ==
  /\ Reg \intersect Scratch = {}
  /\ \A p \in Programs : /\ p.a \subseteq Numbers /\ p.rest \subseteq Numbers
                         /\ p.small \subseteq -(B - 1) .. B - 1

VARIABLES program,
          val,          \* the integers its numbers stand for
          call          \* the operation it calls, with its operands

vars == <<program, val, call>>
NoCall == [op |-> "none", a |-> <<>>]
Integer == INSTANCE IntegerCalc WITH Limit <- BTo[nib], Tight <- BTo[nib - 1], ByteBase <- 2^ByteBits, Beyond <- TooBig

Init == /\ program \in Programs
        /\ val \in [Reg -> program.a \union program.rest]
        /\ \A r \in Reg : val[r] \in IF r = "a" THEN program.a ELSE program.rest
        /\ call = NoCall

Called(op, args) == /\ call = NoCall /\ op \in program.ops
                    /\ call' = [op |-> op, a |-> args]
                    /\ UNCHANGED <<program, val>>

CallUnary(x) == \E op \in {"logb2", "hamming"} : Called(op, <<x>>)
CallBinary(x, z) == \E op \in {"copy", "negify", "absol", "compare", "divisible", "jack"} : Called(op, <<x, z>>)
CallTernary(x, y, z) ==
  \E op \in {"add", "subtract", "multiply", "divide", "mr_and", "mr_xor", "invmodp"} : Called(op, <<x, y, z>>)
CallConvert(n, z) == Called("convert", <<n, z>>)
CallBySmall(x, n, z) == \E op \in {"incr", "decr", "premult", "subdiv"} : Called(op, <<x, n, z>>)
CallRemain(x, n) == Called("remain", <<x, n>>)
CallShift(x, k, z) == Called("sftbit", <<x, k, z>>) \/ (k % W = 0 /\ Called("mr_shift", <<x, k, z>>))
CallExpB2(k, z) == Called("expb2", <<k, z>>)
CallTestBit(x, k) == k >= 0 /\ Called("testbit", <<x, k>>)
CallExpInt(k, n, z) == Called("expint", <<k, n, z>>)
CallPower(x, n, z, w) == (z # w => val[z] # 0) /\ Called("power", <<x, n, z, w>>)
CallNRoot(x, n, w) == Called("nroot", <<x, n, w>>)
CallBytesToBig(s, x) == Called("bytes_to_big", <<x, s>>)
CallBigToBytes(max, x, justify) == Called("big_to_bytes", <<x, max, justify>>)
\* The quotient is asked for only where it fits a number.
CallMad(x, y, z, w, q, r) == /\ q = w \/ Abs(val[x] * val[y]) + BTo[nib] < BTo[nib] * Abs(val[w])
                             /\ Called("mad", <<x, y, z, w, q, r>>)
CallXGcd(x, y, xd, yd, z) == Called("xgcd", <<x, y, xd, yd, z>>)
CallIGcd(x, y) == Called("igcd", <<x, y>>)
CallISqrt(n, g) == Called("isqrt", <<n, g>>)

Next ==
  \/ \E x \in Reg : CallUnary(x)
  \/ \E x, z \in Reg : CallBinary(x, z)
  \/ \E x, y, z \in Reg : CallTernary(x, y, z)
  \/ \E z \in Reg, n \in program.small : CallConvert(n, z)
  \/ \E x, z \in Reg, n \in program.small : CallBySmall(x, n, z)
  \/ \E x \in Reg, n \in program.small : CallRemain(x, n)
  \/ \E x, z \in Reg, k \in program.shifts : CallShift(x, k, z)
  \/ \E z \in Reg, k \in program.shifts : CallExpB2(k, z)
  \/ \E x \in Reg, k \in program.shifts : CallTestBit(x, k)
  \/ \E z \in Reg, k \in program.small, n \in program.exponents : CallExpInt(k, n, z)
  \/ \E x, z, w \in Reg, n \in program.exponents : CallPower(x, n, z, w)
  \/ \E x, w \in Reg, n \in program.exponents : CallNRoot(x, n, w)
  \/ \E x \in Reg, s \in program.octets : CallBytesToBig(s, x)
  \/ \E x \in Reg, n \in program.exponents, justify \in BOOLEAN : CallBigToBytes(n, x, justify)
  \/ \E x, y, z, w, q, r \in Reg : CallMad(x, y, z, w, q, r)
  \/ \E x, y, xd, yd, z \in Reg : CallXGcd(x, y, xd, yd, z)
  \/ \E x, y \in program.radicands : CallIGcd(x, y)
  \/ \E n \in program.radicands, g \in Word \ {0} : CallISqrt(n, g)

Spec == Init /\ [][Next]_vars

-----------------------------------------------------------------------------
(* The library.                                                               *)
Full == [w |-> [i \in Idx |-> B - 1], len |-> Ext, neg |-> TRUE]
\* The numbers of the program and scratch numbers that hold junk.
Memory(junk) == [r |-> [n \in Reg \union Scratch |-> IF n \in Reg THEN OfInt(val[n]) ELSE junk],
                 ERNUM |-> 0, check |-> TRUE]

\* A call run on the memory m with the operands a: the memory it leaves, and
\* what it returns.
Ran(n, ret) == [m |-> n, ret |-> ret]
Done(n)     == Ran(n, 0)

Convert(m, a)    == Done(convert(m, a[1], a[2]))
Copy(m, a)       == Done(copy(m, a[1], a[2]))
Negify(m, a)     == Done(negify(m, a[1], a[2]))
Absol(m, a)      == Done(absol(m, a[1], a[2]))
Add(m, a)        == Done(add(m, a[1], a[2], a[3]))
Subtract(m, a)   == Done(subtract(m, a[1], a[2], a[3]))
Incr(m, a)       == Done(incr(m, a[1], a[2], a[3]))
Decr(m, a)       == Done(decr(m, a[1], a[2], a[3]))
Premult(m, a)    == Done(premult(m, a[1], a[2], a[3]))
Subdiv(m, a)     == Ran(subdiv(m, a[1], a[2], a[3]), subdiv_rem(m, a[1], a[2]))
Remain(m, a)     == Ran(remain_mem(m, a[1], a[2]), remain(m, a[1], a[2]))
Multiply(m, a)   == Done(multiply(m, a[1], a[2], a[3]))
Divide(m, a)     == Done(divide(m, a[1], a[2], a[3]))
Divisible(m, a)  == Ran(divisible_mem(m, a[1], a[2]), IF divisible(m, a[1], a[2]) THEN 1 ELSE 0)
Mad(m, a)        == Done(mad(m, a[1], a[2], a[3], a[4], a[5], a[6]))
Shift(m, a)      == Done(mr_shift(m, a[1], Quot(a[2], W), a[3]))
SftBit(m, a)     == Done(sftbit(m, a[1], a[2], a[3]))
ExpB2(m, a)      == Done(expb2(m, a[1], a[2]))
AndWords(m, a)   == Done(mr_and(m, a[1], a[2], a[3]))
XorWords(m, a)   == Done(mr_xor(m, a[1], a[2], a[3]))
Compare(m, a)    == Ran(m, mr_compare(m, a[1], a[2]))
LogB2(m, a)      == Ran(m, logb2(m, a[1]))
TestBit(m, a)    == Ran(m, mr_testbit(m.r[a[1]], a[2]))
Hamming(m, a)    == Ran(m, hamming(m, a[1]))
ExpInt(m, a)     == Done(expint(m, a[1], a[2], a[3]))
Power(m, a)      == Done(power(m, a[1], a[2], a[3], a[4]))
NRoot(m, a)      == LET root == nroot(m, a[1], a[2], a[3]) IN Ran(root.m, IF root.exact THEN 1 ELSE 0)
BytesToBig(m, a) == Done(bytes_to_big(m, a[2], a[1]))
BigToBytes(m, a) == Ran(big_to_bytes_mem(m, a[2], a[1], a[3]), big_to_bytes(m, a[2], a[1], a[3]))
XGcd(m, a)       == Ran(xgcd(m, a[1], a[2], a[3], a[4], a[5]), xgcd_ret(m, a[1], a[2], a[3], a[4], a[5]))
InvModP(m, a)    == Ran(invmodp(m, a[1], a[2], a[3]), invmodp_ret(m, a[1], a[2], a[3]))
Jack(m, a)       == jack(m, a[1], a[2])
IGcd(m, a)       == Ran(m, WordGcd(a[1], a[2]))
ISqrt(m, a)      == Ran(m, WordSqrt(a[1], a[2]))

Run(c, m) ==
  CASE c.op = "convert" -> Convert(m, c.a)      [] c.op = "copy" -> Copy(m, c.a)
    [] c.op = "negify" -> Negify(m, c.a)        [] c.op = "absol" -> Absol(m, c.a)
    [] c.op = "add" -> Add(m, c.a)              [] c.op = "subtract" -> Subtract(m, c.a)
    [] c.op = "incr" -> Incr(m, c.a)            [] c.op = "decr" -> Decr(m, c.a)
    [] c.op = "premult" -> Premult(m, c.a)      [] c.op = "subdiv" -> Subdiv(m, c.a)
    [] c.op = "remain" -> Remain(m, c.a)        [] c.op = "multiply" -> Multiply(m, c.a)
    [] c.op = "divide" -> Divide(m, c.a)        [] c.op = "divisible" -> Divisible(m, c.a)
    [] c.op = "mad" -> Mad(m, c.a)              [] c.op = "mr_shift" -> Shift(m, c.a)
    [] c.op = "sftbit" -> SftBit(m, c.a)        [] c.op = "expb2" -> ExpB2(m, c.a)
    [] c.op = "mr_and" -> AndWords(m, c.a)      [] c.op = "mr_xor" -> XorWords(m, c.a)
    [] c.op = "compare" -> Compare(m, c.a)      [] c.op = "logb2" -> LogB2(m, c.a)
    [] c.op = "testbit" -> TestBit(m, c.a)      [] c.op = "hamming" -> Hamming(m, c.a)
    [] c.op = "expint" -> ExpInt(m, c.a)        [] c.op = "power" -> Power(m, c.a)
    [] c.op = "nroot" -> NRoot(m, c.a)          [] c.op = "bytes_to_big" -> BytesToBig(m, c.a)
    [] c.op = "big_to_bytes" -> BigToBytes(m, c.a) [] c.op = "xgcd" -> XGcd(m, c.a)
    [] c.op = "invmodp" -> InvModP(m, c.a)      [] c.op = "jack" -> Jack(m, c.a)
    [] c.op = "igcd" -> IGcd(m, c.a)            [] c.op = "isqrt" -> ISqrt(m, c.a)

-----------------------------------------------------------------------------
(* Properties.                                                                *)

\* A call run on the numbers of the program: it fails only where it may, and
\* otherwise gives every number and the answer the value the integers give them.
Exactly(c) ==
  \A junk \in {Zero, Full} :
    \A m \in {Memory(junk)} :
      \A ran \in {Run(c, m)} :
        IF ran.m.ERNUM # 0 THEN Integer!MayFail(c, val)
        ELSE \A w \in {[r \in Reg |-> Value(ran.m.r[r])]} :
               Integer!MayReturn(c, val, w, ran.ret)

\* Every number is made of words after the call; without an error, moreover, it
\* has its canonical form and fits, and the overflow check is on.
KeptForm(c) ==
  \A junk \in {Zero, Full} :
    \A n \in {Run(c, Memory(junk)).m} :
      \A r \in Reg : /\ n.r[r] \in Big
                     /\ n.ERNUM = 0 => /\ n.check /\ n.r[r].len <= nib
                                       /\ CleanTail(n.r[r]) /\ Canonical(n.r[r])

\* Copies, sums, differences, products, quotients and comparisons mean what the
\* integers say whatever the scratch numbers held: carries that ripple through every
\* word, borrows, the longer of two operands, operands that are the result, a square
\* computed on its own, quotient words guessed too large, and the sign bit kept in the
\* length all work out, and what is left has the form the next call relies on
\* (mrarth0.c, mrarth1.c, multiply, divide and divisible of mrarth2.c, mrcore.c).
BasicOps == {"copy", "negify", "absol", "compare", "convert", "add", "subtract", "incr", "decr",
             "premult", "subdiv", "remain", "multiply", "divide", "divisible"}
BasicsExact == [][call'.op \in BasicOps => Exactly(call') /\ KeptForm(call')]_vars

\* Every other call, too, has the meaning the integers give it, fails only where it
\* may, whatever the scratch numbers held, and leaves the kept form: a product longer
\* than a number divided at once, bounds on cofactors, shifts and overlapping operands
\* work out, and mr_padd, mr_xor, multiply and redc, which read words above a length
\* without looking, find them clear (mad of mrarth2.c, mrarth3.c, mrxgcd.c, mrjack.c,
\* mrcore.c).
Implements == [][call'.op \notin BasicOps => Exactly(call') /\ KeptForm(call')]_vars
=============================================================================
