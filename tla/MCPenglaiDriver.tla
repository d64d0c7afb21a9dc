-------------------------- MODULE MCPenglaiDriver --------------------------
(* Small instances of PenglaiDriver: payloads of two parts over four chunks *)
(* of memory, two threads.                                                  *)
EXTENDS PenglaiDriver

CONSTANTS t1, t2, a, b

BinDtb(x, y) == [q \in Parts |-> IF q = "bin" THEN x ELSE y]

Struct(s, binAddr, binSize, dtbAddr, dtbSize) ==
    [src |-> BinDtb(s, s), size |-> BinDtb(binSize, dtbSize),
     addr |-> BinDtb(binAddr, dtbAddr), css |-> Nothing, cssSize |-> 2]

Sign(p) == [p EXCEPT !.css = Payload(p)]

\* A good payload, and one whose bin lies inside the bin of the first, while its
\* dtb goes over memory of the host and ends where nothing is mapped.
First == Sign(Struct(a, 0, 2, 2, 1))
Astray == Sign(Struct(b, 1, 1, 4, 2))

\* A dtb as large as a css, and the ways a struct can be wrong: the dtb is
\* placed over its own bin, the css is for other addresses, the css file is
\* cut short, the dtb is smaller than a css (First).
Plain == Sign(Struct(a, 0, 2, 2, 2))
Folded == Sign(Struct(a, 0, 2, 1, 2))
Moved == [Struct(a, 1, 2, 2, 2) EXCEPT !.css = Payload(Plain)]
ShortCss == [Plain EXCEPT !.cssSize = 1]

MCFrame == 0 .. 3
MCHost == {4}
GoodAndAstray == {First, Astray}
AllStructs == {Plain, Folded, Moved, ShortCss, First}

\* The monitor answers with the error in both words, or in the first alone.
Refusal == {[error |-> -1, value |-> -1]}
RefusalInError == {[error |-> -1, value |-> 0]}
=============================================================================
