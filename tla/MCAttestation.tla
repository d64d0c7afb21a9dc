--------------------------- MODULE MCAttestation ---------------------------
(* Two hosts challenge the same TEE and share one report file. *)
EXTENDS Attestation, FiniteSets, TLC

CONSTANTS h1, h2, n1, n2, c1, c2, im, key

Refusal == {[error |-> -1, value |-> -1]}

\* Bound: three reports are enough for a file torn from two and a third
\* that is whole.
FewReports == Cardinality(issued) <= 3

Symmetries == {[x \in {h1, h2, n1, n2, c1, c2} |->
                   IF x \in {h1, h2} THEN ph[x]
                   ELSE IF x \in {n1, n2} THEN pn[x] ELSE pc[x]] :
               ph \in Permutations({h1, h2}), pn \in Permutations({n1, n2}),
               pc \in Permutations({c1, c2})}
=============================================================================
