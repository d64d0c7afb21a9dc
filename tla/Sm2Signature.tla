---------------------------- MODULE Sm2Signature ----------------------------
(* SM2_sv.c on the integers and the points its numbers stand for: how a key    *)
(* comes to be, a signer whose nonce may be anything the generator gives, and  *)
(* a verifier that may be handed anything.                                    *)
EXTENDS Integers, Sequences

CONSTANTS Curve,        \* the parameters p, a, b of the curve
          Gx, Gy, N,    \* the base point and its order
          Messages,     \* what is signed (a bound of the run)
          Hash(_, _),   \* digest of ZA of a public key and of a message, below 2^256
          KeyFiles      \* the numbers key files hold (a bound of the run)

VARIABLES dA, PA,       \* the private key, -1 before there is one, and the public key
          generated,    \* it comes from SM2_KeyGeneration
          signed,       \* the last message, its R and S, and what SM2_Sign returned
          verdict       \* what SM2_Verify returned, -1 before

signatureVars == <<dA, PA, generated, signed, verdict>>
Group == INSTANCE CurveGroup WITH curve <- Curve

\* Numbers in range, a prime order (every number below it has an inverse), and a
\* group: what the fixed parameters of SM2 are.
ASSUME NumbersAssumption ==
  /\ Curve.p \in Nat \ {0} /\ Gx \in 0 .. Curve.p - 1 /\ Gy \in 0 .. Curve.p - 1
  /\ N \in Nat \ {0} /\ KeyFiles \subseteq Nat
  /\ \A z \in 1 .. N - 1 : \E i \in 1 .. N - 1 : (z * i) % N = 1
ASSUME GroupAssumption ==
  \A P, Q \in Group!Points :
    /\ Group!Sum(P, Q) \in Group!Points
    /\ \A R \in Group!Points : Group!Sum(Group!Sum(P, Q), R) = Group!Sum(P, Group!Sum(Q, R))
ASSUME HashAssumption ==
  \A P \in Group!Points \ {Group!O}, m \in Messages : Hash(P, m) \in Nat

ERR_ECURVE_INIT       == 1
ERR_INFINITY_POINT    == 2
ERR_NOT_VALID_POINT   == 3
ERR_ORDER             == 4
ERR_NOT_VALID_ELEMENT == 5
ERR_GENERATE_R        == 6
ERR_GENERATE_S        == 7
ERR_OUTRANGE_R        == 8
ERR_OUTRANGE_S        == 9
ERR_GENERATE_T        == 10
ERR_PUBKEY_INIT       == 11
ERR_DATA_MEMCMP       == 12

G == <<Gx, Gy>>
\* epoint_get gives zeros for the point at infinity.
Coordinates(P) == IF P = Group!O THEN <<0, 0>> ELSE P

SM2_Init == IF ~Group!On(Gx, Gy) THEN ERR_ECURVE_INIT
            ELSE IF Group!Multiple(N, G) # Group!O THEN ERR_ORDER ELSE 0

\* The first error of a list of tests that were run in its order.
FirstError(errors) ==
  LET e == {k \in DOMAIN errors : errors[k] # 0}
  IN  IF e = {} THEN 0 ELSE errors[CHOOSE k \in e : \A m \in e : k <= m]
Error(condition, code) == IF condition THEN code ELSE 0

Test_Point(P) == Group!On(P[1], P[2])
Test_PubKey(P) ==
  IF P = Group!O THEN ERR_INFINITY_POINT
  ELSE FirstError(<<Error(P[1] >= Curve.p \/ P[2] >= Curve.p, ERR_NOT_VALID_ELEMENT),
                    Error(~Test_Point(P), ERR_NOT_VALID_POINT),
                    Error(Group!Multiple(N, P) # Group!O, ERR_ORDER)>>)
Test_Range(x) == x < 1 \/ x > N - 1

\* What SM2_make_prikey and SM2_gen_random may draw: they repeat until it fits.
\* Mutant: the private key N - 1, which has no signature, is not left out.
UpToLast(last) == 1 .. N - 1
PrivateKeys(last) == 1 .. last
Nonces == 1 .. N - 1

\* The public key goes to the caller even when it is no good.
SM2_make_pubkey(d) ==
  LET P == Group!Multiple(d % N, G)
  IN  IF SM2_Init # 0 THEN [ret |-> SM2_Init, P |-> <<0, 0>>]
      ELSE [ret |-> Test_PubKey(P), P |-> Coordinates(P)]

\* What xgcd may leave for the inverse of a number modulo N, a prime.
InversesOf(z) == {i \in 0 .. N : (z * i - (IF z % N = 0 THEN 0 ELSE 1)) % N = 0}

\* The signature with the nonce k and z1 for the inverse of d + 1.
\* Mutant: r + k = N passes, which the verifier does not take.
TestROnly(r, k) == r = 0
TestR(r, k) == r = 0 \/ r + k = N
SM2_Sign(message, d, k, z1) ==
  LET e == Hash(SM2_make_pubkey(d).P, message)
      r == (e + Coordinates(Group!Multiple(k, G))[1]) % N
      s == (z1 * (k - ((r * d) % N) + N)) % N
      ret == FirstError(<<SM2_Init, Error(TestR(r, k), ERR_GENERATE_R), Error(s = 0, ERR_GENERATE_S)>>)
  IN  [ret |-> ret, r |-> r, s |-> s]

\* epoint_set takes the coordinates of the public key modulo p.
\* Mutant: t is not tested.
TestNothing(t) == FALSE
Test_Zero(t) == t = 0
SM2_Verify(message, P, r, s) ==
  LET t == (r + s) % N
      point == <<P[1] % Curve.p, P[2] % Curve.p>>
      x1 == Coordinates(Group!Sum(Group!Multiple(s % N, G), Group!Multiple(t, point)))[1]
      before == FirstError(<<SM2_Init, Error(~Group!On(P[1], P[2]), ERR_PUBKEY_INIT),
                             Error(Test_Range(r), ERR_OUTRANGE_R), Error(Test_Range(s), ERR_OUTRANGE_S),
                             Error(Test_Zero(t), ERR_GENERATE_T)>>)
  IN  IF before # 0 THEN before
      ELSE Error((Hash(P, message) + x1) % N # r, ERR_DATA_MEMCMP)

-----------------------------------------------------------------------------
SignatureInit ==
  /\ dA = -1 /\ PA = <<0, 0>> /\ generated = FALSE
  /\ signed = [message |-> 0, ret |-> -1, r |-> 0, s |-> 0] /\ verdict = -1

SM2_KeyGeneration ==
  /\ dA = -1 /\ SM2_Init = 0
  /\ \E d \in PrivateKeys(N - 2) : dA' = d /\ PA' = SM2_make_pubkey(d).P
  /\ generated' = TRUE /\ UNCHANGED <<signed, verdict>>

\* parse_priv_key_file: the tool goes on even when the public key is no good.
LoadKey == /\ dA = -1
           /\ \E d \in KeyFiles : dA' = d /\ PA' = SM2_make_pubkey(d).P
           /\ UNCHANGED <<generated, signed, verdict>>

Sign == /\ dA # -1 /\ signed.ret = -1 /\ verdict = -1
        /\ \E m \in Messages, k \in Nonces, z1 \in InversesOf(dA + 1) :
             LET g == SM2_Sign(m, dA, k, z1)
             IN  signed' = [message |-> m, ret |-> g.ret, r |-> g.r, s |-> g.s]
        /\ UNCHANGED <<dA, PA, generated, verdict>>

\* Of the signature that was made, or of any other one.
VerifySigned == /\ signed.ret = 0 /\ verdict = -1
                /\ verdict' = SM2_Verify(signed.message, PA, signed.r, signed.s)
                /\ UNCHANGED <<dA, PA, generated, signed>>
VerifyAny == /\ dA # -1 /\ signed.ret = -1 /\ verdict = -1
             /\ \E m \in Messages, r, s \in 0 .. N + 1 :
                  /\ signed' = [message |-> m, ret |-> -1, r |-> r, s |-> s]
                  /\ verdict' = SM2_Verify(m, PA, r, s)
             /\ UNCHANGED <<dA, PA, generated>>

SignatureNext == SM2_KeyGeneration \/ LoadKey \/ Sign \/ VerifySigned \/ VerifyAny
SignatureSpec == SignatureInit /\ [][SignatureNext]_signatureVars

-----------------------------------------------------------------------------
(* Properties.                                                                *)
Lawful(d) == d \in 1 .. N - 2

\* What SM2_Sign returns 0 for is a signature SM2_Verify takes under the public
\* key, whatever nonce was drawn, as long as the private key was generated or lies
\* in the range [1,n-2] of its comment (SM2_sv.c:288-290).
SignedVerifies ==
  [][verdict' # verdict /\ signed.ret = 0 /\ (generated \/ Lawful(dA)) => verdict' = 0]_signatureVars

\* SM2_Verify takes exactly what the owner of the key can make by the signing
\* equation: no number out of range, no r or s that SM2_Sign refuses.  (The nonce
\* 0, which SM2_gen_random never draws, would make signatures that pass, too.)
AcceptsOnlySignatures ==
  [][verdict' # verdict /\ Lawful(dA) =>
       (verdict' = 0 <=>
          \E k \in 0 .. N - 1, z1 \in InversesOf(dA + 1) :
            SM2_Sign(signed'.message, dA, k, z1) = [ret |-> 0, r |-> signed'.r, s |-> signed'.s])]_signatureVars
=============================================================================
