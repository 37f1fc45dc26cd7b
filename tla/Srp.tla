-------------------------------- MODULE Srp --------------------------------
(***************************************************************************)
(* srp.ts: the client of SRP-6a.  The group is small and so is the base of *)
(* the bytes that numbers are written in; the digest is symbolic, with the *)
(* numbers u, k and x that the code takes from digests given.              *)
(***************************************************************************)
EXTENDS Integers, Sequences, SequencesExt

CONSTANTS
  PrimeN,    \* N, a prime
  Generator, \* g, a generator of its group
  ByteBase   \* the values of a byte

ASSUME SrpAssumption == PrimeN \in Nat /\ PrimeN > 2 /\ Generator \in 2..(PrimeN - 1) /\ ByteBase > 1

Illegal == [ok |-> FALSE]

\* square and multiply
RECURSIVE Power(_, _, _)
Power(result, b, e) ==
  IF e = 0 THEN result
  ELSE Power(IF e % 2 = 1 THEN (result * b) % PrimeN ELSE result, (b * b) % PrimeN, e \div 2)

ModPow(base, e) == Power(1, base % PrimeN, e)

\* numbers as bytes, without leading zeros
RECURSIVE BigIntToBytes(_)
BigIntToBytes(n) ==
  IF n = 0 THEN <<>> ELSE Append(BigIntToBytes(n \div ByteBase), n % ByteBase)

BytesToBigInt(b) == FoldLeft(LAMBDA n, x : ByteBase * n + x, 0, b)

NBytes == Len(BigIntToBytes(PrimeN))
PadLeft(b) == [i \in 1..(NBytes - Len(b)) |-> 0] \o b

\* N is added first, so that the base of the power is never negative
ComputePremasterSecret(bPub, k, x, a, u) ==
  LET kgx == (k * ModPow(Generator, x)) % PrimeN
  IN ModPow((PrimeN + bPub - kgx) % PrimeN, u * x + a)

ComputePublicEphemeral(a) == BigIntToBytes(ModPow(Generator, a))

ComputeM1(aPub, bPub, key, salt) == <<"M1", salt, PadLeft(aPub), PadLeft(bPub), key>>
ComputeM2(aPub, m1, key) == <<"M2", aPub, m1, key>>

\* processReply(): a key and both proofs, unless B is a multiple of N
ProcessReply(a, salt, bPub, k, x, u) ==
  LET B == BytesToBigInt(bPub)
      aPub == ComputePublicEphemeral(a)
      key == <<"key", BigIntToBytes(ComputePremasterSecret(B, k, x, a, u))>>
      m1 == ComputeM1(aPub, BigIntToBytes(B), key, salt)
  IN IF B % PrimeN = 0 \/ Len(BigIntToBytes(B)) > NBytes THEN Illegal
     ELSE [ok |-> TRUE, key |-> key, m1 |-> m1, m2 |-> ComputeM2(aPub, m1, key)]

\* SrpPairSetupClient: generateA() forgets a verifier, computeM1() makes one,
\* and verifyM2() takes the server's proof for the proof that was made
GenerateA(a) == [a |-> a, verifier |-> Illegal]
MakeM1(client, salt, bPub, k, x, u) ==
  [client EXCEPT !.verifier = ProcessReply(client.a, salt, bPub, k, x, u)]
VerifyM2(client, m2, m1) ==
  client.verifier.ok /\ client.verifier.m1 = m1 /\ client.verifier.m2 = m2

=============================================================================
