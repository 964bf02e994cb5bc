------------------------------ MODULE JwtTokens ------------------------------
(***************************************************************************)
(* Access and ID tokens: their signature by a key of any supported         *)
(* algorithm (crypto/src/jwt.ts) and the checks of verifyAccessToken       *)
(* (token.service.ts), while the clock runs, keys are rotated and revoked  *)
(* and the configured algorithm changes.                                   *)
(*                                                                         *)
(* A signature names the key and the content it is over; the one of ES256  *)
(* also has its bytes, because the code converts them.  A field element is *)
(* Width bytes long here (32 in the code).                                 *)
(***************************************************************************)
EXTENDS Integers, Sequences, FiniteSetsExt

CONSTANTS
  Algorithms,    \* of the configuration, one after the other
  ttl,           \* accessTokenTtlMs / 1000
  keyLife,       \* seconds until a key expires
  MaxClock, MaxKeys, MaxTokens    \* bounds

Width == 2
Byte == {0, 1, 128}
Field == [1..Width -> Byte] \ {[i \in 1..Width |-> 0]}

isHybrid(a) == a \in {"hybrid-RS256-MLDSA65", "hybrid-ES256-MLDSA65"}
classicalAlgorithmOf(a) == IF a = "hybrid-ES256-MLDSA65" THEN "ES256" ELSE "RS256"

VARIABLES
  now,           \* seconds
  algorithm,     \* the configured one
  keys,          \* the KeyStore: [kid, algorithm, createdAt, revoked], kid numbered
  issued         \* tokens signed

vars == <<now, algorithm, keys, issued>>

-----------------------------------------------------------------------------
(* DER and JOSE form of an ECDSA signature *)

\* Where the value starts once superfluous zeros are left out.
Significant(v) ==
  Min({k \in 1..Len(v) : k = Len(v) \/ v[k] # 0 \/ v[k + 1] >= 128})
Positive(v) == IF v[1] < 128 THEN v ELSE <<0>> \o v
\* INTEGER; the mutant leaves the sign byte out.
Unsigned(v) == LET t == SubSeq(v, Significant(v), Len(v)) IN <<2, Len(t)>> \o t
derInteger(v) == LET p == Positive(SubSeq(v, Significant(v), Len(v))) IN <<2, Len(p)>> \o p

joseToDerSignature(raw) ==
  LET body == derInteger(SubSeq(raw, 1, Width)) \o derInteger(SubSeq(raw, Width + 1, 2 * Width))
  IN <<48, Len(body)>> \o body

padded32(v) == [i \in 1..(Width - Len(v)) |-> 0] \o v
Unpadded(v) == IF Len(v) = Width + 1 /\ v[1] = 0 THEN Tail(v) ELSE v

derToJoseSignature(der) ==
  LET r == SubSeq(der, 5, 4 + der[4])
      s == SubSeq(der, 7 + der[4], Len(der))
  IN padded32(Unpadded(r)) \o padded32(Unpadded(s))

\* What node:crypto emits: the shortest two's complement form.
NodeInteger(v) ==
  LET n == Min({k \in 1..Width : v[k] # 0})
      t == SubSeq(v, n, Width)
      p == IF t[1] >= 128 THEN <<0>> \o t ELSE t
  IN <<2, Len(p)>> \o p
NodeDer(r, s) ==
  LET body == NodeInteger(r) \o NodeInteger(s) IN <<48, Len(body)>> \o body

-----------------------------------------------------------------------------
(* Tokens *)

\* What a signature is over, and the signature of one leg.
Content(t) == [alg |-> t.alg, kid |-> t.kid, typ |-> t.typ, iat |-> t.iat, exp |-> t.exp,
               whole |-> t.whole]
Leg(k, c, b) == [by |-> k, over |-> c, bytes |-> b]

\* signToken: one leg, or two for a hybrid key.
Signed(k, c, b) ==
  [alg |-> c.alg, kid |-> c.kid, typ |-> c.typ, iat |-> c.iat, exp |-> c.exp, whole |-> c.whole,
   legs |-> IF isHybrid(k.algorithm)
              THEN <<Leg(k.kid, c, IF classicalAlgorithmOf(k.algorithm) = "ES256"
                                     THEN derToJoseSignature(b) ELSE b),
                     Leg(k.kid, c, <<>>)>>
              ELSE <<Leg(k.kid, c, <<>>)>>,
   der |-> b]

Expired(k) == now >= k.createdAt + keyLife
Usable == {k \in keys : ~k.revoked /\ ~Expired(k)}
ByKid(n) == {k \in Usable : k.kid = n}

LegOk(k, c, l) == l.by = k.kid /\ l.over = c

\* Both legs count; the mutant is content with the classical one.
EitherLeg(k, t) == LegOk(k, Content(t), t.legs[1])
BothLegs(k, t) == \A i \in DOMAIN t.legs : LegOk(k, Content(t), t.legs[i])

\* verifyToken: the number of segments, the algorithm of the header, the signatures.
SignatureOk(k, t) ==
  /\ Len(t.legs) = (IF isHybrid(k.algorithm) THEN 2 ELSE 1)
  /\ t.alg = k.algorithm
  /\ BothLegs(k, t)
  /\ (isHybrid(k.algorithm) /\ classicalAlgorithmOf(k.algorithm) = "ES256") =>
       joseToDerSignature(t.legs[1].bytes) = t.der

\* assertJwtClaims: exp, maxAge, issuer and audience; the mutant forgets the audience.
AnyAudience(t) == now < t.exp /\ now - t.iat <= ttl
ClaimsOk(t) == now < t.exp /\ now - t.iat <= ttl /\ t.typ = "access"

\* verifyAccessToken, with the mandatory claims last.
Verify(t) == \E k \in ByKid(t.kid) : SignatureOk(k, t) /\ ClaimsOk(t) /\ t.whole

-----------------------------------------------------------------------------
NewKey(n) == [kid |-> n, algorithm |-> algorithm, createdAt |-> now, revoked |-> FALSE]

TypeOK ==
  /\ now \in 0..MaxClock /\ algorithm \in Algorithms
  /\ \A k \in keys : k.kid \in 1..MaxKeys /\ k.algorithm \in Algorithms
  /\ Cardinality(issued) <= MaxTokens

Init ==
  /\ now = 0 /\ algorithm \in Algorithms
  /\ keys = {NewKey(1)} /\ issued = {}

\* The bytes of an ECDSA signature: every r beside one s, and the other way round
\* (bound: for the first token only, and a complete access token).
Signatures(typ, whole) ==
  LET one == <<0, 128>> IN
    IF issued = {} /\ typ = "access" /\ whole
      THEN {NodeDer(r, one) : r \in Field} \cup {NodeDer(one, r) : r \in Field}
      ELSE {NodeDer(one, one)}

\* signAccessToken and signIdToken, with the newest key.
Sign(typ, whole, b) ==
  LET key == CHOOSE k \in Usable : \A j \in Usable : j.kid <= k.kid
      c == [alg |-> key.algorithm, kid |-> key.kid, typ |-> typ, iat |-> now, exp |-> now + ttl,
            whole |-> whole]
  IN /\ Usable # {} /\ Cardinality(issued) < MaxTokens
     /\ b = <<>> <=> key.algorithm # "hybrid-ES256-MLDSA65"
     /\ issued' = issued \cup {Signed(key, c, b)}
     /\ UNCHANGED <<now, algorithm, keys>>

Rotate ==
  /\ Cardinality(keys) < MaxKeys
  /\ keys' = keys \cup {NewKey(Cardinality(keys) + 1)}
  /\ UNCHANGED <<now, algorithm, issued>>

Revoke(k) ==
  /\ k \in keys /\ ~k.revoked
  /\ keys' = (keys \ {k}) \cup {[k EXCEPT !.revoked = TRUE]}
  /\ UNCHANGED <<now, algorithm, issued>>

\* The server is started again with another algorithm; the keys are persisted.
Reconfigure ==
  /\ algorithm' \in Algorithms /\ algorithm' # algorithm
  /\ UNCHANGED <<now, keys, issued>>

Tick ==
  /\ now < MaxClock /\ now' = now + 1
  /\ UNCHANGED <<algorithm, keys, issued>>

Next ==
  \/ \E typ \in {"access", "id"}, whole \in BOOLEAN :
       \E b \in Signatures(typ, whole) \cup {<<>>} : Sign(typ, whole, b)
  \/ (\E k \in keys : Revoke(k))
  \/ Rotate \/ Reconfigure \/ Tick

Spec == Init /\ [][Next]_vars

-----------------------------------------------------------------------------
(* Properties *)

\* Of an issued token: complete, an access token, in its time, and its key is alive.
Good(t) == t.typ = "access" /\ t.whole /\ now < t.iat + ttl /\ \E k \in Usable : k.kid = t.kid

\* Tokens as they were issued, and put together from parts of two.
Mixtures ==
  issued \cup
  {[t EXCEPT !.kid = u.kid] : t \in issued, u \in issued} \cup
  {[t EXCEPT !.alg = u.alg] : t \in issued, u \in issued} \cup
  {[t EXCEPT !.exp = u.exp, !.iat = u.iat] : t \in issued, u \in issued} \cup
  {[t EXCEPT !.legs = u.legs] : t \in issued, u \in issued} \cup
  {[t EXCEPT !.legs = <<t.legs[1], u.legs[Len(u.legs)]>>] : t \in issued, u \in issued}

\* Every token the service issued is accepted for as long as it is good, whatever the
\* algorithm was and is, and whatever bytes the signature came out with; and an ID
\* token, one without the mandatory claims or one put together from others never is.
ExactlyTheGood == \A t \in Mixtures : Verify(t) <=> t \in issued /\ Good(t)
=============================================================================
