---------------------------- MODULE SecretShares ----------------------------
(***************************************************************************)
(* The sharing of the backup key among the realms (lib/crypto.js): Shamir's *)
(* scheme over GF(256) with the polynomial 0x11B.  One byte of the key      *)
(* stands for each of them: the code treats every byte alone.  The client   *)
(* cuts the key with threshold two (data.js, backupKeys) and joins the      *)
(* first two shares that came back (restoreWith).                           *)
(***************************************************************************)
EXTENDS Integers, Sequences, FiniteSetsExt, Bitwise

CONSTANTS
    Realms,      \* number of realms
    SecretBytes, \* bytes of the key
    RandomBytes  \* bytes that random gives

SharesAssumption ==
    /\ Realms \in 2 .. 255
    /\ SecretBytes \subseteq 0 .. 255 /\ RandomBytes \subseteq 0 .. 255

VARIABLES secret, coefficients, shares, joined

sharesVars == <<secret, coefficients, shares, joined>>

Byte == 0 .. 255
Share == [x : Byte, y : Byte]

SharesTypeOK ==
    /\ secret \in Byte /\ coefficients \in Seq(Byte)
    /\ shares \in Seq(Share) /\ Len(shares) \in {0, Realms}
    /\ joined \in Seq(Byte) /\ Len(joined) <= 1

----------------------------------------------------------------------------
(* The field *)

\* a <<= 1, reduced when it leaves eight bits.
Doubled(a) == IF a >= 128 THEN (2 * a) ^^ 283 ELSE 2 * a

gfMul[a \in Byte, b \in Byte] ==
    IF b = 0 THEN 0
    ELSE (IF b % 2 = 1 THEN a ELSE 0) ^^ gfMul[Doubled(a), b \div 2]

gfInv(a) == CHOOSE x \in 1 .. 255 : gfMul[a, x] = 1

----------------------------------------------------------------------------
(* Cutting and joining *)

\* Mutant for SharesWork: the points count from zero.
PointFromZero(i) == i - 1

\* The point at which realm i gets its share.
Point(i) == i

\* The polynomial at x, lowest coefficient first.
RECURSIVE At(_, _)
At(coeffs, x) == IF coeffs = <<>> THEN 0 ELSE Head(coeffs) ^^ gfMul[At(Tail(coeffs), x), x]

shamirSplit(coeffs) == [i \in 1 .. Realms |-> [x |-> Point(i), y |-> At(coeffs, Point(i))]]

\* What share t contributes to the weight of share s.
Weight(s, t) == gfMul[t.x, gfInv(s.x ^^ t.x)]

shamirCombine(s, t) == gfMul[s.y, Weight(s, t)] ^^ gfMul[t.y, Weight(t, s)]

----------------------------------------------------------------------------
\* backupKeys: random gives the other coefficient.
Split ==
    /\ shares = <<>>
    /\ \E c \in RandomBytes : coefficients' = <<secret, c>>
    /\ shares' = shamirSplit(coefficients')
    /\ UNCHANGED <<secret, joined>>

\* restoreWith: two realms answered, in any order.
Join(i, j) ==
    /\ shares # <<>> /\ joined = <<>> /\ i # j
    /\ joined' = <<shamirCombine(shares[i], shares[j])>>
    /\ UNCHANGED <<secret, coefficients, shares>>

SharesInit == secret \in SecretBytes /\ coefficients = <<>> /\ shares = <<>> /\ joined = <<>>

SharesNext == Split \/ (\E i, j \in 1 .. Realms : Join(i, j))

SharesSpec == SharesInit /\ [][SharesNext]_sharesVars

----------------------------------------------------------------------------
\* Whichever two realms answer, in whichever order, the client gets the key back.
AnyTwoJoin == joined # <<>> => joined[1] = secret

\* One realm alone learns nothing: its share fits every byte the key could have.
OneShareSaysNothing ==
    \A i \in DOMAIN shares : \A other \in SecretBytes :
        \E c \in Byte : At(<<other, c>>, Point(i)) = shares[i].y

\* What the sharing is for.
SharesWork == AnyTwoJoin /\ OneShareSaysNothing
=============================================================================
