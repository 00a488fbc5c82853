------------------------------ MODULE Doubles ------------------------------
(***************************************************************************)
(* Doubles, as far as sorted sets depend on them: integers between two     *)
(* infinities, into which a sum or product too large overflows, and NaN.   *)
(***************************************************************************)
EXTENDS Integers

CONSTANTS
    Inf,  \* infinity; Inf - 1 is the largest finite double
    NaN   \* compares with nothing, itself included

Double == (-Inf .. Inf) \cup {NaN}
Infinities == {-Inf, Inf}

Less(a, b) == NaN \notin {a, b} /\ a < b
Equal(a, b) == a # NaN /\ a = b

Rounded(n) == IF n > Inf THEN Inf ELSE IF n < -Inf THEN -Inf ELSE n

Plus(a, b) ==
    IF NaN \in {a, b} \/ {a, b} = Infinities THEN NaN
    ELSE IF a \in Infinities THEN a
    ELSE IF b \in Infinities THEN b ELSE Rounded(a + b)

Times(a, b) ==
    IF NaN \in {a, b} \/ (0 \in {a, b} /\ {a, b} \cap Infinities # {}) THEN NaN
    ELSE Rounded(a * b)

=============================================================================
