------------------------------ MODULE TimeText ------------------------------
(***************************************************************************)
(* Points in time as the store keeps them.  encodeTime writes an instant   *)
(* as RFC 3339 text whose fraction has its trailing zeros trimmed, and no  *)
(* fraction at all on a whole second; SQLite then compares the texts byte  *)
(* by byte.  A whole second ends in "Z" where a fraction has ".", and "."  *)
(* sorts before "Z": within one second the whole second comes LAST.        *)
(*                                                                         *)
(* An instant is a second and a fraction of one digit, enough to tell the  *)
(* two orders apart.                                                       *)
(***************************************************************************)
EXTENDS Naturals

Instant == [sec : Nat, frac : 0..9]

\* time.Time.Before: the order of the instants themselves.
Before(a, b) == \/ a.sec < b.sec
                \/ a.sec = b.sec /\ a.frac < b.frac

\* The order of the fractions' texts: "Z" is greater than ".dZ".
FractionTextLess(x, y) == x # 0 /\ (y = 0 \/ x < y)

\* The order of the texts encodeTime stores.
TextLess(a, b) == \/ a.sec < b.sec
                  \/ a.sec = b.sec /\ FractionTextLess(a.frac, b.frac)

TextLeq(a, b) == ~TextLess(b, a)

WholeSecond(t) == t.frac = 0

OneSecondAfter(t) == [t EXCEPT !.sec = @ + 1]

=============================================================================
