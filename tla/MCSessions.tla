----------------------------- MODULE MCSessions -----------------------------
(***************************************************************************)
(* One session that lasts a second and three requests on it, over instants *)
(* on whole and on half seconds: a lookup, a touch, a logout, a purge and  *)
(* the expiry can come in any order.  Sessions do not look at each other.  *)
(***************************************************************************)
EXTENDS Sessions

Moment(s, f) == [sec |-> s, frac |-> f]

MCInstants == { Moment(1, 0), Moment(1, 5), Moment(2, 0), Moment(2, 5),
                Moment(3, 0), Moment(4, 0) }

=============================================================================
