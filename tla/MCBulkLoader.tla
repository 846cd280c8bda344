----------------------------- MODULE MCBulkLoader -----------------------------
(* A loader with two workers, two bodies that share row 2; row 3 is malformed. *)
EXTENDS BulkLoader, TLC

CONSTANTS b1, b2

MCRowsOf == (b1 :> <<1, 2, 3>>) @@ (b2 :> <<2>>)
MCMalformed == {3}

\* Bounds: a swap that races the boot is followed with the body of one row, and
\* one dead letter is refused, of a body with no other beside it.
RaceOfOneRow == raced => posts[b1] = 0 /\ lost = {}
OneLetterLost == lost # {} => Cardinality(lost) = 1 /\ posts[b1] + posts[b2] = 1

MCSpec == BInit /\ [][BNext /\ RaceOfOneRow' /\ OneLetterLost']_vars /\ Fairness
===============================================================================
