--------------------------- MODULE MCInotifyDtree ---------------------------
(***************************************************************************)
(* inotify_dtree with the roots r1 and r2, or with r1 alone.               *)
(***************************************************************************)
EXTENDS InotifyDtree, TLC

CONSTANTS r1, r2, a, b, x, y, p1, p2

(* r1 holds a; b is not there yet. *)
OneRoot == {r1 :> <<Top, r1>> @@ a :> <<r1, x>> @@ b :> Free}
TwoRoots == {r2 :> <<Top, r2>> @@ t : t \in OneRoot}

=============================================================================
