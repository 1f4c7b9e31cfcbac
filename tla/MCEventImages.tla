--------------------------- MODULE MCEventImages ----------------------------
(* A small instance of EventImages: a URL and its twin of one object, and   *)
(* one of an object of another user.                                       *)
EXTENDS EventImages, TLC

CONSTANTS u1, u2, e1, e2, a, aa, c, oa, oc, q1, q2

FolderOf  == oa :> u1 @@ oc :> u2
PublicUrl == a :> oa @@ aa :> oa @@ c :> oc

Symmetry == Permutations(Requests) \cup Permutations(Events)
=============================================================================
