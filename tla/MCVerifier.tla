----------------------------- MODULE MCVerifier -----------------------------
(* An admin's packet and a subscriber's, two requests at a time.  A unit   *)
(* of time is two and a half minutes: the window is 4, the correction 12.  *)
EXTENDS Verifier, TLC

CONSTANTS order, note, one, two

(* A device is right, or five minutes ahead, or half an hour.              *)
MCDrifts == {0, 2, 12}

(* A packet may be there at once, after a moment, after more than the      *)
(* window, or so late that the correction is limited.                      *)
MCInstants == {0, 1, 5, 13}

(* The requests are alike.                                                 *)
Alike == Permutations(Requests)
=============================================================================
