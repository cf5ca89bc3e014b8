----------------------------- MODULE MCFlagIds -----------------------------
(* Small instances of FlagIds. *)
EXTENDS FlagIds, TLC

CONSTANTS r1, r2, w1, w2, f0, f1

TwoRequests == {r1, r2}
OneWriter   == {w1}

TwoFlags == {f0, f1}

RoundsInOrder == (f0 :> 0 @@ f1 :> 1)

Unfiltered  == {Flags}
WithFilter  == {Flags, {f0}}

Symmetric == Permutations(Requests) \cup Permutations(Writers)
=============================================================================
