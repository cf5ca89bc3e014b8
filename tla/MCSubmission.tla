---------------------------- MODULE MCSubmission ----------------------------
(* Small instances of Submission. *)
EXTENDS Submission, TLC

CONSTANTS a, b, c, nop, web, r1, r2

ThreeTeams == {a, b, c}
TwoTeams   == {a, b}
WithNop    == {a, b, nop}
NoNop      == {}
OneNop     == {nop}
OneService == {web}
OneVictim  == {<<c, web>>}
OnlyB      == {<<b, web>>}
JustA      == {a}
JustB      == {b}
TwoRequests == {r1, r2}

ThievesSymmetry == Permutations({a, b}) \cup Permutations(TwoRequests)
=============================================================================
