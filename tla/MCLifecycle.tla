---------------------------- MODULE MCLifecycle ----------------------------
(* One changeset or two, an owner and a user who does not own them. *)
EXTENDS ChangesetLifecycle, TLC

OneId == 1..1
TwoIds == 1..2
MCTagSets == {{}, {"a"}}
NoTags == {{}}
MCUploads == {[num |-> 1, bbox |-> [min |-> 1, max |-> 1]],
              [num |-> 2, bbox |-> [min |-> 0, max |-> 2]]}
NoUploads == {[num |-> 0, bbox |-> undefined_bbox]}

Symmetry == Permutations(Users) \cup Permutations(Workers)
=============================================================================
