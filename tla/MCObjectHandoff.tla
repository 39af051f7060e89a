---------------------------- MODULE MCObjectHandoff ----------------------------
(* Instances of ObjectHandoff for TLC.                                      *)
EXTENDS ObjectHandoff

Both == {producer, consumer}
AllSlots == 1..(BlocksPerSlab * MaxSlabs)

=============================================================================
