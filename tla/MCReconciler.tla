---------------------------- MODULE MCReconciler ----------------------------
(* Small instances of Reconciler for TLC.                                  *)
EXTENDS ReconcilerInvariant, TLC

CONSTANTS avatar, item, strength

TermsOf == {"first", "second"}
SpecsOf == {[terms |-> "first", parts |-> {}], [terms |-> "second", parts |-> {strength}]}
=============================================================================
