--------------------------- MODULE MCStepDelivery ---------------------------
(***************************************************************************)
(* Finite instances of StepDelivery.                                       *)
(***************************************************************************)
EXTENDS StepDelivery

\* Nothing more to do, one completion of either kind, or a batch of two.
CallsOfATurn ==
  { <<>>, <<"agent">>, <<"compaction">>, <<"tool", "tool">> }

=============================================================================
