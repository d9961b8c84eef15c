------------------------- MODULE MCHarnessDelivery --------------------------
EXTENDS HarnessDelivery, TLC

CONSTANTS o1, o2, o3, c1, s1

\* One operation of each kind races with the delivery.
StartStopResume == (o1 :> "start") @@ (o2 :> "stop") @@ (o3 :> "resume")
=============================================================================
