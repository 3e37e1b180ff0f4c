--------------------------- MODULE MCBlockingQueue ---------------------------
(* Model values for the model-checking runs of BlockingQueue.              *)
EXTENDS BlockingQueue

CONSTANTS p1, p2, p3, c1, c2

ThreeProducers == {p1, p2, p3}
TwoConsumers   == {c1, c2}
=============================================================================
