------------------------ MODULE MCDeliveryPipeline ------------------------
EXTENDS DeliveryPipeline, TLC
CONSTANTS e1, e2, p1, w1, w2
OneEndpoint == [e \in Events |-> p1]
WorkerSymmetry == Permutations(Workers)
AllSymmetry == Permutations(Workers) \cup Permutations(Events)
=============================================================================
