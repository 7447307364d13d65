------------------------ MODULE MCCircuitBreakerRedis ------------------------
EXTENDS CircuitBreakerRedis
CONSTANTS w1, w2, r1
=============================================================================
