----------------------------- MODULE MCTelemetry -----------------------------
EXTENDS Telemetry
Shape(type, price, qty) == [type |-> type, price |-> price, qty |-> qty]
MCShapes == {Shape("LIMIT_SELL", 1, 1), Shape("LIMIT_BUY", 1, 2)}
MCSymmetry == Permutations(Bots)
=============================================================================
