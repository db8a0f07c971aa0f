------------------------------ MODULE MCAppLoop ------------------------------
EXTENDS AppLoop
\* A frost, which reads like a line that is dead from the first bit, and a hot
\* day with three digits of Fahrenheit.
MCMeasurement == {[humidity |-> 40, celsius |-> 0], [humidity |-> 40, celsius |-> 38]}
=============================================================================
