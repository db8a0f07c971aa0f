---------------------------- MODULE MCFanControl ----------------------------
EXTENDS FanControl
\* A trip point between the two temperatures, the edges of the hysteresis,
\* nothing, and two that do not fit into an int8_t (-56 and -1).
MCPayload == {1, 2, 0, 85, 200, 255}
MCWeather == {70, 95}
=============================================================================
