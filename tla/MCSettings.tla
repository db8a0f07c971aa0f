----------------------------- MODULE MCSettings -----------------------------
(* Model of Settings for TLC: messages set three of the nine drip keys, one  *)
(* of each kind and of each drip.                                            *)
EXTENDS Settings

MCSettable == {<<"START", 3>>, <<"DUR", 2>>, <<"DAYS", 1>>}
=============================================================================
