------------------------------ MODULE MCServer ------------------------------
(***************************************************************************)
(* Instances of ServerKV for TLC.                                          *)
(***************************************************************************)
EXTENDS ServerKV

CONSTANTS c1, c2, k1, d1, s1, s2

AllKinds == {"set", "zset", "list", "text", "table", "number"}

Both(secret) == [compress |-> TRUE, secret |-> secret]

\* One configuration with everything on.
OneConfig == {Both(s1)}

\* Compression alone, and encryption with two keys, once without compression.
SeveralConfigs ==
    {Plain, [compress |-> TRUE, secret |-> NoSecret],
     [compress |-> FALSE, secret |-> s1], Both(s1), Both(s2)}

=============================================================================
