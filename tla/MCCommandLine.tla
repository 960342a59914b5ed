--------------------------- MODULE MCCommandLine ---------------------------
(***************************************************************************)
(* An instance of CommandLine for TLC.                                     *)
(***************************************************************************)
EXTENDS CommandLine

\* Flags alone, with a value, with an empty one, with two "=", and words.
MCArguments ==
    {<<f>> : f \in Flags \cup {"-x", "true", "8000", "close"}}
    \cup {<<"-port", n>> : n \in {"80", "2668", "8000", "close"}}
    \cup {<<"-auth", p>> : p \in {"", "open", "-daemon"}}
    \cup {<<"-path", p>> : p \in {"", "p"}}
    \cup {<<"-config", f>> : f \in {"", "p", "mixed", "short", "sealed", "never"}}
    \cup {<<s, b>> : s \in Switches, b \in {"true", "false"}}
    \cup {<<"-auth", "a", "b">>}

MCPortNumber == [n \in {"80", "2668", "8000"} |->
    CASE n = "80" -> 80 [] n = "2668" -> 2668 [] n = "8000" -> 8000]

MCDefault ==
    [port |-> 2668, path |-> <<"tmp">>, debug |-> FALSE, password |-> <<"open">>,
     gc |-> TRUE, second |-> 18000, encrypt |-> FALSE, secret |-> 24]

\* A secret of a wrong length, one of a right length, a collector without pause.
MCFiles ==
    [f \in {"mixed", "short", "sealed", "never"} |->
        CASE f = "mixed"  -> [port |-> 3000, path |-> <<"db">>, password |-> <<"pw">>, debug |-> TRUE]
          [] f = "short"  -> [encrypt |-> TRUE, secret |-> 20]
          [] f = "sealed" -> [encrypt |-> TRUE, secret |-> 32, gc |-> FALSE, second |-> 0]
          [] f = "never"  -> [second |-> 0]]

MCRandom == <<"random">>

=============================================================================
