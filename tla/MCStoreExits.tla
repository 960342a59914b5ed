---------------------------- MODULE MCStoreExits ----------------------------
(***************************************************************************)
(* Store where all processes end in one way: each by a normal exit, or     *)
(* each by a crash and with nothing that expires.                          *)
(***************************************************************************)
EXTENDS MCStore

VARIABLE habit  \* "close" or "crash"

\* A crash that leaves the index file as an exit would have is as good as one.
Keeps ==
    /\ habit = "close" => (running /\ ~ running' => snapshot' = index)
    /\ habit = "crash" =>
          /\ UNCHANGED snapshot
          /\ \A i \in Inums : index'[i] # NoINode => index'[i].expired = 0

MCSpec ==
    /\ Init /\ habit \in {"close", "crash"}
    /\ [][Next /\ Keeps /\ UNCHANGED habit]_<<vars, habit>>
    /\ WF_vars(OpenFS)

=============================================================================
