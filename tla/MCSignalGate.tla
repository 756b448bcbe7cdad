---------------------------- MODULE MCSignalGate ----------------------------
(***************************************************************************)
(* Small instances of the signal gate.                                     *)
(***************************************************************************)
EXTENDS SignalGate, TLC

CONSTANTS p1, p2, stop, stray, torn, odd, garbled, n1, n2

\* An alert about this conversation, and the alerts it can be confused with.
AllConcerns ==
    stop :> "this" @@ stray :> "other" @@ torn :> "mixed" @@
    odd :> "misshapen" @@ garbled :> "undecodable"
MCConcern == [e \in Alerts |-> AllConcerns[e]]

\* Processes are interchangeable, and so are nonces.
Symmetry == Permutations(Processes) \cup Permutations(Nonces)
=============================================================================
