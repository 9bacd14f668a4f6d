------------------------------ MODULE MCDetector ------------------------------
(* Instances of Detector for TLC. *)
EXTENDS Detector, TLC

\* One process runs every call, as with `uvicorn --workers 1`.
OneProcessOf == [c \in Calls |-> CHOOSE p \in Processes : TRUE]

\* Each call runs in the process of its name, as with `uvicorn --workers 2`.
OwnProcessOf == [c \in Calls |-> c]

\* Nodes differ in nothing but their name.
NodeSymmetry == Permutations(Nodes)

=============================================================================
