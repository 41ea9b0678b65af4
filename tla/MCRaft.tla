--------------------------------- MODULE MCRaft ---------------------------------
(***************************************************************************)
(* Instances of Raft for TLC.                                               *)
(***************************************************************************)
EXTENDS Raft, TLC

CONSTANTS s1, s2, s3, a, b   \* peers and commands, as model values

\* Peers with the same role in an instance are interchangeable, and so are
\* commands.
Symmetric == Permutations(Electable) \cup Permutations(Server \ Electable)
               \cup Permutations(Command)
=================================================================================
