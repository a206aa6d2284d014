----------------------------- MODULE MCIotDrive -----------------------------
(* Instances of IotDrive for TLC.                                          *)
EXTENDS IotDrive, TLC

W(o, v) == [op |-> "write", offset |-> o, data |-> v]
R(o)    == [op |-> "read", offset |-> o, data |-> Zero]

(* Reads and writes of every value that is not the initial one.            *)
ReadsAndWrites == {R(o) : o \in Blocks}
                    \cup {W(o, v) : o \in Blocks, v \in Values \ {Zero}}

(* The written values are interchangeable.                                 *)
Symmetry == Permutations(Values \ {Zero})

(* MirrorsAgree says nothing once a write has failed, and ReadsSeeLastWrite*)
(* nothing of its block: behaviours are followed up to a failure.          *)
NoFailure == \A r \in Rid : reply[r] \notin Failures

(* The datagram that is delivered twice is delivered first during the      *)
(* first request, so that its copy can meet the second one.                *)
EarlyRepeat == dups' # dups => issued = 1

=============================================================================
