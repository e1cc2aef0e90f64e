----------------------------- MODULE MCChannel -----------------------------
(* Instances of Channel for TLC: a client and a server that startup.rs     *)
(* connected by the pair (a0, a1), and one more pair they can create.      *)
EXTENDS Channel, TLC

CONSTANTS client, server, a0, a1, b0, b1

MCOther == [e \in Ends |-> CASE e = a0 -> a1 [] e = a1 -> a0
                             [] e = b0 -> b1 [] e = b1 -> b0]

MCBootTable == [p \in Procs |-> IF p = client THEN {a0} ELSE {a1}]

(* Nothing tells the two ends of the second pair apart. *)
MCSymmetry == Permutations({b0, b1})
=============================================================================
