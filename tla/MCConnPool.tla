----------------------------- MODULE MCConnPool -----------------------------
(* Model-checking instance of ConnPool: the sequences of hosts a cfg can    *)
(* not write as literals.                                                   *)
EXTENDS ConnPool, TLC

CONSTANTS h1, h2

OneHost == <<h1>>
TwoHosts == <<h1, h2>>
SameHostTwice == <<h1, h1>>

(* The goroutines that only run pool methods are interchangeable.           *)
Symmetry == Permutations(Workers \ (Closers \cup RawUsers))
=============================================================================
