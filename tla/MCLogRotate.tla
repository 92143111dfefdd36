----------------------------- MODULE MCLogRotate -----------------------------
(* LogRotate with events of one type, and one event of another that has a    *)
(* line too long to scan.                                                    *)
EXTENDS LogRotate

CONSTANTS e1, e2, long, typeA, typeB

MCDirOf == [e \in Events |-> IF e = long THEN typeB ELSE typeA]
=============================================================================
