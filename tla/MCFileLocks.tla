------------------------------ MODULE MCFileLocks ------------------------------
(* Small instances of FileLocks: three descriptions, two of them on the same *)
(* file, two threads.                                                        *)
EXTENDS FileLocks

MCOwner == 1..3
MCTarget == {"f", "g"}
MCTargetOf == [o \in MCOwner |-> IF o = 3 THEN "g" ELSE "f"]
================================================================================
