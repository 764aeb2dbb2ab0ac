-------------------------- MODULE MCConfiguration --------------------------
EXTENDS Configuration, TLC

Shape(vms, parallel, rate, disks, data, dedupe) ==
  [vms |-> vms, parallel |-> parallel, rate |-> rate, disks |-> disks, data |-> data, dedupe |-> dedupe]

(* Each of the first three grows into the next, and none back: one VM of    *)
(* one disk; two at once with another disk each, capped; two one by one     *)
(* with more data on the disks, capped.  The fourth is invalid.             *)
MCSpecs ==
  {Shape(1, 0, 0, 1, 1, 0), Shape(2, 0, 1, 2, 1, 30), Shape(2, 1, 1, 2, 2, 30), Shape(1, 2, 0, 1, 1, 0)}
=============================================================================
