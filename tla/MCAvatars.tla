----------------------------- MODULE MCAvatars -----------------------------
(* A small instance of the avatars for TLC.                                 *)
EXTENDS Avatars
CONSTANTS i1, i2

TwoNames == {i1, i2}

(* One upload among searches and every fault; two uploads at a time.        *)
TwoMixes ==
  {[names |-> {i1}, asks |-> 2, faults |-> 2,
    kinds |-> {"cut", "crash", "redis", "mysql", "disk", "expire"}],
   [names |-> {i1, i2}, asks |-> 0, faults |-> 1, kinds |-> {"cut", "crash", "mysql"}]}
=============================================================================
