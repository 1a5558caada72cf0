----------------------------- MODULE MCAccounts -----------------------------
(* Small instances of the account services for TLC.                        *)
EXTENDS Accounts

TwoConns == 1..2
ThreeUsers == 1..3

(* Requests that touch the same state are mixed, with the faults that can meet
   them.                                                                    *)
SixMixes ==
  {[urls   |-> {"varify", "register", "reset"},
    faults |-> {"redis", "mysql", "expire", "mail", "rpc", "return"},
    capacity |-> 2, kept |-> TRUE, alone |-> FALSE],
   [urls   |-> {"varify", "register"},
    faults |-> {"redis", "mail", "rpc"},
    capacity |-> 2, kept |-> FALSE, alone |-> FALSE],
   [urls   |-> {"login", "reassign"},
    faults |-> {"load", "crash", "exit", "late", "redis", "mysql", "rpc", "day"},
    capacity |-> 2, kept |-> TRUE, alone |-> FALSE],
   [urls   |-> {"login"},
    faults |-> {"crash", "exit", "late", "redis", "rpc"},
    capacity |-> 2, kept |-> TRUE, alone |-> TRUE],
   [urls   |-> {"register", "reset", "login", "procedure", "get_test", "unknown"},
    faults |-> {"deadline", "stop"}, capacity |-> 2, kept |-> TRUE, alone |-> FALSE],
   [urls   |-> {"register", "reset", "login", "procedure", "get_test", "unknown"},
    faults |-> {"stop", "odd"}, capacity |-> 1, kept |-> TRUE, alone |-> FALSE]}
=============================================================================
