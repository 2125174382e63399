---------------------------- MODULE MCZbdReport -----------------------------
(* Small instances of ZbdReport.                                            *)
EXTENDS ZbdReport, TLC

MCStates == {[cond |-> "empty", flags |-> {}], [cond |-> "imp_open", flags |-> {"non_seq"}]}
MCSizes == {Null, 0, 1, 2, 3}
=============================================================================
