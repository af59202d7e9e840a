---------------------------- MODULE AppendOnlyLog ----------------------------
(***************************************************************************)
(* What a tenant's audit trail promises its readers: one list of events    *)
(* that only ever grows at its end.  AuditChain implements it.             *)
(***************************************************************************)
EXTENDS Naturals, Sequences

VARIABLE log

LogInit == log = <<>>

Extend ==
  /\ Len(log) < Len(log')
  /\ \A n \in 1 .. Len(log) : log'[n] = log[n]

LogSpec == LogInit /\ [][Extend]_log

=============================================================================
