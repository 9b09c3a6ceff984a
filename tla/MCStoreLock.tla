---------------------------- MODULE MCStoreLock ----------------------------
(* Small instances of StoreLock for TLC. *)
EXTENDS StoreLock

CONSTANTS p1, h1

\* Every process runs on one host, the supported deployment.
OneHost == [p \in Procs |-> h1]

\* p1 runs on another host than the rest.
TwoHosts == [p \in Procs |-> IF p = p1 THEN h1 ELSE CHOOSE h \in Hosts : h # h1]

=============================================================================
