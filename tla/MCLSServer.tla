----------------------------- MODULE MCLSServer -----------------------------
(* Instances of LSServer for TLC: small configurations and request sets. *)
EXTENDS LSRefinement, TLC

CONSTANTS la, lb,      \* logger names
          fa, fb       \* log files

FileLogger(path, sev, app) ==
  [dest_type |-> "FILE", severity |-> sev, dest_filename |-> path, append |-> app]

KernelLogger(type, sev) ==
  [dest_type |-> type, severity |-> sev, dest_filename |-> NONE, append |-> FALSE]

Req(type, l)        == [m_type |-> type, logger |-> l, severity |-> 0, message_len |-> 0]
Write(l, sev)       == [Req("LS_WRITE_LOG", l) EXCEPT !.severity = sev]
SetSeverity(l, sev) == [Req("LS_SET_SEVERITY", l) EXCEPT !.severity = sev]

Initialize == Req("LS_INITIALIZE", la)
ClearAll   == Req("LS_CLEAR_ALL", la)
Start(l)   == Req("LS_START_LOG", l)
Close(l)   == Req("LS_CLOSE_LOG", l)
Clear(l)   == Req("LS_CLEAR_LOG", l)
Undefined  == Req("UNDEFINED", la)

\* Clients differ in nothing but their endpoint.
ClientSymmetry == Permutations(Client)

\* Two loggers on two files, or one of them alone on the kernel log.
ConfigPair ==
  { [l \in {la, lb} |-> IF l = la THEN FileLogger(fa, 1, TRUE) ELSE FileLogger(fb, 0, FALSE)],
    [l \in {la} |-> KernelLogger("STDOUT", 2)] }

RequestsOwnership ==
  {Initialize, Start(la), Start(lb), Close(la), Close(lb)}

\* One logger, on a file or on the kernel log.
ConfigOne ==
  { [l \in {la} |-> FileLogger(fa, 1, FALSE)], [l \in {la} |-> KernelLogger("STDERR", 2)] }

\* Everything but LS_INITIALIZE, and an invalid level.
RequestsLogging ==
  {Start(la), Close(la), Write(la, 1), SetSeverity(la, 0), SetSeverity(la, 4), Clear(la), ClearAll}

RequestsAnswered == {Initialize, Start(la), Close(la), Undefined}

=============================================================================
