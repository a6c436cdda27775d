------------------------------ MODULE MCAudit ------------------------------
(***************************************************************************)
(* Small instances of AuditLog: three sessions, so that two can compete    *)
(* for a log a third one left behind.                                      *)
(***************************************************************************)
EXTENDS AuditLog

CONSTANTS s1, s2, s3, b1, b2, f1, f2

MCSessions == {s1, s2, s3}
TwoSessions == {s1, s2}
TwoBodies == {b1, b2}
OneBody == {b1}
OneFile == {f1}
TwoFiles == {f1, f2}
Interchangeable == Permutations(TwoSessions) \cup Permutations(TwoBodies)
AnyOrder == Permutations(MCSessions)
AnyOrderAndFile == AnyOrder \cup Permutations(TwoFiles)
=============================================================================
