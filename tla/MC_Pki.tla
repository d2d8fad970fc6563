------------------------------ MODULE MC_Pki ----------------------------------
(* Constant definitions that instantiate Pki for TLC.                 *)
EXTENDS Pki, TLC

\* Every failure generate_root and create_pki_dir can meet.
AllFailures == {"mkdir", "keygen", "before", "after"}

\* Failures before any file is written.
NoWriteFailure == {"mkdir", "keygen"}

\* Both halves of a leaf pair, or only the Dilithium5 one.
BothAlgs == {"cl", "pq"}
PqOnly == {"pq"}

\* Ten years, and the first validities whose seconds pass u32::MAX.
TenYears == {3650}
AroundU32 == {49710, 49711}
=============================================================================
