----------------------------- MODULE MCSiteFiles -----------------------------
(* Small instances of SiteFiles for TLC.                                   *)
EXTENDS SiteFiles

\* A day before a leap day, the leap day twice, the day after.
At(y, m, d, s) == [y |-> y, m |-> m, d |-> d, s |-> s]
AroundLeapDay == {At(2024, 2, 28, 86398), At(2024, 2, 29, 0), At(2024, 2, 29, 2), At(2024, 3, 1, 0)}
\* All years a FAT file system can store.
FatYears == 1980 .. 2107
=============================================================================
