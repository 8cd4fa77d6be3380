--------------------------- MODULE MCSyncObjects ----------------------------
(* Small instances of SyncObjects for TLC: three threads compete for one   *)
(* section, two of them for both, and one waits for an event.              *)
EXTENDS SyncObjects

CONSTANTS t1, t2, t3, s1, s2, e1

MCUses == {t1, t2} \X {s1, s2} \cup {<<t3, s1>>, <<t1, e1>>, <<t3, e1>>}
=============================================================================
