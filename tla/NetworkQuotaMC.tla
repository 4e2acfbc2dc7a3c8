--------------------------- MODULE NetworkQuotaMC ---------------------------
(* Three concurrent requests of one account under plans of one and two       *)
(* networks: the last free slot is contended, and there is time for a        *)
(* reservation to expire and for its slot to be taken again.                 *)
EXTENDS NetworkQuota
=============================================================================
