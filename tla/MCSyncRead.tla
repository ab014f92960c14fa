------------------------------- MODULE MCSyncRead -------------------------------
(* SyncRead for TLC: two protocols, one tag that answers in both.          *)
EXTENDS SyncRead, TLC

CONSTANTS gen2, iso, t1, t2

MCProtocols == {gen2, iso}
MCTags      == {t1, t2}
MCTagsOf    == gen2 :> {t1, t2} @@ iso :> {t1}
================================================================================
