----------------------------- MODULE MCSyncRuns -----------------------------
(* SyncRuns on small instances.                                             *)
EXTENDS SyncRuns

ThreeCallers == {"scheduler", "user", "event"}
TwoCallers == {"scheduler", "user"}
TwoTabs == {"tab1", "tab2"}
OneTab == {"tab1"}
=============================================================================
