--------------------------- MODULE MCAlertEvaluation ---------------------------
(* Two policies; a request and its retry, a request that resolves, one without *)
(* a measurement, one that reuses a key, and one that fails closed.            *)
EXTENDS AlertEvaluation, TLC

CONSTANTS e1, e2, e3, e4, e5, safety, rate, breach, calm, gap, alarm, x1, x2, x3, x4

MCPolicies == <<safety, rate>>
MCMeasure ==
  breach :> (safety :> "within" @@ rate :> "breached") @@
  calm :> (safety :> "within" @@ rate :> "within") @@
  gap :> (safety :> "within" @@ rate :> "unmeasured") @@
  alarm :> (safety :> "breached" @@ rate :> "breached")
MCSnapshotOf == e1 :> breach @@ e2 :> breach @@ e3 :> calm @@ e4 :> gap @@ e5 :> alarm
\* e2 repeats e1 under a prefix of its own, e5 reuses the prefix of e3.
MCPrefixOf == e1 :> x1 @@ e2 :> x2 @@ e3 :> x3 @@ e4 :> x4 @@ e5 :> x3

================================================================================
