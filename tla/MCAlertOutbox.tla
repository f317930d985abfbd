----------------------------- MODULE MCAlertOutbox -----------------------------
(* Constant values for the model-checking runs of AlertOutbox. *)
EXTENDS AlertOutbox, TLC

CONSTANTS p1, p2, w1, w2

\* Two processes started with the same --worker-id.
SharedId == p1 :> w1 @@ p2 :> w1
\* Two processes with ids of their own.
OwnId == p1 :> w1 @@ p2 :> w2
================================================================================
