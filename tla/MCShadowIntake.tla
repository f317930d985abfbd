----------------------------- MODULE MCShadowIntake -----------------------------
(* Intake on a small instance: i1, which may die, and i2 import two cases in     *)
(* opposite orders and disagree on the content of ca; both cases are accepted,    *)
(* ca is excluded for two reasons at once, and cb has a synthetic identity.       *)
EXTENDS ShadowIntake, TLC

CONSTANTS i1, i2, a1, a2, e1, e2, r1, ca, cb, x1, x2, w1, w2

Line(c, x) == [case |-> c, content |-> x]
MCDocument ==
  i1 :> <<Line(ca, x1), Line(cb, x1)>> @@ i2 :> <<Line(cb, x1), Line(ca, x2)>>
MCTarget == a1 :> ca @@ a2 :> cb @@ e1 :> ca @@ e2 :> ca
MCReasonOf == e1 :> w1 @@ e2 :> w2

================================================================================
