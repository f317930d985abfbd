------------------------------- MODULE ShadowCase -------------------------------
(***************************************************************************)
(* What shadow processing promises of one case identity, with its locks,   *)
(* crashes and analysis left out: a case is bound once to a key and a      *)
(* payload, gets one result, and every request that is answered gets that  *)
(* result; a request is refused only if it contradicts what is bound.      *)
(***************************************************************************)
CONSTANTS Request, Case, CaseOf, KeyOf, ContentOf, Result, None

VARIABLES
  shadow, \* shadow[c]: None, or what the case c is bound to and its result
  answer  \* answer[p]: how request p ended, and the result it got

vars == <<shadow, answer>>

Ended(how, result) == [how |-> how, result |-> result]

Init ==
  /\ shadow = [c \in Case |-> None]
  /\ answer = [p \in Request |-> Ended("not yet", None)]

Bound(c) == shadow[c] # None

Start(p) ==
  /\ ~Bound(CaseOf[p])
  /\ \A c \in Case : Bound(c) => shadow[c].key # KeyOf[p]
  /\ shadow' = [shadow EXCEPT ![CaseOf[p]] =
       [key |-> KeyOf[p], content |-> ContentOf[p], result |-> None]]
  /\ UNCHANGED answer

Finish(c) ==
  /\ Bound(c) /\ shadow[c].result = None
  /\ shadow'[c].result \in Result
  /\ shadow' = [shadow EXCEPT ![c].result = shadow'[c].result]
  /\ UNCHANGED answer

Answer(p) ==
  /\ answer[p].how = "not yet"
  /\ Bound(CaseOf[p]) /\ shadow[CaseOf[p]].content = ContentOf[p]
  /\ shadow[CaseOf[p]].result # None
  /\ answer' = [answer EXCEPT ![p] = Ended("answered", shadow[CaseOf[p]].result)]
  /\ UNCHANGED shadow

\* The key names another case, or the case has another payload.
Refuse(p) ==
  /\ answer[p].how = "not yet"
  /\ \E c \in Case : Bound(c) /\
       \/ c # CaseOf[p] /\ shadow[c].key = KeyOf[p]
       \/ c = CaseOf[p] /\ shadow[c].content # ContentOf[p]
  /\ answer' = [answer EXCEPT ![p] = Ended("refused", None)]
  /\ UNCHANGED shadow

\* No promise covers a request whose process or connection is lost.
Fail(p) ==
  /\ answer[p].how = "not yet"
  /\ answer' = [answer EXCEPT ![p] = Ended("failed", None)]
  /\ UNCHANGED shadow

Next ==
  \/ \E p \in Request : Start(p) \/ Answer(p) \/ Refuse(p) \/ Fail(p)
  \/ \E c \in Case : Finish(c)

Spec == Init /\ [][Next]_vars

================================================================================
