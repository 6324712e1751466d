------------------------- MODULE MCAssertionRunner -------------------------
(* Scenarios and bounds for checking AssertionRunner with TLC.             *)
EXTENDS AssertionRunner, TLC

CONSTANTS a1, a2, f1, f2

MCAssertions == {a1, a2}
MCFaultIds == {f1, f2}

OnEvent(f, state, within) ==
  [type |-> "fault_event", fault |-> f, state |-> state, within |-> within]
OnRate(window, count, within) ==
  [type |-> "topic_hz", window |-> window, count |-> count, within |-> within]

\* Every assertion has a deadline below the timeout; none has one that it can
\* miss; mixed; and one that the validator refuses.
AllDeadlines == (a1 :> OnEvent(f1, "active", 1)) @@ (a2 :> OnRate(2, 2, 2))
NoDeadlines == (a1 :> OnEvent(f1, "inactive", NoTime)) @@ (a2 :> OnRate(1, 3, NaN))
Mixed == (a1 :> OnEvent(f1, "active", NoTime)) @@ (a2 :> OnEvent(f2, "active", 0))
Refused == (a1 :> OnEvent(f1, "config_updated", NoTime)) @@ (a2 :> OnRate(1, 0, -1))
MCConfigs == {AllDeadlines, NoDeadlines, Mixed, Refused}

Active(f) == [fault |-> f, state |-> "active"]
\* No fault is active on startup, one, or one more than the subscription keeps.
MCStartups == {<<>>, <<Active(f1)>>, <<Active(f1), Active(f2), Active(f2)>>}
=============================================================================
