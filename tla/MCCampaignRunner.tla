-------------------------- MODULE MCCampaignRunner --------------------------
(* Campaigns and base scenarios for checking CampaignRunner with TLC.      *)
EXTENDS CampaignRunner, TLC

Fault(i, a, s, d, c) == [id |-> i, active |-> a, start |-> s, duration |-> d, config |-> c]

Scenario(t, c, d, fs) ==
  [type |-> t, blocks |-> {"topic"}, constructible |-> c, decides |-> d, faults |-> fs]

NoConfig == [k \in {} |-> ""]

\* A sector from the start, and a disturbance for some of the time.
Scan == Scenario("scan", TRUE, TRUE,
          <<Fault("a", TRUE, FALSE, FALSE,
                  ("sector_min_deg" :> "0") @@ ("sector_max_deg" :> "170")),
            Fault("b", FALSE, TRUE, TRUE, NoConfig)>>)
\* Two definitions of one fault, and assertions that never decide.
Twice == Scenario("scan", TRUE, FALSE,
           <<Fault("a", TRUE, FALSE, TRUE, NoConfig), Fault("a", FALSE, TRUE, FALSE, NoConfig)>>)
\* A publisher on a topic name that rclcpp refuses.
BadTopic == [Scan EXCEPT !.constructible = FALSE]
OtherFaults == Scenario("scan", TRUE, TRUE, <<Fault("b", FALSE, FALSE, FALSE, NoConfig)>>)
\* A service block next to the topic, and no block.
OtherEndpoint == [Scan EXCEPT !.blocks = {"topic", "trigger_service"}]
NoEndpoint == [Scan EXCEPT !.blocks = {}]
MCScenarios == {Scan, Twice, BadTopic, OtherFaults, OtherEndpoint, NoEndpoint}

\* Beams with directions, and one of a scan without an angle_increment.
MCMessages ==
  {[type |-> "scan", field |-> "range", angle |-> 0, increment |-> i, value |-> Unit] :
     i \in {0, 1}}

Variant(id, key, values) == [fault |-> id, key |-> key, values |-> values]
Campaign(vs, r, t) == [variants |-> vs, repeats |-> r, timeout |-> t]

Sectors == Variant("a", "sector_min_deg", <<"170", "1e300">>)
Biases == Variant("b", "range_bias", <<"1", "1e-310">>)
Typo == Variant("b", "range_bias", <<"x", "0.5">>)

MCCampaigns ==
  {Campaign(<<Sectors, Biases>>, 1, 2000), Campaign(<<Biases>>, 2, 500),
   Campaign(<<Typo, Sectors>>, 1, NaN), Campaign(<<Typo, Biases>>, 0, 2000),
   Campaign(<<>>, 1, 2000), Campaign(<<Typo>>, 2, 2000)}

\* Only values every injector can handle.
Harmless == {Campaign(<<Variant("b", "range_bias", <<"0.5", "1">>)>>, 1, 2000)}
OnlyScan == {Scan}

MCOverrides == {0, 2000, 10000, -1000, Inf}
=============================================================================
