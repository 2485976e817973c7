--------------------------- MODULE MCScenarioClock ---------------------------
(* Scenarios of two or three configurations over two services. *)
EXTENDS ScenarioClock, TLC

CONSTANTS a1, a2, v1, v2

None == [x \in {} |-> 0]
Cfg(theta, g, tech, fl) == [theta |-> theta, gama |-> g, tech_costs |-> tech, flows |-> fl]
At(t) == [time |-> t, written |-> "float"]

MC_ServicePrio == "voice" :> 1 @@ "data" :> 7
MC_W == "voice" :> 1 @@ "data" :> 1
MC_TechCost == 1 :> 1 @@ 2 :> 1

Voice == Cfg("voice" :> 2, {2}, None, <<a1, a2, "voice">> :> 9)
Data == Cfg("data" :> 3, {}, 2 :> 3, <<a1, a2, "voice">> :> 4)
Both == Cfg("voice" :> 3 @@ "data" :> 2, {3}, 1 :> 2, None)

(* Every timestamp is one the clock hits. *)
OnTheClockAll == {At(0) :> c @@ At(2) :> d @@ At(4) :> e : c, d, e \in {Voice, Data, Both}}
(* One lies between two calls, one is not written as Python writes it:      *)
(* SettingsAreLatest promises nothing of these two.                         *)
OffTheClock == {At(1) :> Voice @@ At(4) :> Data,
                [time |-> 2, written |-> "other"] :> Both @@ At(4) :> Data}
AnyClock == OnTheClockAll \cup OffTheClock
=============================================================================
