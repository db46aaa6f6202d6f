------------------------- MODULE MCStatelessRouting -------------------------
(***************************************************************************)
(* Instances of StatelessRouting for TLC: what the users may do, how often, *)
(* and the configuration.                                                  *)
(***************************************************************************)
EXTENDS StatelessRouting

From(from, c) == [from |-> from, cmd |-> c, rail |-> Rail]
Dcc(c)        == [From("can", c) EXCEPT !.rail = "DCC"]

Key(at)   == From("i2c", Switch(at, "green", TRUE))
Line(k)   == From("line", Power(k))

CanSwitch(value) == From("can", Switch(1, value, TRUE))
LnSwitch(value)  == From("ln", Switch(1, value, TRUE))

\* Two keyboards, a CAN user and a LocoNet user on the same turnouts, one of the
\* other protocol and one out of reach of the I2C bus.
TurnoutUsers ==
  {Key(1), Key(17), CanSwitch("red"), Dcc(Switch(1, "green", TRUE)),
   From("can", Switch(257, "green", TRUE)), LnSwitch("red")}

\* Two keys of one decoder.
SameDecoder == {Key(1), Key(2)}

\* A key, and the track power, which keeps the central from answering.
PowerOfTrack == {Key(1), From("ln", Power("stop")), From("can", Power("go"))}

\* Power commands of all buses.
PowerUsers ==
  {Line("stop"), From("can", Power("go")), From("ln", Power("go")), From("ln", Power("stop"))}
LinesAndCan == {Line("stop"), Line("go"), From("can", Power("go"))}

\* Reports, queries and requests that fill the queue.
ReportUsers ==
  {From("can", Sensor(5, "closed")), From("ln", Sensor(6, "open")), From("ln", Query),
   CanSwitch("green"), LnSwitch("green")}

\* How many commands, how many early repetitions, with answers of our own or not.
Scenario(commands, n, early, respond) ==
  [commands |-> commands, ops |-> n, resends |-> early, respond |-> respond,
   active |-> TRUE, track |-> "go"]

AllScenarios ==
  {Scenario(TurnoutUsers, 2, 0, FALSE), Scenario(SameDecoder, 2, 1, FALSE),
   Scenario({Key(1), LnSwitch("red")}, 2, 1, FALSE), Scenario({Key(1), CanSwitch("red")}, 2, 0, TRUE),
   Scenario(PowerOfTrack, 3, 0, FALSE), Scenario(PowerUsers, 2, 0, FALSE), Scenario(LinesAndCan, 3, 0, FALSE),
   Scenario(ReportUsers, 3, 0, FALSE)}

LineUsers == {Scenario({Line("stop"), Line("go")}, 2, 0, FALSE)}
=============================================================================
