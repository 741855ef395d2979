-------------------------- MODULE MCRosParameters --------------------------
\* Settings for the runs of RosParameters.
EXTENDS RosParameters

\* Given at launch: a profile that the device does not support, and values of a wrong
\* type.
Given(value) == [p \in Param |-> IF p \in DOMAIN value THEN value[p] ELSE NotGiven]
WrongProfile == Given([profile |-> 3])
WrongType == Given([profile |-> 3, enable |-> Mistyped])
WrongGain == Given([gain |-> Mistyped, sequence_id |-> 2])

AnyOrder == [used |-> {"profile", "gain", "right"}, launch |-> WrongProfile,
             groups |-> TRUE, patient |-> FALSE, sets |-> 3]
Patiently == [used |-> Param \ {"right"}, launch |-> WrongType,
              groups |-> FALSE, patient |-> TRUE, sets |-> 4]
NoGain == [used |-> {"profile", "gain", "sequence_id"}, launch |-> WrongGain,
           groups |-> FALSE, patient |-> FALSE, sets |-> 3]

AllSettings == {AnyOrder, Patiently, NoGain}
=============================================================================
