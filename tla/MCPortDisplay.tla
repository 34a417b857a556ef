--------------------------- MODULE MCPortDisplay ---------------------------
(* PortDisplay with ports of both kinds, by day, at dusk and by night, and with   *)
(* counters around the powers of ten and the width of a register.                *)
EXTENDS PortDisplay

MCModel == <<"HM", "HM", "MI", "none">>
MCMicroinverters == {{1, 2}, {3}}

\* Counters that fit the low register, and some around powers of ten that pass on to the
\* high one.
MCOneRegister == {0, 10, 65535}
MCTwoRegisters == {65535, 65536, 65546, 131072}

\* Voltage in 0.1 V, current in 0.1 A for an MI and in 0.01 A for an HM, power in
\* 0.1 W; the power that is measured differs a little from the product.
MCReadings ==
  [MI |-> {[u |-> 300, i |-> 50, p |-> p] : p \in {1490, 1500, 1510}}
          \cup {[u |-> 0, i |-> 0, p |-> 0]},
   HM |-> {[u |-> 300, i |-> 500, p |-> p] : p \in {1490, 1500, 1510}}
          \cup {[u |-> 250, i |-> 1, p |-> 3], [u |-> 0, i |-> 0, p |-> 0]},
   none |-> {[u |-> 0, i |-> 0, p |-> 0]}]

MCCommon == {"microinverterSerialNumber", "pvVoltage", "pvPower"}

\* Nothing, one parameter, a current, and names that do not exist.
MCAskedLists == {<<>>, <<"pvPower">>, <<"pvCurrentMI", "pvPower">>,
                 <<"x", "y", "z", "w">>, <<"pvPower", "pvPower">>}
MCNothingAsked == {<<>>}
=============================================================================
