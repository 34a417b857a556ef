-------------------------- MODULE MCModbusContext --------------------------
(* ModbusContext with as many descriptors as two contexts and a listener need, *)
(* and a rate that no constant stands for.  A program uses one context of any    *)
(* kind with its timeouts, one on a serial line with its mode and signal, two on  *)
(* the network, or one on the network and one on a serial line.                  *)
EXTENDS ModbusContext, TLC

CONSTANTS c1, c2

Uses(kinds, settings) == [kinds |-> kinds, settings |-> settings]
MCPrograms ==
  {(c1 :> Uses(one[1], one[2]) @@ c2 :> Uses(one[3], one[4])) :
     one \in {<<Kinds, {"recovery", "byte", "indication"}, {}, {}>>,
              <<{"rtu"}, {"recovery", "mode", "rts"}, {}, {}>>,
              <<{"tcp", "pi"}, {"recovery"}, {"tcp", "pi"}, {}>>,
              <<{"tcp"}, {"recovery"}, {"rtu"}, {}>>}}
MCDescriptors == 0 .. 2
=============================================================================
