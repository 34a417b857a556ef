----------------------------- MODULE MCSession -----------------------------
(* Session with a microinverter of two ports beside one of one, or none.       *)
EXTENDS Session

Short(text) == [form |-> "short", text |-> text]
Long(text) == [form |-> "long", text |-> text]
Mark == [form |-> "mark", text |-> <<>>]

\* The words are numbers (two serials, an address that is right, one out of range,
\* more than a register holds), words for flags, names, nothing, and a comma alone.
MCNumber == [n \in {"", "-1", "0", "1", "11", "12", "99", "300", "70000"} |->
               CASE n = "-1" -> -1 [] n \in {"", "0"} -> 0 [] n = "1" -> 1 [] n = "11" -> 11
                 [] n = "12" -> 12 [] n = "99" -> 99 [] n = "300" -> 300
                 [] OTHER -> 70000]
MCTrueWords == {"true", "on"}
MCFalseWords == {"false"}
MCStatusNames == {"onOff"}

\* What the parser may get to see, in lines of up to three arguments in any order.
Pieces == {Short(<<"w">>), Short(<<"a">>), Short(<<"P">>), Short(<<"x">>), Mark,
           Short(<<"A", "w">>), Short(<<"w", "S">>), Short(<<"w", "V", "1">>), Short(<<"h">>),
           Long(<<"all_parameters", "false">>), Long(<<"parameters", "n", "n">>),
           Long(<<"version">>), Word(<<"1">>), Word(<<"-1">>), Word(<<"n">>), Word(<<>>)}
ShortLines == UNION {[1 .. n -> Pieces] : n \in 0 .. 3}

\* Whole command lines: a transport, a task and a choice.
Transports ==
  {<<>>,
   <<Short(<<"t">>), Short(<<"i">>), Word(<<"host">>)>>,
   <<Short(<<"t">>)>>,
   <<Long(<<"rt_device_address", "1">>), Short(<<"d", "tty">>), Short(<<"r">>)>>,
   <<Short(<<"r", "a", "300">>), Long(<<"serial_device_address", "tty">>)>>,
   <<Short(<<"r", "d", "tty">>)>>,
   <<Short(<<"r", "d", "tty">>), Long(<<"rt_device_address">>), Word(<<"">>), Short(<<"v">>)>>,
   <<Short(<<"r", "t">>), Short(<<"a", "1">>), Short(<<"d", "tty">>), Short(<<"i", "host">>)>>,
   <<Long(<<"rtu", "false">>), Short(<<"t">>), Short(<<"i", "host">>)>>,
   <<Short(<<"i", "host">>)>>}
Tasks ==
  {<<>>, <<Short(<<"A", "I">>)>>, <<Short(<<"P">>), Word(<<"n", "n">>)>>, <<Short(<<"M">>)>>,
   <<Short(<<"w", "S", "onOff">>), Short(<<"V">>), Word(<<"1">>)>>,
   <<Short(<<"w", "S">>), Word(<<"onOff">>), Short(<<"V", "70000">>)>>,
   <<Long(<<"status", "onOff">>), Short(<<"w">>)>>,
   <<Long(<<"write", "false">>), Short(<<"S", "other">>), Short(<<"A">>)>>,
   <<Short(<<"w", "S">>), Word(<<"">>), Short(<<"V">>), Word(<<"">>)>>}
Selections ==
  {<<>>, <<Short(<<"m", "12">>)>>, <<Long(<<"microinverters", "11", "99", "11">>)>>,
   <<Short(<<"m">>), Word(<<"11">>), Word(<<"12", "99">>), Mark>>}
WholeLines == {t \o task \o c : t \in Transports, task \in Tasks, c \in Selections}

MCLines == ShortLines \cup WholeLines

MCSerials == {11, 12}
MCLayouts == {<<>>, <<11, 11, 12>>, <<12, 11>>}

\* -1, the right address by chance, another one, and one out of range.
MCGarbage == {-1, 1, 7, 4096}
=============================================================================
