---------------------------- MODULE MCModbusLink ----------------------------
(* ModbusLink with every function code, in and out of range, and ten bits, so    *)
(* that the last byte of bits is not full.                                       *)
EXTENDS ModbusLink

MCMapping ==
  [NewMapping([bits |-> 1, inputBits |-> 1, registers |-> 1, inputRegisters |-> 4],
              [bits |-> 10, inputBits |-> 2, registers |-> 3, inputRegisters |-> 2])
   EXCEPT !.bits[1] = 1, !.bits[10] = 1, !.registers[2] = 258, !.inputRegisters[5] = 7]
MCOther == [MCMapping EXCEPT !.registers[1] = 9]

Q(fn, addr, nb, values) ==
  [raw |-> FALSE, fn |-> fn, unit |-> 1, addr |-> addr, nb |-> nb, values |-> values,
   writeAddr |-> 2]
Raw(fn, bytes) == [Q(fn, 0, 0, bytes) EXCEPT !.raw = TRUE]

MCReads ==
  {Q(ReadCoils, 1, 10, <<>>), Q(ReadDiscreteInputs, 2, 2, <<>>),
   Q(ReadHoldingRegisters, 1, 3, <<>>), Q(ReadHoldingRegisters, 1, 126, <<>>),
   Q(ReadInputRegisters, 4, 2, <<>>), Q(ReadInputRegisters, 4, 0, <<>>),
   Q(ReportSlaveId, 0, 0, <<>>)}
MCWrites ==
  {Q(WriteSingleCoil, 2, 0, <<1>>), Q(WriteSingleRegister, 3, 0, <<515>>),
   Q(WriteMultipleCoils, 2, 0, <<1, 0, 1, 1, 0, 0, 1, 0, 1>>),
   Q(WriteMultipleRegisters, 2, 0, <<1, 256>>), Q(WriteMultipleRegisters, 3, 0, <<1, 256>>),
   Q(MaskWriteRegister, 2, 0, <<242, 37>>),
   Q(WriteAndReadRegisters, 1, 2, <<772, 1>>)}
MCRaws ==
  {Raw(ReadExceptionStatus, <<>>), Raw(43, <<14, 1, 0>>),
   Raw(WriteSingleCoil, <<0, 1, 18, 52>>), Raw(WriteMultipleRegisters, <<0, 1, 0, 1, 1, 9>>)}
MCElsewhere ==
  {[Q(ReadHoldingRegisters, 1, 1, <<>>) EXCEPT !.unit = 2],
   [Q(WriteSingleRegister, 1, 0, <<4>>) EXCEPT !.unit = 2],
   [Q(WriteSingleRegister, 1, 0, <<4>>) EXCEPT !.unit = 0]}

MCRequests == MCReads \cup MCWrites \cup MCRaws \cup MCElsewhere
=============================================================================
