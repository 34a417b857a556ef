--------------------------- MODULE MCModbusClient ---------------------------
(* ModbusClient with two register blocks of one size, an oversized read and    *)
(* writes of one value to two addresses, in the program's two settings and in    *)
(* one with protocol recovery.                                                  *)
EXTENDS ModbusClient

Read(addr, nb) == [op |-> "read", addr |-> addr, arg |-> nb]
Write(addr, value) == [op |-> "write", addr |-> addr, arg |-> value]

\* Blocks of 2 registers, one of more than MaxReadRegisters = 3, and writes.
MCRequests == {Read(0, 2), Read(1, 2), Read(0, 4), Write(0, 1), Write(1, 1)}

Context(backend, recovery, lossy) ==
  [backend |-> backend, recovery |-> recovery, lossy |-> lossy]
MCSettings == {Context("tcp", FALSE, TRUE), Context("rtu", FALSE, TRUE),
               Context("tcp", TRUE, FALSE)}
=============================================================================
