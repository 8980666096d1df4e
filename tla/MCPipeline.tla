----------------------------- MODULE MCPipeline -----------------------------
(***************************************************************************)
(* Small instances of Pipeline for TLC.                                    *)
(***************************************************************************)
EXTENDS Pipeline

\* The two largest opcodes: the answer to the first has the opcode of the
\* second, the opcode of the answer to the second has wrapped.
LargestOpcodes == {OpcodeMod - 2, OpcodeMod - 1}

FirstOfThem == {OpcodeMod - 2}

=============================================================================
