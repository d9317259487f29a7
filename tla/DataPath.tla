------------------------------ MODULE DataPath ------------------------------
(***************************************************************************)
(* The microinstructions of the Mic-1, and what the ALU and the shifter    *)
(* make of one: the part of src/mic1.c without state, which the models of  *)
(* the simulator and of the microassembler share.                          *)
(*                                                                         *)
(* A word of the control store is a record of its fields (mic1-util.h):    *)
(*   b     the register on the B bus, or "halt", or "none" (codes 9..14)   *)
(*   alu   what the ALU computes, or "random" for a code without a meaning *)
(*   sra1, sll8   the shifters                                             *)
(*   c     the registers loaded from the C bus                             *)
(*   mem   the memory operations started: "read", "write", "fetch"         *)
(*   jam   the conditions of the next address: "Z", "N", "MPC"             *)
(*   next  the next address                                                *)
(***************************************************************************)
EXTENDS Words

Registers == {"MAR", "MDR", "PC", "SP", "LV", "CPP", "TOS", "OPC", "H"}
BBus == (Registers \ {"MAR", "H"}) \union {"MBR", "MBRU", "none", "halt"}
Alu == {"H", "B", "inv H", "inv B", "B+H", "B+H+1", "H+1", "B+1", "B-H", "B-1",
        "-H", "B and H", "B or H", "0", "1", "-1", "random"}

MicroAddresses == 0 .. 511
IsMicroWord(w) ==
  w \in [b : BBus, alu : Alu, sra1 : BOOLEAN, sll8 : BOOLEAN,
         c : SUBSET Registers, mem : SUBSET {"read", "write", "fetch"},
         jam : SUBSET {"Z", "N", "MPC"}, next : MicroAddresses]

-----------------------------------------------------------------------------
\* The ALU of word w, with h and b on its inputs, when random() returns r.
AluResult(w, h, b, r) ==
  CASE w.alu = "H" -> h
    [] w.alu = "B" -> b
    [] w.alu = "inv H" -> -h - 1
    [] w.alu = "inv B" -> -b - 1
    [] w.alu = "B+H" -> ToWord(b + h)
    [] w.alu = "B+H+1" -> ToWord(b + h + 1)
    [] w.alu = "H+1" -> ToWord(h + 1)
    [] w.alu = "B+1" -> ToWord(b + 1)
    [] w.alu = "B-H" -> ToWord(b - h)
    [] w.alu = "B-1" -> ToWord(b - 1)
    [] w.alu = "-H" -> ToWord(-h)
    [] w.alu = "B and H" -> BitAnd(h, b)
    [] w.alu = "B or H" -> BitOr(h, b)
    [] w.alu = "0" -> 0
    [] w.alu = "1" -> 1
    [] w.alu = "-1" -> -1
    [] w.alu = "random" -> r

\* An arithmetic shift by one to the right, then a shift by a byte to the left.
Shifted(w, value) ==
  LET right == IF w.sra1 THEN value \div 2 ELSE value
  IN  IF w.sll8 THEN ToWord(right * 256) ELSE right
=============================================================================
