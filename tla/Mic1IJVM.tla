------------------------------- MODULE Mic1IJVM -------------------------------
(***************************************************************************)
(* The Mic-1 with the microprogram of src/test/ijvm.mal, as an             *)
(* implementation of the interpreter of src/ijvm.c.                        *)
(*                                                                         *)
(* An IJVM instruction takes several cycles here, in the middle of which   *)
(* the registers are no state of the interpreter.  `trace' keeps the state *)
(* at the last trace point: where mic1 prints an IJVM instruction, before  *)
(* a word that goes to (MBR), and where it stops.                          *)
(***************************************************************************)
EXTENDS Mic1

VARIABLE trace

mic1IjvmVars == <<mic1Vars, trace>>

\* mic1_print_state and mic1_print_instruction.
AtTracePoint(w) == "MPC" \in w.jam \/ w.b = "halt"

Observed(w, newStatus) ==
  [mem |-> mem', sp |-> ToUWord(reg'["SP"]), lv |-> ToUWord(reg'["LV"]),
   pc |-> ToUWord(reg'["PC"]), wide |-> "MPC" \in w.jam /\ w.next = 256,
   status |-> newStatus, result |-> result']

Observe ==
  \E w \in {ControlStore[mpc']} :
    trace' = CASE status' = "run" -> IF AtTracePoint(w) THEN Observed(w, "run") ELSE trace
               [] status' = "halted" -> Observed(w, "returned")
               [] OTHER -> [trace EXCEPT !.status = status']

TracedInit ==
  /\ Init
  /\ trace = [mem |-> mem, sp |-> 0, lv |-> 0, pc |-> INITIAL_PC,
              wide |-> FALSE, status |-> "start", result |-> 0]

TracedNext == Next /\ Observe

TracedSpec == TracedInit /\ [][TracedNext]_mic1IjvmVars /\ WF_mic1IjvmVars(TracedNext)

-----------------------------------------------------------------------------
Interpreter ==
  INSTANCE IJVM WITH mem <- trace.mem, sp <- trace.sp, lv <- trace.lv,
                     pc <- trace.pc, wide <- trace.wide,
                     input <- program.input, output <- <<>>,
                     status <- trace.status, result <- trace.result

\* "The execution traces from the two simulators are identical" (ChangeLog,
\* 1999-11-24): from one trace point to the next the microprogram does to
\* memory, stack and registers what ijvm.c does for the opcode, and it stops
\* when and with what ijvm stops.  (For programs whose opcodes ijvm.mal has.)
RefinesInterpreter == Interpreter!Spec

\* Every register has a value of its C type.
Mic1TypeOK ==
  /\ program \in Programs
  /\ mem \in [Address -> Word]
  /\ reg \in [Registers -> Word]
  /\ mbr \in Byte
  /\ mpc \in MicroAddresses
  /\ doingRd \in BOOLEAN /\ doingFetch \in BOOLEAN
  /\ status \in {"start", "run", "exited", "halted", "undefined"}
  /\ result \in Word

\* A goto (MBR) goes to the microcode of the opcode that PC points at: the
\* opcode's byte has been fetched in time, whatever path led to `main', and no
\* fetch of an operand is mistaken for it.
DispatchesOnOpcode ==
  [][Cycle /\ "MPC" \in word.jam
       => mpc' = word.next + ByteOf(mem, reg["PC"])]_mic1IjvmVars

\* Whenever the next IJVM instruction starts TOS has the word on top of the
\* stack in memory, if the method has any operand: no microcode leaves TOS
\* behind memory, though invokevirtual leaves it with something else.
HasOperand == reg["SP"] > mem[reg["LV"]] + 1
TosIsTopOfStack ==
  status = "run" /\ "MPC" \in word.jam /\ HasOperand
    => reg["TOS"] = mem[reg["SP"]]
=============================================================================
