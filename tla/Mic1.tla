--------------------------------- MODULE Mic1 ---------------------------------
(***************************************************************************)
(* The simulator of the Mic-1 microarchitecture, src/mic1.c: mic1_new,     *)
(* then one step for every cycle of the main loop, until the word at mpc   *)
(* is a halt.                                                              *)
(***************************************************************************)
EXTENDS Image, DataPath

CONSTANTS ControlStore,   \* the microprogram: the word at every address
          Entry,          \* where it starts
          RandomWords     \* what random() may return

ASSUME MicroprogramAssumption ==
  /\ DOMAIN ControlStore = MicroAddresses
  /\ \A a \in MicroAddresses : IsMicroWord(ControlStore[a])
  /\ Entry \in MicroAddresses
  /\ RandomWords \subseteq Word /\ RandomWords # {}

VARIABLES program,      \* the IJVM program, chosen once
          mem,
          reg,          \* the registers the C bus loads
          mbr,          \* the byte register, read as MBR or as MBRU
          mpc,
          doingRd, doingFetch,   \* started in the cycle before
          status,       \* "start", "run", "exited", "halted" or "undefined"
          result        \* the return value printed

mic1Vars == <<program, mem, reg, mbr, mpc, doingRd, doingFetch, status, result>>

Init ==
  /\ program \in Programs
  /\ mem = [w \in Address |-> 0]
  /\ reg = [r \in Registers |-> 0]
  /\ mbr = 0
  /\ mpc = Entry
  /\ doingRd = FALSE /\ doingFetch = FALSE
  /\ status = "start"
  /\ result = 0

-----------------------------------------------------------------------------
\* mic1_new: main's index is in H, for a microprogram that starts with a call.
\* The number of arguments is not compared with main's.
Load ==
  /\ status = "start"
  /\ ArgumentsTop(program) \in Address
  /\ ArgumentsAreNumbers(program)
  /\ mem' = WithArguments(program, Loaded(program))
  /\ reg' = [reg EXCEPT !["H"] = program.main,
                        !["CPP"] = CppOf(program),
                        !["SP"] = ArgumentsTop(program)]
  /\ status' = "run"
  /\ UNCHANGED <<program, mbr, mpc, doingRd, doingFetch, result>>

\* "Invalid argument to main method".
RefuseArgument ==
  /\ status = "start"
  /\ ArgumentsTop(program) \in Address
  /\ ~ArgumentsAreNumbers(program)
  /\ status' = "exited"
  /\ UNCHANGED <<program, mem, reg, mbr, mpc, doingRd, doingFetch, result>>

-----------------------------------------------------------------------------
(* mic1_cycle: the word at mpc, then the data path, in the order of the C. *)

word == ControlStore[mpc]
Active == word.b # "halt"

\* Faulty: MBR is read without its sign.
OnBBusUnsigned(w, r) ==
  CASE w.b \in {"MBR", "MBRU"} -> mbr
    [] w.b \in Registers -> reg[w.b]
    [] OTHER -> r

\* The B bus, when random() returns r.
OnBBus(w, r) ==
  CASE w.b = "MBR" -> Signed(mbr, 256)
    [] w.b = "MBRU" -> mbr
    [] w.b \in Registers -> reg[w.b]
    [] OTHER -> r

\* A read or fetch started in the cycle before ends now, with the MAR and the PC
\* from before this cycle.  It is the MAR that is compared with the size of the
\* memory, for a fetch too.
FetchIsChecked == reg["MAR"] \in ByteAddress
FetchIsDefined == doingFetch /\ FetchIsChecked => reg["PC"] \in ByteAddress

MdrRead == IF reg["MAR"] \in Address THEN mem[reg["MAR"]] ELSE 0
\* Faulty: the C bus loads the registers before the byte is fetched.
ByteFetchedLate == IF FetchIsChecked THEN ByteOf(mem, reg'["PC"]) ELSE 0
ByteFetched == IF FetchIsChecked THEN ByteOf(mem, reg["PC"]) ELSE 0

\* Registers the C bus loads get its value, MDR what was read if it does not.
Clocked(w, value) ==
  [r \in Registers |-> IF r \in w.c THEN value
                       ELSE IF r = "MDR" /\ doingRd THEN MdrRead
                       ELSE reg[r]]

\* The conditions that set the top bit of the address, and the byte of MPC.
NextAddress(w, value, byte) ==
  LET jammed == \/ "Z" \in w.jam /\ value = 0
                \/ "N" \in w.jam /\ value < 0
      low == w.next % 256
      high == IF jammed THEN 256 ELSE w.next - low
  IN  high + (IF "MPC" \in w.jam THEN low + byte - AndByte(low, byte) ELSE low)

\* A write uses the registers r that the C bus has loaded, in the same cycle.
\* Faulty: it uses those from before this cycle.
WrittenEarly(w, r) ==
  IF "write" \in w.mem /\ reg["MAR"] \in Address
  THEN [mem EXCEPT ![reg["MAR"]] = reg["MDR"]]
  ELSE mem
Written(w, r) ==
  IF "write" \in w.mem /\ r["MAR"] \in Address
  THEN [mem EXCEPT ![r["MAR"]] = r["MDR"]]
  ELSE mem

\* A read and a fetch go on into the next cycle.
\* Faulty: there is one port to the memory, and the word store comes first.
StartsOnOnePort(operation, w) ==
  operation \in w.mem /\ (operation = "fetch" => w.mem = {"fetch"})
Starts(operation, w) == operation \in w.mem

\* The cycle of word w with value on the C bus.
Clock(w, value) ==
  /\ reg' = Clocked(w, value)
  /\ mbr' = IF doingFetch THEN ByteFetched ELSE mbr
  /\ mem' = Written(w, reg')
  /\ doingRd' = Starts("read", w)
  /\ doingFetch' = Starts("fetch", w)
  /\ mpc' = NextAddress(w, value, mbr')
  /\ UNCHANGED <<program, status, result>>

Cycle ==
  /\ status = "run" /\ Active /\ FetchIsDefined
  /\ \E w \in {word}, r \in RandomWords :
       \E value \in {Shifted(w, AluResult(w, reg["H"], OnBBus(w, r), r))} :
         Clock(w, value)

\* mic1_active is false: the main loop ends, and the top of stack is printed.
Halt ==
  /\ status = "run" /\ ~Active
  /\ status' = "halted"
  /\ result' = reg["TOS"]
  /\ UNCHANGED <<program, mem, reg, mbr, mpc, doingRd, doingFetch>>

\* The image does not fit, or a byte outside the memory is fetched.
OutOfBounds ==
  /\ \/ status = "start" /\ ArgumentsTop(program) \notin Address
     \/ status = "run" /\ Active /\ ~FetchIsDefined
  /\ status' = "undefined"
  /\ UNCHANGED <<program, mem, reg, mbr, mpc, doingRd, doingFetch, result>>

Stopped ==
  /\ status \in {"exited", "halted", "undefined"}
  /\ UNCHANGED mic1Vars

Next == Load \/ RefuseArgument \/ Cycle \/ Halt \/ OutOfBounds \/ Stopped

\* The simulator is one sequential loop: it runs whenever it can.
Spec == Init /\ [][Next]_mic1Vars /\ WF_mic1Vars(Next)
-----------------------------------------------------------------------------
\* "load registers from C bus and MBR/MDR from memory if previous cycle
\* initiated a fetch/rd" (mic1.c:325): a fetch from a byte of the memory ends
\* with that byte in MBR, whatever the register of the word port holds.
FetchesFromMemory ==
  [][Cycle /\ doingFetch /\ reg["PC"] \in ByteAddress
       => mbr' = ByteOf(mem, reg["PC"])]_mic1Vars
=============================================================================
