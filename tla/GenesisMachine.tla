---- MODULE GenesisMachine ----
(***************************************************************************)
(* The original machine as the adapter drives it.  The instruction         *)
(* interpreter and the scheduler belong to the PortForge board (a git      *)
(* submodule); only what native/machine.cpp and the Python layer rely on   *)
(* is modelled: a fixed program, the cost of each instruction, a vertical  *)
(* interrupt admitted at the first instruction boundary at or after its    *)
(* instant, a pad latch the program reads, and one word of the stack frame *)
(* that a platform operation may overwrite.                                *)
(*                                                                         *)
(* A machine state carries the order in which things happened (where the   *)
(* interrupt landed, which mask was read), so two trajectories that differ *)
(* in anything the game could notice are different states.                 *)
(***************************************************************************)
EXTENDS Integers, Sequences

CONSTANTS Main,          \* the game's loop: a sequence of instructions
          Handler,       \* the vertical interrupt's instructions
          FrameTicks,    \* board.frame_ticks
          VBlankOffset,  \* board.vblank_offset_ticks
          Divider,       \* board.m68k_divider: master ticks per CPU cycle
          Masks          \* pad masks a player may hold; 0 is among them

Effects == {"work", "read", "push", "smash", "pop"}
Instruction == [pc : Nat, sp : Nat, cycles : Nat \ {0}, effect : Effects]

ASSUME MachineAssumption ==
    /\ Main \in Seq(Instruction) /\ Len(Main) > 0
    /\ Handler \in Seq(Instruction) /\ Len(Handler) > 0
    /\ FrameTicks \in Nat \ {0} /\ Divider \in Nat \ {0}
    /\ VBlankOffset \in 0..(FrameTicks - 1)
    /\ 0 \in Masks /\ Masks \subseteq Nat

Machine == [at : 1..Len(Main),             \* next instruction of the loop
            isr : 0..Len(Handler),         \* next of the handler, 0 outside it
            now : Nat,                     \* master_cycles
            irqs : Nat,                    \* interrupts delivered
            irqAt : 0..Len(Main),          \* where the last one landed
            pad : Masks,                   \* io.pad1
            seen : Masks,                  \* the mask last read by the game
            frame : {"intact", "smashed"}] \* the saved stack word

PowerOn == [at |-> 1, isr |-> 0, now |-> 0, irqs |-> 0, irqAt |-> 0,
            pad |-> 0, seen |-> 0, frame |-> "intact"]

\* Interrupt admission precedes every instruction (and the adapter's gate).
InterruptDue(m) == m.isr = 0 /\ m.now >= m.irqs * FrameTicks + VBlankOffset
Boundary(m) == IF InterruptDue(m)
               THEN [m EXCEPT !.isr = 1, !.irqs = @ + 1, !.irqAt = m.at]
               ELSE m

Current(m) == IF m.isr > 0 THEN Handler[m.isr] ELSE Main[m.at]

Following(at) == IF at = Len(Main) THEN 1 ELSE at + 1

\* The effect of one instruction: a pop returns through the saved word, and a
\* smashed word (a platform operation under a held button) returns elsewhere.
Execute(m) ==
    LET i == Current(m)
        inMain == m.isr = 0
    IN  [m EXCEPT
          !.now = @ + i.cycles * Divider,
          !.seen = IF i.effect = "read" THEN m.pad ELSE @,
          !.frame = IF i.effect = "push" THEN "intact"
                    ELSE IF i.effect = "smash" /\ m.seen # 0 THEN "smashed" ELSE @,
          !.isr = IF inMain THEN 0 ELSE IF @ = Len(Handler) THEN 0 ELSE @ + 1,
          !.at = IF ~inMain THEN @
                 ELSE IF i.effect = "pop" /\ m.frame = "smashed" THEN 1
                 ELSE Following(@)]

\* The original's own run to an instant: whole instructions until it is passed.
RunOriginal(start, target) ==
    LET Ran[m \in Machine] == IF m.now >= target THEN m ELSE Ran[Execute(Boundary(m))]
    IN  Ran[start]
====
