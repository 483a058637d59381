--------------------------- MODULE SimulationRunner ---------------------------
(***************************************************************************)
(* Simulation::Run (src/src/simulation_runner.h): one MPI rank builds the  *)
(* managers of a simulation as locals, each from the ones built before it, *)
(* flushes the log, runs Initialization and ComputeLoop and flushes again. *)
(* On return, or when a call throws, the locals are destroyed in reverse   *)
(* order of construction.                                                  *)
(*                                                                         *)
(* Each manager is built by an Initialize* function that receives earlier  *)
(* managers by reference.  What the functions compute is outside src/; the *)
(* model keeps the order of the statements, that every call may throw      *)
(* (each reads user input or runs the simulation), and C++'s order of      *)
(* destruction.  Logging and MPI_Comm_size, which only feeds a log         *)
(* message, are left out, and so are the other ranks: Run is modelled on   *)
(* one rank.                                                               *)
(***************************************************************************)
EXTENDS Integers, Sequences

VARIABLES
    pc,         \* index in Program of the next statement of Run
    live,       \* the locals constructed and not yet destroyed, oldest first
    phase       \* "run", "unwind" (returning or propagating), "done"

vars == <<pc, live, phase>>

Objects == {"unit_handler", "material_manager", "topology_manager", "tree",
            "multiresolution", "communication_manager",
            "external_halo_manager", "internal_halo_manager", "halo_manager",
            "output_writer", "restart_manager", "input_output_manager",
            "initial_condition", "mr_based_algorithm"}

Construct(o) == [op |-> "construct", obj |-> o]
Call(f) == [op |-> "call", obj |-> f]

\* The statements of Run in the order they execute.
Program ==
    << Construct("unit_handler"), Construct("material_manager"),
       Construct("topology_manager"), Construct("tree"),
       Construct("multiresolution"), Construct("communication_manager"),
       Construct("external_halo_manager"), Construct("internal_halo_manager"),
       Construct("halo_manager"),
       Construct("output_writer"), Construct("restart_manager"),
       Construct("input_output_manager"), Construct("initial_condition"),
       Construct("mr_based_algorithm"),
       Call("FlushWelcomeMessage"), Call("Flush"),
       Call("Initialization"), Call("ComputeLoop"), Call("Flush") >>

Init ==
    /\ pc = 1
    /\ live = <<>>
    /\ phase = "run"

\* Seeded fault: the statement counter advanced past the next statement.
StepTwice ==
    /\ phase = "run"
    /\ pc <= Len(Program)
    /\ live' = IF Program[pc].op = "construct" THEN Append(live, Program[pc].obj) ELSE live
    /\ pc' = pc + 2
    /\ UNCHANGED phase

\* The statement at pc returns normally: a constructed manager becomes a
\* live local.
Step ==
    /\ phase = "run"
    /\ pc <= Len(Program)
    /\ live' = IF Program[pc].op = "construct" THEN Append(live, Program[pc].obj) ELSE live
    /\ pc' = pc + 1
    /\ UNCHANGED phase

\* The statement at pc throws: its object is not constructed and the
\* exception leaves Run.
Throw ==
    /\ phase = "run"
    /\ pc <= Len(Program)
    /\ phase' = "unwind"
    /\ UNCHANGED <<pc, live>>

\* The end of Run's body is reached.
Return ==
    /\ phase = "run"
    /\ pc = Len(Program) + 1
    /\ phase' = "unwind"
    /\ UNCHANGED <<pc, live>>

\* Leaving Run's scope destroys the most recently constructed live local.
Destroy ==
    /\ phase = "unwind"
    /\ live # <<>>
    /\ live' = SubSeq(live, 1, Len(live) - 1)
    /\ UNCHANGED <<pc, phase>>

\* Every local is destroyed: Run has returned or the exception has left it.
Leave ==
    /\ phase = "unwind"
    /\ live = <<>>
    /\ phase' = "done"
    /\ UNCHANGED <<pc, live>>

Next == Step \/ Throw \/ Return \/ Destroy \/ Leave

Spec == Init /\ [][Next]_vars

-----------------------------------------------------------------------------

\* Type invariant of Run's frame.
RunnerTypeOK ==
    /\ pc \in 1 .. Len(Program) + 1
    /\ live \in Seq(Objects)
    /\ phase \in {"run", "unwind", "done"}

=============================================================================
