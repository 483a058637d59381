------------------------ MODULE SimulationRunnerProofs ------------------------
(***************************************************************************)
(* Proofs about Simulation::Run: its statement counter, its locals and its *)
(* phase stay in their ranges, shown through the inductive invariant that *)
(* the locals alive at any moment are the first managers of Program in    *)
(* declaration order.                                                      *)
(***************************************************************************)
EXTENDS SimulationRunner, SequenceTheorems, TLAPS

\* The number of managers built once the statements before pc returned:
\* the first 14 statements of Run are the constructions.
NBuilt(p) == IF p - 1 <= 14 THEN p - 1 ELSE 14

\* The live locals are a prefix of the managers Program builds, all of them
\* while Run executes its statements.
LivePrefix ==
    /\ Len(live) <= NBuilt(pc)
    /\ \A i \in 1 .. Len(live) : live[i] = Program[i].obj
    /\ phase = "run" => Len(live) = NBuilt(pc)

IInv == RunnerTypeOK /\ LivePrefix

\* At most the 14 managers are built.
LEMMA BuiltBound ==
    ASSUME NEW p \in 1 .. 20, NEW n \in Nat, n <= NBuilt(p)
    PROVE  n \in 0 .. 14
BY DEF NBuilt

\* One manager fewer than are built is still at most as many.
LEMMA BuiltDrop ==
    ASSUME NEW p \in 1 .. 20, NEW n \in 1 .. 14, n <= NBuilt(p)
    PROVE  n - 1 \in Nat /\ n - 1 <= NBuilt(p)
BY DEF NBuilt

\* Removing the last element: the length of SubSeq(s, 1, Len(s) - 1).
LEMMA LastDropped ==
    ASSUME NEW n \in Nat, n >= 1, NEW L, L = IF 1 <= n - 1 THEN n - 1 - 1 + 1 ELSE 0
    PROVE  L = n - 1
OBVIOUS

\* Destroying the newest local keeps the others, in order.
LEMMA DropLast ==
    ASSUME NEW S, NEW s \in Seq(S), Len(s) >= 1
    PROVE  LET t == SubSeq(s, 1, Len(s) - 1)
           IN  /\ t \in Seq(S) /\ Len(t) = Len(s) - 1
               /\ \A i \in 1 .. Len(t) : t[i] = s[i]
<1>1. Len(s) \in Nat /\ \A i \in 1 .. Len(s) : s[i] \in S
  BY LenProperties
<1>2. \A i \in 1 .. Len(s) - 1 : s[i] \in S
  BY <1>1
<1>3. /\ SubSeq(s, 1, Len(s) - 1) \in Seq(S)
      /\ Len(SubSeq(s, 1, Len(s) - 1)) = IF 1 <= Len(s) - 1 THEN Len(s) - 1 - 1 + 1 ELSE 0
      /\ \A i \in 1 .. Len(s) - 1 - 1 + 1 : SubSeq(s, 1, Len(s) - 1)[i] = s[1 + i - 1]
  BY <1>1, <1>2, SubSeqProperties
<1>4. Len(SubSeq(s, 1, Len(s) - 1)) = Len(s) - 1
  BY <1>1, <1>3, LastDropped
<1>5. \A i \in 1 .. Len(s) - 1 : SubSeq(s, 1, Len(s) - 1)[i] = s[i]
  BY <1>1, <1>3
<1>. QED  BY <1>3, <1>4, <1>5
-----------------------------------------------------------------------------
(* Facts about Program.                                                    *)

LEMMA ProgramShape ==
    /\ Len(Program) = 19
    /\ \A i \in 1 .. 14 : Program[i].op = "construct" /\ Program[i].obj \in Objects
    /\ \A i \in 15 .. 19 : Program[i].op = "call"
BY DEF Program, Construct, Call, Objects

-----------------------------------------------------------------------------
(* The inductive invariant.                                                *)

LEMMA InitIInv == Init => IInv
BY ProgramShape DEF Init, IInv, RunnerTypeOK, LivePrefix, NBuilt

LEMMA NextIInv == IInv /\ [Next]_vars => IInv'
<1>. SUFFICES ASSUME IInv, [Next]_vars PROVE IInv'
  OBVIOUS
<1>0. /\ pc \in 1 .. 20 /\ live \in Seq(Objects) /\ Len(live) \in 0 .. 14
      /\ phase \in {"run", "unwind", "done"}
      /\ Len(live) <= NBuilt(pc)
      /\ \A i \in 1 .. Len(live) : live[i] = Program[i].obj
      /\ phase = "run" => Len(live) = NBuilt(pc)
  <2>1. pc \in 1 .. 20 /\ live \in Seq(Objects) /\ phase \in {"run", "unwind", "done"}
    BY ProgramShape DEF IInv, RunnerTypeOK
  <2>2. Len(live) \in Nat
    BY <2>1
  <2>3. /\ Len(live) <= NBuilt(pc)
        /\ \A i \in 1 .. Len(live) : live[i] = Program[i].obj
        /\ phase = "run" => Len(live) = NBuilt(pc)
    BY DEF IInv, LivePrefix
  <2>. QED  BY <2>1, <2>2, <2>3, BuiltBound
<1>. SUFFICES /\ pc' \in 1 .. 20 /\ live' \in Seq(Objects)
              /\ phase' \in {"run", "unwind", "done"}
              /\ Len(live') <= NBuilt(pc')
              /\ \A i \in 1 .. Len(live') : live'[i] = Program[i].obj
              /\ phase' = "run" => Len(live') = NBuilt(pc')
  BY ProgramShape DEF IInv, RunnerTypeOK, LivePrefix
<1>1. CASE Step
  <2>1. CASE pc <= 14
    <3>1. live' = Append(live, Program[pc].obj) /\ pc' = pc + 1 /\ phase' = phase
      BY <1>0, <1>1, <2>1, ProgramShape DEF Step
    <3>2. Len(live) = pc - 1 /\ phase = "run"
      BY <1>0, <1>1, <2>1 DEF Step, NBuilt
    <3>3. Program[pc].obj \in Objects
      BY <1>0, <2>1, ProgramShape
    <3>4. live' \in Seq(Objects) /\ Len(live') = pc
      BY <1>0, <3>1, <3>2, <3>3, AppendProperties
    <3>5. \A i \in 1 .. Len(live') : live'[i] = Program[i].obj
      BY <1>0, <3>1, <3>2, <3>3, <3>4, AppendProperties
    <3>6. NBuilt(pc') = pc
      BY <1>0, <2>1, <3>1 DEF NBuilt
    <3>. QED  BY <1>0, <2>1, <3>1, <3>4, <3>5, <3>6
  <2>2. CASE pc > 14
    <3>0. pc \in 15 .. 19
      BY <1>0, <1>1, <2>2, ProgramShape DEF Step
    <3>a. Program[pc].op # "construct"
      BY <3>0, ProgramShape
    <3>1. live' = live /\ pc' = pc + 1 /\ phase' = phase /\ pc <= 19
      BY <1>1, <3>0, <3>a DEF Step
    <3>2. NBuilt(pc') = NBuilt(pc) /\ pc' \in 1 .. 20
      BY <1>0, <2>2, <3>1 DEF NBuilt
    <3>. QED  BY <1>0, <3>1, <3>2
  <2>. QED  BY <1>0, <2>1, <2>2
<1>2. CASE Throw
  BY <1>0, <1>2 DEF Throw
<1>3. CASE Return
  BY <1>0, <1>3 DEF Return
<1>4. CASE Destroy
  <2>1. live' = SubSeq(live, 1, Len(live) - 1) /\ Len(live) >= 1
        /\ pc' = pc /\ phase' = "unwind"
    BY <1>4 DEF Destroy
  <2>2. /\ live' \in Seq(Objects) /\ Len(live') = Len(live) - 1
        /\ \A i \in 1 .. Len(live') : live'[i] = live[i]
    BY <1>0, <2>1, DropLast
  <2>3. Len(live') <= NBuilt(pc')
    <3>0. Len(live) \in 1 .. 14 /\ pc \in 1 .. 20 /\ Len(live) <= NBuilt(pc)
      BY <1>0, <2>1
    <3>1. Len(live) - 1 \in Nat /\ Len(live) - 1 <= NBuilt(pc)
      BY <3>0, BuiltDrop
    <3>. QED  BY <2>1, <2>2, <3>1
  <2>4. \A i \in 1 .. Len(live') : live'[i] = Program[i].obj
    BY <1>0, <2>2
  <2>. QED  BY <1>0, <2>1, <2>2, <2>3, <2>4
<1>5. CASE Leave
  BY <1>0, <1>5 DEF Leave
<1>6. CASE UNCHANGED vars
  BY <1>0, <1>6 DEF vars
<1>. QED  BY <1>1, <1>2, <1>3, <1>4, <1>5, <1>6 DEF Next

-----------------------------------------------------------------------------
(* Theorems.                                                               *)

\* The statement counter, the locals and the phase of Run stay in their
\* ranges in every behaviour.
THEOREM RunnerTypeCorrect == Spec => []RunnerTypeOK
<1>1. IInv => RunnerTypeOK
  BY DEF IInv
<1>. QED  BY InitIInv, NextIInv, <1>1, PTL DEF Spec

=============================================================================
