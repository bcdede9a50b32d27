-------------------------- MODULE MigrationsProofs --------------------------
(***************************************************************************)
(* Proofs about Migrations, for any number of processes and of scripts.    *)
(* SchemaInOrder is not inductive: that a process runs a script only when  *)
(* the earlier ones are recorded follows from what its loop has left to    *)
(* do, because whatever it has not is recorded.                            *)
(***************************************************************************)
EXTENDS Migrations, TLAPS

(* What a loop has left out is recorded, and a process that records a      *)
(* version has run its script.                                             *)
LoopInv ==
    \A p \in Processes :
        /\ pc[p] \in {"loop", "record", "ready"} => Scripts \ todo[p] \subseteq recorded
        /\ pc[p] = "record" => \E n \in created : IsNext(p, n)
        /\ pc[p] = "ready" => todo[p] = {}

MInv == MigrationsTypeOK /\ EffectsInOrder /\ LoopInv

(* The loop takes one script at a time.                                    *)
LEMMA NextIsUnique ==
    ASSUME MigrationsTypeOK, NEW p \in Processes, NEW m \in Scripts, NEW n \in Scripts,
           IsNext(p, m), IsNext(p, n)
    PROVE m = n
<1>1. m \in Nat /\ n \in Nat
  BY CountAssumption DEF Scripts
<1>2. m <= n /\ n <= m
  BY DEF IsNext
<1> QED BY <1>1, <1>2

(* Whatever comes before the script the loop takes is recorded.            *)
LEMMA EarlierRecorded ==
    ASSUME MigrationsTypeOK, NEW p \in Processes, NEW n \in Scripts, IsNext(p, n),
           Scripts \ todo[p] \subseteq recorded, NEW m \in Scripts, m < n
    PROVE m \in recorded
<1>1. m \in Nat /\ n \in Nat
  BY CountAssumption DEF Scripts
<1>2. m \notin todo[p]
  BY <1>1 DEF IsNext
<1> QED BY <1>2

(* The scripts are in order, and each of them known to the loop, from the  *)
(* first state on.                                                         *)
LEMMA InitMInv == Init => MInv
  BY DEF Init, MInv, MigrationsTypeOK, EffectsInOrder, LoopInv

(* A process that ends loses its loop and touches no table.                *)
LEMMA StopKeepsMInv ==
    ASSUME MInv, NEW p \in Processes, Stop(p)
    PROVE MInv'
<1> USE DEF MInv, Stop, Goto
<1>1. MigrationsTypeOK'
  BY DEF MigrationsTypeOK
<1>2. EffectsInOrder'
  BY DEF EffectsInOrder
<1>3. LoopInv'
  BY DEF LoopInv, MigrationsTypeOK, IsNext
<1> QED BY <1>1, <1>2, <1>3

(* Every step keeps the invariant.                                         *)
LEMMA StepKeepsMInv == MInv /\ [MigrationsNext]_migrationVars => MInv'
<1> SUFFICES ASSUME MInv, [MigrationsNext]_migrationVars PROVE MInv'
  OBVIOUS
<1>0. MigrationsTypeOK /\ EffectsInOrder /\ LoopInv
  BY DEF MInv
<1>1. ASSUME NEW p \in Processes, Start(p) PROVE MInv'
  BY <1>0, <1>1 DEF Start, At, Goto, MInv, MigrationsTypeOK, EffectsInOrder, LoopInv, IsNext
<1>2. ASSUME NEW p \in Processes, OpenLedger(p) PROVE MInv'
  BY <1>0, <1>2 DEF OpenLedger, At, Goto, MInv, MigrationsTypeOK, EffectsInOrder, LoopInv, IsNext
<1>3. ASSUME NEW p \in Processes, ReadApplied(p) PROVE MInv'
  <2> USE <1>0, <1>3 DEF ReadApplied, At, Goto
  <2>1. MigrationsTypeOK'
    BY DEF MigrationsTypeOK
  <2>2. EffectsInOrder'
    BY DEF EffectsInOrder
  <2>3. LoopInv'
    BY DEF LoopInv, MigrationsTypeOK, IsNext
  <2> QED BY <2>1, <2>2, <2>3 DEF MInv
<1>4. ASSUME NEW p \in Processes, RunScript(p) PROVE MInv'
  <2>1. PICK n \in Scripts : IsNext(p, n) /\ created' = created \cup {n}
    BY <1>4 DEF RunScript
  <2> USE <1>0, <1>4, <2>1 DEF RunScript, At, Goto
  <2>2. \A m \in Scripts : m < n => m \in recorded
    BY EarlierRecorded DEF LoopInv
  <2>3. MigrationsTypeOK'
    BY DEF MigrationsTypeOK
  <2>4. EffectsInOrder'
    BY <2>2 DEF EffectsInOrder
  <2>5. LoopInv'
    BY DEF LoopInv, MigrationsTypeOK, IsNext
  <2> QED BY <2>3, <2>4, <2>5 DEF MInv
<1>5. ASSUME NEW p \in Processes, RecordVersion(p) PROVE MInv'
  <2>1. PICK n \in Scripts : /\ IsNext(p, n)
                             /\ recorded' = recorded \cup {n}
                             /\ todo' = [todo EXCEPT ![p] = @ \ {n}]
    BY <1>5 DEF RecordVersion
  <2> USE <1>0, <1>5, <2>1 DEF RecordVersion, At, Goto
  <2>2. n \in created
    <3>1. PICK m \in created : IsNext(p, m)
      BY DEF LoopInv
    <3>2. m \in Scripts
      BY DEF MigrationsTypeOK
    <3> QED BY <3>1, <3>2, NextIsUnique
  <2>3. MigrationsTypeOK'
    BY DEF MigrationsTypeOK
  <2>4. EffectsInOrder'
    BY <2>2 DEF EffectsInOrder
  <2>5. LoopInv'
    BY DEF LoopInv, MigrationsTypeOK, IsNext
  <2> QED BY <2>3, <2>4, <2>5 DEF MInv
<1>6. ASSUME NEW p \in Processes, VersionTaken(p) PROVE MInv'
  BY <1>6, StopKeepsMInv DEF VersionTaken
<1>7. ASSUME NEW p \in Processes, Finish(p) PROVE MInv'
  BY <1>0, <1>7 DEF Finish, At, Goto, MInv, MigrationsTypeOK, EffectsInOrder, LoopInv, IsNext
<1>8. ASSUME NEW p \in Processes, Close(p) \/ Die(p) PROVE MInv'
  BY <1>8, StopKeepsMInv DEF Close, Die
<1>9. CASE UNCHANGED migrationVars
  BY <1>0, <1>9 DEF migrationVars, MInv, MigrationsTypeOK, EffectsInOrder, LoopInv, IsNext, At
<1> QED BY <1>1, <1>2, <1>3, <1>4, <1>5, <1>6, <1>7, <1>8, <1>9 DEF MigrationsNext, Migrate

(* The invariant of run_migrations holds for any processes and scripts.    *)
LEMMA MInvHolds == MigrationsSpec => []MInv
  BY InitMInv, StepKeepsMInv, PTL DEF MigrationsSpec

(* migrate.py:27: every reachable state has the declared types.            *)
THEOREM MigrationsTypeCorrect == MigrationsSpec => []MigrationsTypeOK
  BY MInvHolds, PTL DEF MInv

(* migrate.py:27-35: for any number of processes and scripts, versions are *)
(* recorded of scripts that took effect, scripts take effect in order, and *)
(* a program to which run_migrations returned (cli.py:60) has all of them. *)
THEOREM MigratesInOrder == MigrationsSpec => []SchemaInOrder
<1>1. MInv => SchemaInOrder
  BY DEF MInv, MigrationsTypeOK, EffectsInOrder, LoopInv, SchemaInOrder, At
<1> QED BY MInvHolds, <1>1, PTL
=============================================================================
