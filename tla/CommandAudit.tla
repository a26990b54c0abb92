---------------------------- MODULE CommandAudit ----------------------------
(***************************************************************************)
(* What the OPC UA command gate promises its clients, with everything that *)
(* implements it left out: each accepted command is known by a number, has *)
(* one outcome that moves Accepted -> Running -> a terminal state, at most *)
(* one command is open at a time, and a fault lock admits nothing but the  *)
(* recovery command until a recovery succeeds.  An interruption (a restart *)
(* of the server) fails the open command and sets the lock.                *)
(*                                                                         *)
(* CommandGate implements this specification (its property AuditSpec).     *)
(***************************************************************************)
EXTENDS Naturals

CONSTANT MaxCommand      \* bound on the commands ever accepted

ASSUME CommandBound == MaxCommand \in Nat

VARIABLES
  outcome,   \* outcome[i]: the audited state of command i
  open,      \* the number of the command in progress, 0 when there is none
  recovery,  \* whether the open command is RestoreNormalState
  locked     \* the fault lock

vars == <<outcome, open, recovery, locked>>

Command  == 1..MaxCommand
InFlight == {"Accepted", "Running"}
Terminal == {"Succeeded", "Failed", "TimedOut"}
States   == {"Idle"} \cup InFlight \cup Terminal

(* Types; the lock is open or shut, the command idle, open or over.        *)
TypeOK ==
  /\ outcome \in [Command -> States]
  /\ open \in 0..MaxCommand
  /\ recovery \in BOOLEAN
  /\ locked \in BOOLEAN

Init ==
  /\ outcome = [i \in Command |-> "Idle"]
  /\ open = 0
  /\ recovery = FALSE
  /\ locked = FALSE

(* A request is admitted only when nothing is open, and, under the lock,   *)
(* only if it is the recovery command.                                     *)
Accept(i) ==
  /\ open = 0
  /\ outcome[i] = "Idle"
  /\ recovery' \in BOOLEAN
  /\ locked => recovery'
  /\ outcome' = [outcome EXCEPT ![i] = "Accepted"]
  /\ open' = i
  /\ UNCHANGED locked

Run ==
  /\ open # 0
  /\ outcome' = [outcome EXCEPT ![open] = "Running"]
  /\ UNCHANGED <<open, recovery, locked>>

(* The open command ends.  Only a success of the recovery command, or of a *)
(* command that ran while the gate was not locked, leaves it unlocked.     *)
Finish ==
  /\ open # 0
  /\ \E s \in Terminal :
       /\ outcome' = [outcome EXCEPT ![open] = s]
       /\ \/ locked' = (locked /\ s # "Succeeded")
          \/ s # "Succeeded" /\ locked' = TRUE
  /\ open' = 0
  /\ recovery' = FALSE

(* A bug for OnlyRecoveryUnlocks to catch: the lock is not kept.           *)
InterruptForgetsLock ==
  /\ outcome' = IF open = 0 THEN outcome
                            ELSE [outcome EXCEPT ![open] = "Failed"]
  /\ locked' = (open # 0)
  /\ open' = 0
  /\ recovery' = FALSE

(* The server stops and starts again.                                      *)
Interrupt ==
  /\ outcome' = IF open = 0 THEN outcome
                            ELSE [outcome EXCEPT ![open] = "Failed"]
  /\ locked' = (locked \/ open # 0)
  /\ open' = 0
  /\ recovery' = FALSE

Next == (\E i \in Command : Accept(i)) \/ Run \/ Finish \/ Interrupt

Spec == Init /\ [][Next]_vars

-----------------------------------------------------------------------------

(* At most one command is open: every other one is unused or terminal.     *)
OneOpenCommand ==
  \A i \in Command : outcome[i] \in InFlight <=> i = open

(* A terminal state is final.                                              *)
TerminalIsFinal ==
  [][\A i \in Command : outcome[i] \in Terminal => outcome'[i] = outcome[i]]_vars

(* The lock is only released by the success of a recovery command.         *)
OnlyRecoveryUnlocks ==
  [][locked /\ ~locked' => recovery /\ outcome'[open] = "Succeeded"]_vars
=============================================================================
