-------------------------- MODULE CommandAuditProofs --------------------------
(* What every implementation of CommandAudit inherits, for any number of   *)
(* commands.                                                               *)
EXTENDS CommandAudit, TLAPS

(* Under the lock only a recovery is open, so only its success unlocks.    *)
AuditInv ==
  /\ TypeOK
  /\ OneOpenCommand
  /\ locked /\ open # 0 => recovery

LEMMA AuditInvInit == Init => AuditInv
<1> SUFFICES ASSUME Init PROVE AuditInv
  OBVIOUS
<1>1. TypeOK
  <2>1. outcome \in [Command -> States]
    BY DEF Init, States
  <2>2. open \in 0..MaxCommand
    BY CommandBound DEF Init
  <2>3. QED
    BY <2>1, <2>2 DEF Init, TypeOK
<1>2. OneOpenCommand
  BY DEF Init, OneOpenCommand, Command, InFlight
<1>3. QED
  BY <1>1, <1>2 DEF Init, AuditInv

(* One command's state changes to s, and it is open afterwards exactly     *)
(* when s is a state in flight.                                            *)
LEMMA OutcomeChange ==
  ASSUME AuditInv, NEW j \in Command, NEW s \in States,
         outcome' = [outcome EXCEPT ![j] = s], open \in {0, j},
         open' = IF s \in InFlight THEN j ELSE 0
  PROVE  outcome' \in [Command -> States] /\ open' \in 0..MaxCommand /\ OneOpenCommand'
<1>1. outcome' \in [Command -> States] /\ outcome'[j] = s /\ j # 0
      /\ \A i \in Command : i # j => outcome'[i] = outcome[i]
  BY DEF AuditInv, TypeOK, Command
<1>2. \A i \in Command : i # j => outcome'[i] \notin InFlight
  BY <1>1 DEF AuditInv, OneOpenCommand, Command
<1>3. OneOpenCommand'
  BY <1>1, <1>2 DEF OneOpenCommand, Command
<1>4. QED
  BY <1>1, <1>3, CommandBound DEF Command

LEMMA AuditInvStep == AuditInv /\ [Next]_vars => AuditInv'
<1> SUFFICES ASSUME AuditInv, [Next]_vars PROVE AuditInv'
  OBVIOUS
<1>1. open # 0 => open \in Command
  BY DEF AuditInv, TypeOK, Command
<1>2. ASSUME NEW i \in Command, Accept(i) PROVE AuditInv'
  BY <1>2, OutcomeChange DEF Accept, States, InFlight, AuditInv, TypeOK
<1>3. CASE Run
  BY <1>1, <1>3, OutcomeChange DEF Run, States, InFlight, AuditInv, TypeOK
<1>4. CASE Finish
  <2>1. PICK s \in Terminal :
          /\ outcome' = [outcome EXCEPT ![open] = s]
          /\ \/ locked' = (locked /\ s # "Succeeded")
             \/ s # "Succeeded" /\ locked' = TRUE
    BY <1>4 DEF Finish
  <2>2. locked' \in BOOLEAN
    BY <2>1 DEF AuditInv, TypeOK
  <2>3. outcome' \in [Command -> States] /\ open' \in 0..MaxCommand /\ OneOpenCommand'
    BY <1>1, <1>4, <2>1, OutcomeChange DEF Finish, States, InFlight, Terminal
  <2>4. QED
    BY <1>4, <2>2, <2>3 DEF Finish, AuditInv, TypeOK
<1>5. CASE Interrupt
  <2>1. CASE open = 0
    BY <1>5, <2>1 DEF Interrupt, AuditInv, TypeOK, OneOpenCommand
  <2>2. CASE open # 0
    BY <1>1, <1>5, <2>2, OutcomeChange
    DEF Interrupt, States, InFlight, Terminal, AuditInv, TypeOK
  <2>3. QED
    BY <2>1, <2>2
<1>6. CASE UNCHANGED vars
  BY <1>6 DEF vars, AuditInv, TypeOK, OneOpenCommand
<1>7. QED
  BY <1>2, <1>3, <1>4, <1>5, <1>6 DEF Next

(* At most one command is open.                                            *)
THEOREM AtMostOneOpen == Spec => []OneOpenCommand
<1>1. AuditInv => OneOpenCommand
  BY DEF AuditInv
<1>2. QED
  BY <1>1, AuditInvInit, AuditInvStep, PTL DEF Spec

(* A terminal state is final, across interruptions too.                    *)
THEOREM TerminalStays == Spec => TerminalIsFinal
<1>1. ASSUME AuditInv, [Next]_vars
      PROVE  [\A i \in Command : outcome[i] \in Terminal => outcome'[i] = outcome[i]]_vars
  <2>1. SUFFICES ASSUME Next, NEW i \in Command, outcome[i] \in Terminal
                 PROVE  outcome'[i] = outcome[i]
    BY <1>1
  <2>2. i # open /\ outcome[i] # "Idle"
    BY <1>1, <2>1 DEF AuditInv, OneOpenCommand, InFlight, Terminal
  <2>3. outcome \in [Command -> States]
    BY <1>1 DEF AuditInv, TypeOK
  <2>4. CASE \E j \in Command : Accept(j)
    <3>1. PICK j \in Command : Accept(j)
      BY <2>4
    <3>2. i # j
      BY <2>2, <3>1 DEF Accept
    <3>3. QED
      BY <2>3, <3>1, <3>2 DEF Accept
  <2>5. CASE Run
    BY <2>2, <2>3, <2>5 DEF Run
  <2>6. CASE Finish
    BY <2>2, <2>3, <2>6 DEF Finish
  <2>7. CASE Interrupt
    BY <2>2, <2>3, <2>7 DEF Interrupt
  <2>8. QED
    BY <2>1, <2>4, <2>5, <2>6, <2>7 DEF Next
<1>2. QED
  BY <1>1, AuditInvInit, AuditInvStep, PTL DEF Spec, TerminalIsFinal

(* Only the success of a recovery releases the lock.                       *)
THEOREM RecoveryUnlocks == Spec => OnlyRecoveryUnlocks
<1>1. ASSUME AuditInv, [Next]_vars
      PROVE  [locked /\ ~locked' => recovery /\ outcome'[open] = "Succeeded"]_vars
  <2>1. SUFFICES ASSUME Next, locked, ~locked'
                 PROVE  recovery /\ outcome'[open] = "Succeeded"
    BY <1>1
  <2>2. Finish
    BY <2>1 DEF Next, Accept, Run, Interrupt
  <2>3. open \in Command /\ recovery
    BY <1>1, <2>1, <2>2, CommandBound DEF Finish, AuditInv, TypeOK, Command
  <2>4. outcome'[open] = "Succeeded"
    BY <1>1, <2>1, <2>2, <2>3 DEF Finish, AuditInv, TypeOK
  <2>5. QED
    BY <2>3, <2>4
<1>2. QED
  BY <1>1, AuditInvInit, AuditInvStep, PTL DEF Spec, OnlyRecoveryUnlocks
=============================================================================
