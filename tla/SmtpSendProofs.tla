--------------------------- MODULE SmtpSendProofs ---------------------------
(***************************************************************************)
(* Proofs about the SMTP transport, for every number of attempts.          *)
(***************************************************************************)
EXTENDS SmtpSend, TLAPS

Underway == {"render", "dial", "token", "auth", "data"}

CountsOK == attempt \in 1 .. MaxAttempts /\ held \in 0 .. MaxAttempts /\ lost \in 0 .. held

LabelsOK ==
    /\ login \in Logins /\ pc \in Phases
    /\ error \in {"none", "transient", "permanent"} /\ answer \in {"none", "sent", "failed"}

(* What the server holds is accounted for by replies that were lost and by at
   most one that arrived, and what Send knows of the latter is where its attempt
   is. *)
Accounted ==
    /\ pc \in Underway => accepted = FALSE /\ held = lost /\ held < attempt
    /\ pc = "quit" => held = lost + 1
    /\ pc = "judge" => IF accepted = TRUE THEN held = lost + 1 /\ error = "none"
                       ELSE held = lost /\ error # "none"
    /\ answer = "sent" => held = lost + 1
    /\ answer = "failed" => held = lost
    /\ held <= attempt

(* Where Send is over. *)
Ended ==
    /\ (pc = "over") <=> (answer # "none")
    /\ refused => pc = "over"

(* The inductive invariant; its flags are kept apart from its counts. *)
IInv == CountsOK /\ LabelsOK /\ Accounted /\ Ended

(* The invariant holds at first. *)
LEMMA InitIInv == Init => IInv
<1> SUFFICES ASSUME Init PROVE IInv
  OBVIOUS
<1>1. CountsOK
  BY SmtpAssumption DEF SmtpAssumption, Init, CountsOK
<1>2. LabelsOK
  BY DEF Init, LabelsOK, Phases
<1>3. Accounted
  BY DEF Init, Accounted, Underway
<1>4. Ended
  BY DEF Init, Ended
<1> QED BY <1>1, <1>2, <1>3, <1>4 DEF IInv

(* The flags are flags. *)
LEMMA NextFlags == FlagsOK /\ [Next]_vars => FlagsOK'
<1> SUFFICES ASSUME FlagsOK, [Next]_vars PROVE FlagsOK'
  OBVIOUS
<1> USE DEF FlagsOK
<1>1. CASE Render \/ Dial \/ Token \/ Auth \/ SendMail \/ Quit
  BY <1>1, Zenon DEF Render, Dial, Token, Auth, SendMail, Quit, Proceed, Return
<1>2. CASE Judge
  BY <1>2, Zenon DEF Judge
<1>3. CASE UNCHANGED vars
  BY <1>3 DEF vars
<1> QED BY <1>1, <1>2, <1>3 DEF Next

(* Every step keeps the invariant. *)
LEMMA NextIInv == FlagsOK /\ IInv /\ [Next]_vars => IInv'
<1> SUFFICES ASSUME FlagsOK, IInv, [Next]_vars PROVE IInv'
  OBVIOUS
<1> USE SmtpAssumption DEF SmtpAssumption, IInv, CountsOK, LabelsOK, Accounted, Ended, Phases, Underway
<1>1. CASE Render
  BY <1>1 DEF Render, Proceed, Return
<1>2. CASE Dial
  BY <1>2 DEF Dial, Proceed, Return, AfterDial
<1>3. CASE Token
  BY <1>3 DEF Token, Proceed, Return
<1>4. CASE Auth
  BY <1>4 DEF Auth, Proceed, Return, classify
<1>5. CASE SendMail
  BY <1>5 DEF SendMail, Return, classify
<1>6. CASE Quit
  BY <1>6 DEF Quit, Return
<1>7. CASE Judge
  <2>1. PICK overrun \in BOOLEAN, hungUp \in BOOLEAN : \E how \in Verdict(overrun) :
          /\ refused' = (refused \/ (error = "permanent" /\ ~overrun))
          /\ IF Retryable(how) /\ attempt < MaxAttempts /\ ~hungUp
             THEN /\ attempt' = attempt + 1 /\ error' = "none" /\ pc' = "render"
                  /\ UNCHANGED answer
             ELSE /\ answer' = IF how = "none" THEN "sent" ELSE "failed"
                  /\ pc' = "over"
                  /\ UNCHANGED <<attempt, error>>
    BY <1>7 DEF Judge
  <2>2. PICK how \in Verdict(overrun) :
          /\ refused' = (refused \/ (error = "permanent" /\ ~overrun))
          /\ IF Retryable(how) /\ attempt < MaxAttempts /\ ~hungUp
             THEN /\ attempt' = attempt + 1 /\ error' = "none" /\ pc' = "render"
                  /\ UNCHANGED answer
             ELSE /\ answer' = IF how = "none" THEN "sent" ELSE "failed"
                  /\ pc' = "over"
                  /\ UNCHANGED <<attempt, error>>
    BY <2>1
  <2>3. pc = "judge" /\ UNCHANGED <<login, renderable, accepted, held, lost>>
    BY <1>7 DEF Judge
  <2>4. IF accepted = TRUE THEN how = "none" ELSE how # "none" /\ (how = error \/ (how = "transient" /\ overrun))
    <3>1. CASE accepted = TRUE
      BY <2>2, <3>1, Zenon DEF Verdict
    <3>2. CASE accepted = FALSE
      <4>1. how \in IF overrun THEN {error, "transient"} ELSE {error}
        BY <2>2, <3>2, Zenon DEF Verdict
      <4>2. error # "none"
        BY <2>3, <3>2
      <4>3. how = error \/ (how = "transient" /\ overrun)
        <5>1. CASE overrun
          BY <4>1, <5>1
        <5>2. CASE ~overrun
          BY <4>1, <5>2
        <5> QED BY <5>1, <5>2
      <4> QED BY <3>2, <4>2, <4>3
    <3> QED BY <3>1, <3>2 DEF FlagsOK
  <2>5. CASE Retryable(how) /\ attempt < MaxAttempts /\ ~hungUp
    BY <2>2, <2>3, <2>4, <2>5 DEF Retryable
  <2>6. CASE ~(Retryable(how) /\ attempt < MaxAttempts /\ ~hungUp)
    BY <2>2, <2>3, <2>4, <2>6
  <2> QED BY <2>5, <2>6
<1>8. CASE UNCHANGED vars
  BY <1>8 DEF vars
<1> QED BY <1>1, <1>2, <1>3, <1>4, <1>5, <1>6, <1>7, <1>8 DEF Next

(* The invariant holds always. *)
LEMMA Invariant == Spec => [](FlagsOK /\ IInv)
<1>1. Init => FlagsOK
  BY DEF Init, FlagsOK
<1> QED BY <1>1, InitIInv, NextFlags, NextIInv, PTL DEF Spec

(* The variables keep their types, the number of deliveries among them: no more
   than one for each attempt. *)
THEOREM TypeCorrect == Spec => []TypeOK
<1>1. FlagsOK /\ IInv => TypeOK
  BY Zenon DEF IInv, CountsOK, LabelsOK, TypeOK
<1> QED BY <1>1, Invariant, PTL

(* Only a lost reply makes a recipient get the message again, and what was taken
   with its reply is reported sent. *)
THEOREM NoNeedlessDuplicates == Spec => []OnlyLostRepliesDuplicate
<1>1. IInv => OnlyLostRepliesDuplicate
  <2> SUFFICES ASSUME IInv PROVE OnlyLostRepliesDuplicate
    OBVIOUS
  <2>1. held \in Nat /\ lost \in Nat /\ (held = lost \/ held = lost + 1)
    BY SmtpAssumption
    DEF SmtpAssumption, IInv, CountsOK, LabelsOK, Accounted, Ended, Phases, Underway
  <2>2. answer # "none" /\ held > lost => answer = "sent"
    BY <2>1 DEF IInv, LabelsOK, Accounted
  <2> QED BY <2>1, <2>2 DEF OnlyLostRepliesDuplicate
<1> QED BY <1>1, Invariant, PTL

(* Nothing is attempted after a permanent failure that was reported in time. *)
THEOREM PermanentFailuresFinal == Spec => PermanentIsFinal
<1>1. IInv /\ [Next]_vars => [refused => UNCHANGED <<attempt, held>>]_vars
  <2> SUFFICES ASSUME IInv, Next, refused PROVE FALSE
    BY DEF vars
  <2>1. pc = "over"
    BY DEF IInv, Ended
  <2> QED BY <2>1 DEF Next, Render, Dial, Token, Auth, SendMail, Quit, Judge
<1> QED BY <1>1, Invariant, PTL DEF Spec, PermanentIsFinal

(* A successor is positive. *)
LEMMA SuccessorPositive == \A a, b \in Nat : a = b + 1 => a > 0
OBVIOUS

(* Every behaviour is one the outbox may count on. *)
THEOREM ContractKept == Spec => KeepsContract
<1>1. Init => Contract!Init
  BY DEF Init, Contract!Init
<1>2. IInv /\ IInv' /\ [Next]_vars => [Contract!Next]_(Contract!vars)
  <2> SUFFICES ASSUME IInv, IInv', [Next]_vars
               PROVE  Contract!Take \/ Contract!Answer \/ UNCHANGED <<held, answer>>
    BY DEF Contract!Next, Contract!vars
  <2>1. CASE Render \/ Dial \/ Token \/ Auth \/ Quit
    BY <2>1 DEF Render, Dial, Token, Auth, Quit, Proceed, Return
  <2>2. CASE SendMail
    <3>1. pc = "data" /\ answer' = answer /\ (held' = held + 1 \/ held' = held)
      BY <2>2 DEF SendMail, Return
    <3>2. answer = "none"
      BY <3>1 DEF IInv, LabelsOK, Ended
    <3>3. held < MaxAttempts
      BY <3>1, SmtpAssumption DEF SmtpAssumption, IInv, CountsOK, Accounted, Underway
    <3> QED BY <3>1, <3>2, <3>3 DEF Contract!Take
  <2>3. CASE Judge
    <3>1. pc = "judge" /\ held' = held
      BY <2>3 DEF Judge
    <3>2. answer = "none"
      BY <3>1 DEF IInv, Ended
    <3>3. answer' \in {"none", "sent", "failed"}
      BY DEF IInv, LabelsOK
    <3>4. answer' = "sent" => held > 0
      <4> SUFFICES ASSUME answer' = "sent" PROVE held > 0
        OBVIOUS
      <4>1. held' \in Nat /\ lost' \in Nat
        BY SmtpAssumption DEF SmtpAssumption, IInv, CountsOK
      <4>2. held' = lost' + 1
        BY DEF IInv, Accounted
      <4>3. held' > 0
        BY <4>1, <4>2, SuccessorPositive
      <4> QED BY <3>1, <4>3
    <3> QED BY <3>1, <3>2, <3>3, <3>4 DEF Contract!Answer
  <2>4. CASE UNCHANGED vars
    BY <2>4 DEF vars
  <2> QED BY <2>1, <2>2, <2>3, <2>4 DEF Next
<1> QED BY <1>1, <1>2, Invariant, PTL DEF Spec, KeepsContract, Contract!Spec
=============================================================================
