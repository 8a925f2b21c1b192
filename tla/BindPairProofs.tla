--------------------------- MODULE BindPairProofs ---------------------------
(***************************************************************************)
(* For any callers, any number of calls and any errors, bind_pair answers  *)
(* only when both of its halves have finished, with the accept's error     *)
(* before the dial's.                                                      *)
(***************************************************************************)
EXTENDS BindPair, TLAPS

(* The variables have their types (bind_pair and the ends it is given). *)
THEOREM TypeCorrect == Spec => []TypeOK
<1>1. Init => TypeOK
  BY CallsAssumption DEF Init, TypeOK, Half, Finished, Answers
<1>2. TypeOK /\ [Next]_vars => TypeOK'
  <2> SUFFICES ASSUME TypeOK, [Next]_vars PROVE TypeOK'
    OBVIOUS
  <2> USE CallsAssumption DEF TypeOK, ends, Half, Finished, Answers
  <2>1. ASSUME NEW c \in Callers, Call(c) PROVE TypeOK'
    BY <2>1 DEF Call
  <2>2. ASSUME NEW c \in Callers, Settle(c) PROVE TypeOK'
    BY <2>2 DEF Settle
  <2>3. ASSUME NEW c \in Callers, Abandon(c) PROVE TypeOK'
    BY <2>3 DEF Abandon
  <2>4. ASSUME NEW c \in Callers, DialArrives(c) PROVE TypeOK'
    BY <2>4 DEF DialArrives, Dialed
  <2>5. ASSUME NEW c \in Callers, DialSucceeds(c) PROVE TypeOK'
    BY <2>5 DEF DialSucceeds
  <2>6. ASSUME NEW c \in Callers, DialFails(c) PROVE TypeOK'
    BY <2>6 DEF DialFails
  <2>7. ASSUME NEW c \in Callers, AcceptSucceeds(c) PROVE TypeOK'
    BY <2>7 DEF AcceptSucceeds
  <2>8. ASSUME NEW c \in Callers, AcceptFails(c) PROVE TypeOK'
    BY <2>8 DEF AcceptFails
  <2>9. CASE UNCHANGED vars
    BY <2>9 DEF vars, ends
  <2>10. QED
    BY <2>1, <2>2, <2>3, <2>4, <2>5, <2>6, <2>7, <2>8, <2>9 DEF Next
<1>3. QED
  BY <1>1, <1>2, PTL DEF Spec

(***************************************************************************)
(* Every answer of bind_pair is that of two finished halves: two           *)
(* established channels, or the first error in the order accept, dial.     *)
(***************************************************************************)
THEOREM AnswersComplete == Spec => []AnswersAreComplete
<1>1. Init => AnswersAreComplete
  BY ErrorsAssumption DEF Init, AnswersAreComplete
<1>2. TypeOK /\ AnswersAreComplete /\ [Next]_vars => AnswersAreComplete'
  <2> SUFFICES ASSUME TypeOK, AnswersAreComplete, [Next]_vars
               PROVE  AnswersAreComplete'
    OBVIOUS
  <2> USE ErrorsAssumption DEF TypeOK, AnswersAreComplete
  <2>1. ASSUME NEW c \in Callers, Call(c) PROVE AnswersAreComplete'
    BY <2>1 DEF Call
  <2>2. ASSUME NEW c \in Callers, Settle(c) PROVE AnswersAreComplete'
    BY <2>2 DEF Settle, Finished
  <2>3. ASSUME NEW c \in Callers, Abandon(c) PROVE AnswersAreComplete'
    BY <2>3 DEF Abandon
  <2>4. ASSUME NEW c \in Callers, DialArrives(c) \/ AcceptSucceeds(c)
        PROVE  AnswersAreComplete'
    BY <2>4 DEF DialArrives, AcceptSucceeds, AcceptPending, Finished
  <2>5. ASSUME NEW c \in Callers, DialSucceeds(c) \/ DialFails(c)
        PROVE  AnswersAreComplete'
    BY <2>5 DEF DialSucceeds, DialFails, DialPending, Finished
  <2>6. ASSUME NEW c \in Callers, AcceptFails(c) PROVE AnswersAreComplete'
    BY <2>6 DEF AcceptFails, AcceptPending, Finished
  <2>7. CASE UNCHANGED vars
    BY <2>7 DEF vars, ends
  <2>8. QED
    BY <2>1, <2>2, <2>3, <2>4, <2>5, <2>6, <2>7 DEF Next
<1>3. QED
  BY <1>1, <1>2, TypeCorrect, PTL DEF Spec
==============================================================================
