------------------------------ MODULE BindPair ------------------------------
(***************************************************************************)
(* bind_pair of awaken-connection: one call joins an accept on a listen    *)
(* end with a dial of its peer and answers when both have finished.        *)
(* Several callers may share the two ends, which are borrowed immutably.   *)
(*                                                                         *)
(* The ends themselves belong to a transport and are external: a dial      *)
(* first arrives at the listener and is then established, either end may   *)
(* fail with any ConnectError, and the listener hands its waiting          *)
(* connections to accepts in any order.                                    *)
(***************************************************************************)
EXTENDS Naturals, FiniteSets

CONSTANTS Callers,     \* those that call bind_pair on one pair of ends
          MaxCalls,    \* bound on the calls of each caller
          Errors       \* the kinds of ConnectError

ASSUME CallsAssumption == MaxCalls \in Nat
ASSUME ErrorsAssumption ==
    Errors \cap {"established", "idle", "pending", "none", "running", "both",
                 "abandoned"} = {}

VARIABLES mayFail,     \* whether ends fail and callers abandon their calls
          handshake,   \* whether a dial completes only once it is accepted
          accept,      \* what became of each call's accept
          dial,        \* and of its dial
          waiting,     \* dials that have arrived at the listener
          taken,       \* dials that an accept has taken
          answer,      \* what each caller's last call returned
          calls        \* how many calls each caller has made

ends == <<mayFail, handshake>>   \* what the ends are like, which never changes
vars == <<ends, accept, dial, waiting, taken, answer, calls>>

Dialed(c) == <<c, calls[c]>>   \* the connection of the caller's last call

Finished == Errors \cup {"established"}
Half == Finished \cup {"idle", "pending"}
Answers == Errors \cup {"none", "running", "both", "abandoned"}

Init ==
    /\ mayFail \in BOOLEAN
    /\ handshake \in BOOLEAN
    /\ accept = [c \in Callers |-> "idle"]
    /\ dial = [c \in Callers |-> "idle"]
    /\ waiting = {}
    /\ taken = {}
    /\ answer = [c \in Callers |-> "none"]
    /\ calls = [c \in Callers |-> 0]

\* A variant that is wrong: listener.accept().await?, and then the dial.
CallAcceptFirst(c) ==
    /\ answer[c] # "running"
    /\ calls[c] < MaxCalls
    /\ calls' = [calls EXCEPT ![c] = @ + 1]
    /\ accept' = [accept EXCEPT ![c] = "pending"]
    /\ dial' = [dial EXCEPT ![c] = "idle"]
    /\ answer' = [answer EXCEPT ![c] = "running"]
    /\ UNCHANGED <<ends, waiting, taken>>

(***************************************************************************)
(* The call: the first poll of the join polls the accept and the dial.     *)
(* What an earlier call left at the listener is still there.               *)
(***************************************************************************)
Call(c) ==
    /\ answer[c] # "running"
    /\ calls[c] < MaxCalls
    /\ calls' = [calls EXCEPT ![c] = @ + 1]
    /\ accept' = [accept EXCEPT ![c] = "pending"]
    /\ dial' = [dial EXCEPT ![c] = "pending"]
    /\ answer' = [answer EXCEPT ![c] = "running"]
    /\ UNCHANGED <<ends, waiting, taken>>

\* A variant that is wrong, try_join: the first error ends the call.
SettleOnFirstError(c) ==
    /\ answer[c] = "running"
    /\ \/ /\ accept[c] = "established" /\ dial[c] = "established"
          /\ answer' = [answer EXCEPT ![c] = "both"]
       \/ \E e \in Errors \cap {accept[c], dial[c]} :
             answer' = [answer EXCEPT ![c] = e]
    /\ UNCHANGED <<ends, accept, dial, waiting, taken, calls>>

\* A variant that is wrong: a call of which a half failed is never answered.
SettleWhenBothSucceed(c) ==
    /\ answer[c] = "running"
    /\ accept[c] = "established" /\ dial[c] = "established"
    /\ answer' = [answer EXCEPT ![c] = "both"]
    /\ UNCHANGED <<ends, accept, dial, waiting, taken, calls>>

\* The join is ready when both halves are; `accepted?` is evaluated first.
Settle(c) ==
    /\ answer[c] = "running"
    /\ accept[c] \in Finished /\ dial[c] \in Finished
    /\ answer' = [answer EXCEPT ![c] =
                    IF accept[c] \in Errors THEN accept[c]
                    ELSE IF dial[c] \in Errors THEN dial[c]
                    ELSE "both"]
    /\ UNCHANGED <<ends, accept, dial, waiting, taken, calls>>

\* The caller drops the future of its call, and with it both halves.
Abandon(c) ==
    /\ mayFail
    /\ answer[c] = "running"
    /\ answer' = [answer EXCEPT ![c] = "abandoned"]
    /\ UNCHANGED <<ends, accept, dial, waiting, taken, calls>>

------------------------------------------------------------------------------
(* The two ends, which a transport implements. *)

DialPending(c) == answer[c] = "running" /\ dial[c] = "pending"
AcceptPending(c) == answer[c] = "running" /\ accept[c] = "pending"

DialArrives(c) ==
    /\ DialPending(c)
    /\ Dialed(c) \notin waiting \cup taken
    /\ waiting' = waiting \cup {Dialed(c)}
    /\ UNCHANGED <<ends, accept, dial, taken, answer, calls>>

DialSucceeds(c) ==
    /\ DialPending(c)
    /\ Dialed(c) \in taken \/ (~handshake /\ Dialed(c) \in waiting)
    /\ dial' = [dial EXCEPT ![c] = "established"]
    /\ UNCHANGED <<ends, accept, waiting, taken, answer, calls>>

DialFails(c) ==
    /\ mayFail
    /\ DialPending(c)
    /\ \E e \in Errors : dial' = [dial EXCEPT ![c] = e]
    /\ waiting' \in {waiting, waiting \ {Dialed(c)}}
    /\ UNCHANGED <<ends, accept, taken, answer, calls>>

AcceptSucceeds(c) ==
    /\ AcceptPending(c)
    /\ \E d \in waiting :
          /\ waiting' = waiting \ {d}
          /\ taken' = taken \cup {d}
    /\ accept' = [accept EXCEPT ![c] = "established"]
    /\ UNCHANGED <<ends, dial, answer, calls>>

AcceptFails(c) ==
    /\ mayFail
    /\ AcceptPending(c)
    /\ \E e \in Errors : accept' = [accept EXCEPT ![c] = e]
    /\ UNCHANGED <<ends, dial, waiting, taken, answer, calls>>

Next == \E c \in Callers :
    \/ Call(c) \/ Settle(c) \/ Abandon(c)
    \/ DialArrives(c) \/ DialSucceeds(c) \/ DialFails(c)
    \/ AcceptSucceeds(c) \/ AcceptFails(c)

\* A task that is ready is polled, and an end that can complete does.
Fairness == \A c \in Callers :
    /\ WF_vars(Settle(c))
    /\ WF_vars(DialArrives(c)) /\ WF_vars(DialSucceeds(c))
    /\ WF_vars(AcceptSucceeds(c))

Spec == Init /\ [][Next]_vars /\ Fairness

------------------------------------------------------------------------------
TypeOK ==
    /\ mayFail \in BOOLEAN
    /\ handshake \in BOOLEAN
    /\ accept \in [Callers -> Half]
    /\ dial \in [Callers -> Half]
    /\ waiting \subseteq Callers \X (0..MaxCalls)
    /\ taken \subseteq Callers \X (0..MaxCalls)
    /\ answer \in [Callers -> Answers]
    /\ calls \in [Callers -> 0..MaxCalls]

(***************************************************************************)
(* A call that answered had seen both halves finish: it hands out two      *)
(* channels or none, and when both ends failed it reports the accept's     *)
(* error, in whichever order they failed.                                  *)
(***************************************************************************)
AnswersAreComplete == \A c \in Callers :
    /\ answer[c] = "both" =>
          accept[c] = "established" /\ dial[c] = "established"
    /\ answer[c] \in Errors =>
          /\ accept[c] \in Finished /\ dial[c] \in Finished
          /\ accept[c] \in Errors => answer[c] = accept[c]
          /\ accept[c] \notin Errors => answer[c] = dial[c]

(***************************************************************************)
(* With ends that do not fail every call returns, also when the dial       *)
(* completes only after it was accepted and when the accept of one caller  *)
(* takes the connection of another.                                        *)
(***************************************************************************)
EveryCallReturns == \A c \in Callers :
    (~mayFail /\ answer[c] = "running") ~> answer[c] # "running"

(***************************************************************************)
(* With ends that fail too, a call that is in progress for ever has one    *)
(* half finished, and the other waits for a peer: it is an accept that no  *)
(* connection waits for, or a dial that has arrived and that nobody has    *)
(* accepted.  bind_pair itself keeps no half from starting and holds back  *)
(* no answer.                                                              *)
(***************************************************************************)
OnlyAPeerIsMissing == \A c \in Callers :
    answer[c] = "running" ~>
        \/ answer[c] # "running"
        \/ dial[c] \in Finished /\ accept[c] = "pending" /\ waiting = {}
        \/ /\ accept[c] \in Finished /\ dial[c] = "pending"
           /\ handshake /\ Dialed(c) \in waiting
==============================================================================
