----------------------- MODULE CommandExecutionProofs -----------------------
(***************************************************************************)
(* Proofs about CommandExecution, for any number of clients and calls.     *)
(***************************************************************************)
EXTENDS CommandExecution, TLAPS, SequenceTheorems, FiniteSetTheorems

Settled == {"dispatch", "body", "record"}        \* past the busy test
Pending == {"lock", "check"} \cup Settled        \* execute_command not over

(* A caller between acquiring and releasing command_lock holds it.         *)
LockInv ==
  \A x \in Callers : pc[x] \in Critical => command_lock[ExecutorOf(x)] = x

(* A caller past the busy test has seen only final results, and they stay  *)
(* the only ones while it holds the lock.                                  *)
QuietInv ==
  \A x \in Callers : pc[x] \in Settled =>
    \A n \in 1..Len(command_results[ExecutorOf(x)]) :
      Done(command_results[ExecutorOf(x)][n])

(* A call in progress is about a result.                                   *)
JobInv == \A x \in Callers : pc[x] \in Pending => job[x] \in Ids

(* Numbers are handed out once: a call in progress has one of its own that *)
(* no dictionary holds yet.                                                *)
NumberInv ==
  /\ \A e \in Executors : \A n \in 1..Len(command_results[e]) :
       command_results[e][n] < next
  /\ \A x \in Callers : pc[x] \in Pending => job[x] < next
  /\ \A x, y \in Callers :
       pc[x] \in Pending /\ pc[y] \in Pending /\ job[x] = job[y] => x = y
  /\ \A x \in Callers : pc[x] \in Pending =>
       \A e \in Executors : \A n \in 1..Len(command_results[e]) :
         command_results[e][n] # job[x]

IInv ==
  TypeOK /\ JobInv /\ LockInv /\ QuietInv /\ NumberInv /\ AtMostOneRunning

-----------------------------------------------------------------------------
(* Facts about the constants and the operators                             *)

LEMMA IdsAreNumbers == /\ Ids \subseteq Nat \ {0}
                       /\ Clients \cap Ids = {}
                       /\ Free \notin Callers
BY CallsAssumption DEF Ids, Free, Callers

LEMMA StatusForValues ==
  /\ \A p \in Payload : StatusFor(p) \in Final
  /\ StatusFor("rest") = "FAILED"
  /\ \A p \in Payload : StatusFor(p) = "SUCCEEDED" => p = "result"
BY DEF StatusFor, Payload, Final

LEMMA Members ==
  /\ {"idle", "lock", "check", "dispatch", "body", "record", "join", "reply",
      "list"} \subseteq Phases
  /\ {"running", "publishing", "finally", "dead"} \subseteq ThreadStates
BY DEF Phases, ThreadStates

LEMMA ExecutorOfCaller == \A x \in Callers : ExecutorOf(x) \in Executors
BY DEF ExecutorOf, Executors

-----------------------------------------------------------------------------
(* Type correctness                                                        *)

(* A call that raises leaves every variable in its type.                   *)
LEMMA RaiseType ==
  ASSUME TypeOK, NEW x \in Callers, job[x] \in Ids, Raise(x)
  PROVE  TypeOK'
<1>1. /\ pc' = [pc EXCEPT ![x] = "idle"]
      /\ thread' = thread \/ thread' = [thread EXCEPT ![x] = "publishing"]
      /\ payload' = payload \/ payload' = [payload EXCEPT ![x] = "rest"]
  BY DEF Raise
<1>2. pc' \in [Callers -> Phases]
  BY <1>1 DEF TypeOK, Phases
<1>3. thread' \in [Ids -> ThreadStates]
  BY <1>1 DEF TypeOK, ThreadStates
<1>4. payload' \in [Ids -> Payload]
  BY <1>1 DEF TypeOK, Payload
<1>5. /\ command_lock' \in [Executors -> Callers \cup {Free}]
      /\ job' \in [Callers -> Ids \cup {Nobody}]
      /\ kind' \in [Ids -> Kinds \cup {"none"}]
      /\ parent' \in [Ids -> Callers \cup {Nobody}]
  BY DEF Raise, TypeOK
<1> QED
  BY <1>2, <1>3, <1>4, <1>5 DEF Raise, TypeOK, listVars

(* What an except clause does: raise, or record a failure.                 *)
LEMMA CaughtCases ==
  ASSUME NEW x \in Callers, NEW failure \in Failures, Caught(x, failure)
  PROVE  \/ Raise(x)
         \/ NewFailure(x, failure) /\ failure \in Payload
<1>1. CASE failure = "key_error"
  BY <1>1 DEF Caught
<1>2. CASE failure = "invalid"
  BY <1>2 DEF Caught
<1>3. CASE failure \in {"rest", "raw"}
  BY <1>3 DEF Caught, Payload
<1> QED
  BY <1>1, <1>2, <1>3 DEF Failures

LEMMA CaughtType ==
  ASSUME TypeOK, NEW x \in Callers, job[x] \in Ids,
         NEW failure \in Failures, Caught(x, failure)
  PROVE  TypeOK'
<1>1. ASSUME Raise(x) PROVE TypeOK'
  BY <1>1, RaiseType DEF Payload
<1>2. ASSUME NewFailure(x, failure), failure \in Payload PROVE TypeOK'
  BY <1>2 DEF NewFailure, TypeOK, Status, Final, Phases, callVars, listVars
<1> QED
  BY <1>1, <1>2, CaughtCases

(* Every step keeps every variable in its type.                            *)
LEMMA TypeStep == TypeOK /\ JobInv /\ [Next]_vars => TypeOK'
<1> SUFFICES ASSUME TypeOK, JobInv, [Next]_vars PROVE TypeOK'
  OBVIOUS
<1> USE DEF TypeOK, resultVars, callVars, listVars
<1>1. ASSUME NEW x \in Callers, Acquire(x) PROVE TypeOK'
  BY <1>1, ExecutorOfCaller
  DEF Acquire, Phases
<1>2. ASSUME NEW x \in Callers, Malformed(x) PROVE TypeOK'
  BY <1>2, RaiseType
  DEF Malformed, JobInv, Pending, Settled
<1>3. ASSUME NEW x \in Callers, Busy(x) PROVE TypeOK'
  BY <1>3, RaiseType
  DEF Busy, JobInv, Pending, Settled
<1>4. ASSUME NEW x \in Callers, Proceed(x) PROVE TypeOK'
  BY <1>4
  DEF Proceed, Phases
<1>5. ASSUME NEW x \in Callers, Dispatch(x) PROVE TypeOK'
  <2>1. \E failure \in Failures : Caught(x, failure)
    BY <1>5 DEF Dispatch, Failures
  <2> QED
    BY <1>5, <2>1, CaughtType DEF Dispatch, JobInv, Pending, Settled
<1>6. ASSUME NEW x \in Callers, StartSync(x) PROVE TypeOK'
  BY <1>6
  DEF StartSync, Phases
<1>7. ASSUME NEW x \in Callers, EndSync(x) PROVE TypeOK'
  <2>1. CASE \E failure \in Failures : Caught(x, failure)
    BY <1>7, <2>1, CaughtType DEF EndSync, JobInv, Pending, Settled
  <2>2. CASE NewSuccess(x)
    BY <2>2 DEF NewSuccess, Payload, Status, Final, Phases
  <2> QED
    BY <1>7, <2>1, <2>2 DEF EndSync
<1>8. ASSUME NEW x \in Callers, StartAsync(x) PROVE TypeOK'
  BY <1>8
  DEF StartAsync, Phases, Status, ThreadStates
<1>9. ASSUME NEW x \in Callers, Record(x) PROVE TypeOK'
  BY <1>9, ExecutorOfCaller
  DEF Record, Phases, JobInv, Pending, Settled
<1>11. ASSUME NEW c \in Clients, PostCommand(c) PROVE TypeOK'
  BY <1>11, CallsAssumption
  DEF PostCommand, Call, KindsFor, Kinds, Phases, Callers, Ids
<1>12. ASSUME NEW c \in Clients, ListCommands(c) PROVE TypeOK'
  BY <1>12
  DEF ListCommands, Phases, Callers, Executors
<1>13. ASSUME NEW c \in Clients, NEW i \in Ids, GetCommand(c, i) PROVE TypeOK'
  <2>1. pc' \in [Callers -> Phases]
    BY <1>13 DEF GetCommand, Phases, Callers
  <2>2. job' \in [Callers -> Ids \cup {Nobody}]
    BY <1>13 DEF GetCommand, Callers
  <2> QED
    BY <1>13, <2>1, <2>2 DEF GetCommand
<1>14. ASSUME NEW c \in Clients, ReplyResult(c) PROVE TypeOK'
  <2>2. pc' \in [Callers -> Phases]
    BY <1>14 DEF ReplyResult, Answer, Phases, Callers
  <2>3. job' \in [Callers -> Ids \cup {Nobody}]
    BY <1>14 DEF ReplyResult, Callers
  <2> QED
    BY <1>14, <2>2, <2>3 DEF ReplyResult
<1>15. ASSUME NEW c \in Clients, ListOne(c) PROVE TypeOK'
  <2>1. /\ listing[c] \in Seq(Ids) /\ listing[c] # <<>>
        /\ Head(listing[c]) \in Ids /\ Tail(listing[c]) \in Seq(Ids)
    BY <1>15 DEF ListOne, TypeOK
  <2>2. /\ listing' \in [Clients -> Seq(Ids)]
        /\ running_shown' \in [Clients -> SUBSET Ids]
        /\ pc' = pc \/ pc' = [pc EXCEPT ![c] = "idle"]
    <3>1. CASE ListFails(c)
      BY <2>1, <3>1 DEF ListFails, Answer, TypeOK
    <3>2. CASE ShowOne(c)
      BY <2>1, <3>2 DEF ShowOne, TypeOK
    <3> QED
      BY <1>15, <3>1, <3>2 DEF ListOne
  <2>3. pc' \in [Callers -> Phases]
    BY <2>2 DEF TypeOK, Phases, Callers
  <2> QED
    BY <1>15, <2>2, <2>3 DEF ListOne
<1>16. ASSUME NEW c \in Clients, ListEnd(c) PROVE TypeOK'
  BY <1>16
  DEF ListEnd, Answer, Phases, Callers
<1>17. ASSUME NEW i \in Ids, EndAsync(i) PROVE TypeOK'
  BY <1>17
  DEF EndAsync, FinishBody, Payload, ThreadStates
<1>18. ASSUME NEW i \in Ids, FlowTask(i) PROVE TypeOK'
  BY <1>18, CallsAssumption
  DEF FlowTask, Call, KindsFor, Kinds, Phases, Callers, Ids
<1>19. ASSUME NEW i \in Ids, FlowJoin(i) PROVE TypeOK'
  <2>1. thread' \in [Ids -> ThreadStates] /\ payload' \in [Ids -> Payload]
    BY <1>19 DEF FlowJoin, FinishBody, Payload, ThreadStates
  <2>2. pc' \in [Callers -> Phases] /\ job' \in [Callers -> Ids \cup {Nobody}]
    BY <1>19 DEF FlowJoin, Phases, Callers
  <2> QED
    BY <1>19, <2>1, <2>2 DEF FlowJoin
<1>20. ASSUME NEW i \in Ids, FlowEnd(i) PROVE TypeOK'
  BY <1>20
  DEF FlowEnd, FinishBody, Payload, ThreadStates
<1>21. ASSUME NEW i \in Ids, Publish(i) PROVE TypeOK'
  BY <1>21, StatusForValues
  DEF Publish, Status, ThreadStates
<1>22. ASSUME NEW i \in Ids, ForceHeartbeat(i) PROVE TypeOK'
  BY <1>22
  DEF ForceHeartbeat, ThreadStates
<1>23. ASSUME HeartbeatSent PROVE TypeOK'
  BY <1>23
  DEF HeartbeatSent
<1>24. ASSUME UNCHANGED vars PROVE TypeOK'
  BY <1>24 DEF vars, TypeOK
<1> QED
  BY <1>1, <1>2, <1>3, <1>4, <1>5, <1>6, <1>7, <1>8, <1>9, <1>11,
     <1>12, <1>13, <1>14, <1>15, <1>16, <1>17, <1>18, <1>19, <1>20, <1>21,
     <1>22, <1>23, <1>24
  DEF Next, ExecuteCommand, Request, Answering, CommandThread

-----------------------------------------------------------------------------
(* At most one command of an executor is running                           *)

Rest == JobInv /\ LockInv /\ QuietInv /\ NumberInv /\ AtMostOneRunning

(* The shape of a step that starts or continues no call, records nothing   *)
(* and takes back no outcome.                                              *)
Aside ==
  /\ UNCHANGED <<command_lock, command_results, next>>
  /\ \A i \in Ids : Done(i) => Done(i)'
  /\ \A x \in Callers : pc'[x] \in Pending => pc'[x] = pc[x] /\ job'[x] = job[x]

LEMMA AsideKeeps == ASSUME IInv, Aside PROVE Rest'
<1> USE DEF IInv, Aside, Rest
<1>1. JobInv'
  BY DEF JobInv
<1>2. LockInv'
  BY DEF LockInv, Critical, Pending, Settled
<1>3. QuietInv'
  <2> SUFFICES ASSUME NEW x \in Callers, pc'[x] \in Settled,
                      NEW n \in 1..Len(command_results[ExecutorOf(x)])
               PROVE  Done(command_results[ExecutorOf(x)][n])'
    BY DEF QuietInv, Settled
  <2>1. command_results[ExecutorOf(x)][n] \in Ids
    BY ExecutorOfCaller DEF TypeOK
  <2>2. Done(command_results[ExecutorOf(x)][n])
    BY DEF QuietInv, Pending, Settled
  <2> QED
    BY <2>1, <2>2
<1>4. NumberInv'
  BY DEF NumberInv
<1>5. AtMostOneRunning'
  <2> SUFFICES ASSUME NEW e \in Executors,
                      NEW n \in 1..(Len(command_results[e]) - 1)
               PROVE  Done(command_results[e][n])'
    BY DEF AtMostOneRunning
  <2>1. command_results[e][n] \in Ids /\ Done(command_results[e][n])
    BY DEF AtMostOneRunning, TypeOK
  <2> QED
    BY <2>1
<1> QED
  BY <1>1, <1>2, <1>3, <1>4, <1>5


(* The shape of a step of execute_command that goes on under the lock.     *)
Inside(x) ==
  /\ UNCHANGED <<command_lock, command_results, next, job>>
  /\ pc[x] \in Critical /\ pc'[x] \in Settled
  /\ pc' = [pc EXCEPT ![x] = pc'[x]]
  /\ \A i \in Ids : i # job[x] /\ Done(i) => Done(i)'
  /\ pc[x] = "check" => \A n \in 1..Len(command_results[ExecutorOf(x)]) :
                          Done(command_results[ExecutorOf(x)][n])

LEMMA InsideKeeps == ASSUME IInv, NEW x \in Callers, Inside(x) PROVE Rest'
<1> USE DEF IInv, Inside, Rest
<1>1. JobInv' /\ LockInv'
  BY DEF JobInv, LockInv, Critical, Pending, Settled, TypeOK
<1>2. \A y \in Callers \ {x} : pc'[y] = pc[y]
  BY DEF TypeOK
<1>3. \A e \in Executors : \A n \in 1..Len(command_results[e]) :
        /\ command_results[e][n] \in Ids
        /\ Done(command_results[e][n]) => Done(command_results[e][n])'
  <2> SUFFICES ASSUME NEW e \in Executors, NEW n \in 1..Len(command_results[e])
               PROVE  /\ command_results[e][n] \in Ids
                      /\ command_results[e][n] # job[x]
    OBVIOUS
  <2> QED
    BY DEF TypeOK, NumberInv, Critical, Pending, Settled
<1>4. QuietInv'
  <2> SUFFICES ASSUME NEW y \in Callers, pc'[y] \in Settled,
                      NEW n \in 1..Len(command_results[ExecutorOf(y)])
               PROVE  Done(command_results[ExecutorOf(y)][n])
    BY <1>3, ExecutorOfCaller DEF QuietInv, Settled
  <2>1. CASE y # x
    BY <1>2, <2>1 DEF QuietInv, Settled
  <2>2. CASE y = x
    BY <2>2 DEF QuietInv, Settled, Critical
  <2> QED
    BY <2>1, <2>2
<1>5. NumberInv'
  BY <1>2 DEF NumberInv, Critical, Pending, Settled
<1>6. AtMostOneRunning'
  <2> SUFFICES ASSUME NEW e \in Executors,
                      NEW n \in 1..(Len(command_results[e]) - 1)
               PROVE  Done(command_results[e][n])'
    BY DEF AtMostOneRunning
  <2> QED
    BY <1>3 DEF AtMostOneRunning, TypeOK
<1> QED
  BY <1>1, <1>4, <1>5, <1>6

(* A call that raises gives up the lock and is forgotten.                  *)
LEMMA RaiseKeeps ==
  ASSUME IInv, NEW x \in Callers, pc[x] \in Critical, Raise(x)
  PROVE  Rest'
<1> USE DEF IInv, Rest
<1>1. pc' = [pc EXCEPT ![x] = "idle"]
  BY DEF Raise, Answer
<1>2. /\ UNCHANGED <<command_results, command_status, next>>
      /\ job' = [job EXCEPT ![x] = Nobody]
      /\ command_lock' = [command_lock EXCEPT ![ExecutorOf(x)] = Free]
  BY DEF Raise
<1>3. \A y \in Callers : pc'[y] \in Pending =>
        y # x /\ pc'[y] = pc[y] /\ job'[y] = job[y]
  BY <1>1, <1>2 DEF TypeOK, Pending, Settled
<1>4. JobInv'
  BY <1>3 DEF JobInv
<1>5. LockInv'
  <2> SUFFICES ASSUME NEW y \in Callers, pc'[y] \in Critical
               PROVE  command_lock'[ExecutorOf(y)] = y
    BY DEF LockInv
  <2>1. y # x /\ pc[y] \in Critical
    BY <1>3 DEF Critical, Pending, Settled
  <2>2. command_lock[ExecutorOf(y)] = y /\ command_lock[ExecutorOf(x)] = x
    BY <2>1 DEF LockInv
  <2> QED
    BY <1>2, <2>1, <2>2, ExecutorOfCaller DEF TypeOK
<1>6. QuietInv'
  BY <1>2, <1>3 DEF QuietInv, Pending, Settled, Done
<1>7. NumberInv'
  BY <1>2, <1>3 DEF NumberInv
<1>8. AtMostOneRunning'
  BY <1>2 DEF AtMostOneRunning, Done
<1> QED
  BY <1>4, <1>5, <1>6, <1>7, <1>8


LEMMA AcquireKeeps == ASSUME IInv, NEW x \in Callers, Acquire(x) PROVE Rest'
<1> USE DEF IInv, Rest
<1>1. /\ UNCHANGED <<command_results, command_status, next, job>>
      /\ pc[x] = "lock" /\ pc' = [pc EXCEPT ![x] = "check"]
      /\ command_lock[ExecutorOf(x)] = Free
      /\ command_lock' = [command_lock EXCEPT ![ExecutorOf(x)] = x]
  BY DEF Acquire, resultVars, callVars
<1>2. \A y \in Callers \ {x} : pc'[y] = pc[y]
  BY <1>1 DEF TypeOK
<1>3. pc'[x] = "check"
  BY <1>1 DEF TypeOK
<1>4. JobInv'
  BY <1>1, <1>2 DEF JobInv, Pending, Settled
<1>5. LockInv'
  <2> SUFFICES ASSUME NEW y \in Callers, pc'[y] \in Critical
               PROVE  command_lock'[ExecutorOf(y)] = y
    BY DEF LockInv
  <2>1. CASE y = x
    BY <1>1, <2>1, ExecutorOfCaller DEF TypeOK
  <2>2. CASE y # x
    <3>1. command_lock[ExecutorOf(y)] = y /\ y # Free
      BY <1>2, <2>2, IdsAreNumbers DEF LockInv
    <3> QED
      BY <1>1, <3>1, ExecutorOfCaller DEF TypeOK
  <2> QED
    BY <2>1, <2>2
<1>6. QuietInv'
  BY <1>1, <1>2, <1>3 DEF QuietInv, Settled, Done
<1>7. NumberInv'
  BY <1>1, <1>2, <1>3 DEF NumberInv, Pending, Settled
<1>8. AtMostOneRunning'
  BY <1>1 DEF AtMostOneRunning, Done
<1> QED
  BY <1>4, <1>5, <1>6, <1>7, <1>8

(* The new result goes to the end of a list of final ones.                 *)
LEMMA RecordKeeps == ASSUME IInv, NEW x \in Callers, Record(x) PROVE Rest'
<1> USE DEF IInv, Rest
<1> DEFINE e == ExecutorOf(x)
<1>1. /\ UNCHANGED <<command_status, next, job>>
      /\ pc[x] = "record" /\ e \in Executors
      /\ command_lock' = [command_lock EXCEPT ![e] = Free]
      /\ command_results' = [command_results EXCEPT ![e] = Append(@, job[x])]
  BY ExecutorOfCaller DEF Record, resultVars, callVars
<1>2. pc'[x] \notin Pending /\ \A y \in Callers \ {x} : pc'[y] = pc[y]
  BY DEF TypeOK, Record, Pending, Settled
<1>3. \A y \in Callers : pc'[y] \in Pending => y # x /\ pc'[y] = pc[y]
  BY <1>2
<1>4. /\ Len(command_results'[e]) = Len(command_results[e]) + 1
      /\ command_results'[e][Len(command_results[e]) + 1] = job[x]
      /\ \A n \in 1..Len(command_results[e]) :
           command_results'[e][n] = command_results[e][n]
      /\ \A f \in Executors \ {e} : command_results'[f] = command_results[f]
      /\ \A f \in Executors : Len(command_results[f]) \in Nat
  BY <1>1 DEF TypeOK, JobInv, Pending, Settled
<1>5. JobInv'
  BY <1>1, <1>3 DEF JobInv
<1>6. \A y \in Callers : pc[y] \in Critical /\ y # x => ExecutorOf(y) # e
  BY <1>1 DEF LockInv, Critical
<1>7. LockInv'
  <2> SUFFICES ASSUME NEW y \in Callers, pc'[y] \in Critical
               PROVE  command_lock'[ExecutorOf(y)] = y
    BY DEF LockInv
  <2>1. y # x /\ pc[y] \in Critical
    BY <1>3 DEF Critical, Pending, Settled
  <2> QED
    BY <1>1, <1>6, <2>1, ExecutorOfCaller DEF TypeOK, LockInv
<1>8. QuietInv'
  <2> SUFFICES ASSUME NEW y \in Callers, pc'[y] \in Settled,
                      NEW n \in 1..Len(command_results'[ExecutorOf(y)])
               PROVE  Done(command_results[ExecutorOf(y)][n])
                      /\ command_results'[ExecutorOf(y)]
                           = command_results[ExecutorOf(y)]
    BY <1>1 DEF QuietInv, Settled, Done
  <2>1. y # x /\ pc[y] = pc'[y] /\ ExecutorOf(y) # e
    BY <1>3, <1>6 DEF Critical, Pending, Settled
  <2> QED
    BY <1>4, <2>1, ExecutorOfCaller DEF QuietInv, Settled
<1>9. NumberInv'
  <2>1. \A f \in Executors : \A n \in 1..Len(command_results'[f]) :
          \/ n \in 1..Len(command_results[f])
             /\ command_results'[f][n] = command_results[f][n]
          \/ command_results'[f][n] = job[x]
    BY <1>4
  <2> QED
    BY <1>1, <1>3, <2>1 DEF NumberInv, Pending, Settled
<1>10. AtMostOneRunning'
  <2> SUFFICES ASSUME NEW f \in Executors,
                      NEW n \in 1..(Len(command_results'[f]) - 1)
               PROVE  Done(command_results'[f][n])
    BY <1>1 DEF AtMostOneRunning, Done
  <2>1. CASE f = e
    BY <1>1, <1>4, <2>1 DEF QuietInv, Settled
  <2>2. CASE f # e
    BY <1>4, <2>2 DEF AtMostOneRunning
  <2> QED
    BY <2>1, <2>2
<1> QED
  BY <1>5, <1>7, <1>8, <1>9, <1>10

(* A new call gets a number above every number in use.                     *)
LEMMA CallKeeps == ASSUME IInv, NEW x \in Callers, Call(x) PROVE Rest'
<1> USE DEF IInv, Rest
<1>1. /\ UNCHANGED <<command_lock, command_results, command_status>>
      /\ pc[x] = "idle" /\ pc' = [pc EXCEPT ![x] = "lock"]
      /\ job' = [job EXCEPT ![x] = next]
      /\ next' = next + 1 /\ next \in Ids
  BY CallsAssumption DEF Call, resultVars, TypeOK, Ids
<1>2. /\ \A y \in Callers \ {x} : pc'[y] = pc[y] /\ job'[y] = job[y]
      /\ pc'[x] = "lock" /\ job'[x] = next
  BY <1>1 DEF TypeOK
<1>3. JobInv'
  BY <1>1, <1>2 DEF JobInv
<1>4. LockInv' /\ QuietInv' /\ AtMostOneRunning'
  BY <1>1, <1>2 DEF LockInv, QuietInv, Settled, AtMostOneRunning, Critical, Done
<1>5. NumberInv'
  <2>1. /\ next \in Nat
        /\ \A f \in Executors : \A n \in 1..Len(command_results[f]) :
             command_results[f][n] \in Nat
    <3>1. \A f \in Executors : command_results[f] \in Seq(Ids)
      BY DEF TypeOK
    <3>2. \A f \in Executors : \A n \in 1..Len(command_results[f]) :
            command_results[f][n] \in Ids
      BY <3>1
    <3> QED
      BY <1>1, <3>2, IdsAreNumbers
  <2>2. \A y \in Callers : pc[y] \in Pending => job[y] \in Nat
    BY IdsAreNumbers DEF JobInv
  <2>3. /\ \A f \in Executors : \A n \in 1..Len(command_results[f]) :
             command_results[f][n] < next
        /\ \A y \in Callers : pc[y] \in Pending => job[y] < next
    BY DEF NumberInv
  <2>4. \A y \in Callers : pc'[y] \in Pending =>
          y = x \/ (y # x /\ pc[y] \in Pending /\ job'[y] = job[y])
    BY <1>2
  <2>5. /\ \A f \in Executors : \A n \in 1..Len(command_results[f]) :
             command_results[f][n] < next + 1
        /\ \A y \in Callers : pc'[y] \in Pending => job'[y] < next + 1
    BY <1>2, <2>1, <2>2, <2>3, <2>4
  <2>6. \A y \in Callers : pc'[y] \in Pending =>
          \A f \in Executors : \A n \in 1..Len(command_results[f]) :
            command_results[f][n] # job'[y]
    BY <1>2, <2>1, <2>3, <2>4 DEF NumberInv
  <2>7. \A y, z \in Callers :
          pc'[y] \in Pending /\ pc'[z] \in Pending /\ job'[y] = job'[z] => y = z
    BY <1>2, <2>1, <2>2, <2>3, <2>4 DEF NumberInv
  <2> QED
    BY <1>1, <2>5, <2>6, <2>7 DEF NumberInv
<1> QED
  BY <1>3, <1>4, <1>5


(* Steps of the readers and of the command threads.                        *)
LEMMA AsideSteps ==
  ASSUME IInv,
         \/ \E c \in Clients :
              \/ ListCommands(c) \/ Answering(c)
              \/ \E i \in Ids : GetCommand(c, i)
         \/ \E i \in Ids : \/ EndAsync(i) \/ FlowJoin(i) \/ FlowEnd(i)
                           \/ Publish(i) \/ ForceHeartbeat(i)
         \/ HeartbeatSent
         \/ UNCHANGED vars
  PROVE  Rest'
<1> USE DEF IInv
<1> SUFFICES Aside
  BY AsideKeeps
<1> USE DEF Aside, Done, TypeOK, Pending, Settled, resultVars, callVars,
            listVars
<1>2. ASSUME NEW c \in Clients, ListCommands(c) PROVE Aside
  BY <1>2 DEF ListCommands, Callers
<1>3. ASSUME NEW c \in Clients, NEW i \in Ids, GetCommand(c, i) PROVE Aside
  BY <1>3 DEF GetCommand, Callers
<1>4. ASSUME NEW c \in Clients, ReplyResult(c) PROVE Aside
  BY <1>4 DEF ReplyResult, Answer, Callers
<1>5. ASSUME NEW c \in Clients, ListOne(c) PROVE Aside
  BY <1>5 DEF ListOne, ShowOne, ListFails, Answer, Callers
<1>6. ASSUME NEW c \in Clients, ListEnd(c) PROVE Aside
  BY <1>6 DEF ListEnd, Answer, Callers
<1>7. ASSUME NEW i \in Ids, EndAsync(i) PROVE Aside
  BY <1>7 DEF EndAsync, Callers
<1>8. ASSUME NEW i \in Ids, FlowJoin(i) PROVE Aside
  BY <1>8 DEF FlowJoin, Callers
<1>9. ASSUME NEW i \in Ids, FlowEnd(i) PROVE Aside
  BY <1>9 DEF FlowEnd, Callers
<1>10. ASSUME NEW i \in Ids, ForceHeartbeat(i) PROVE Aside
  BY <1>10 DEF ForceHeartbeat, Callers
<1>11. ASSUME HeartbeatSent PROVE Aside
  BY <1>11 DEF HeartbeatSent, Callers
<1>12. ASSUME NEW i \in Ids, Publish(i) PROVE Aside
  BY <1>12, StatusForValues DEF Publish
<1>13. ASSUME UNCHANGED vars PROVE Aside
  BY <1>13 DEF vars
<1> QED
  BY <1>2, <1>3, <1>4, <1>5, <1>6, <1>7, <1>8, <1>9, <1>10, <1>11,
     <1>12, <1>13 DEF Answering

(* Steps of execute_command.                                               *)
LEMMA ExecuteSteps ==
  ASSUME IInv, NEW x \in Callers, ExecuteCommand(x) PROVE Rest'
<1> USE DEF IInv
<1>1. CASE Acquire(x)
  BY <1>1, AcquireKeeps
<1>2. CASE Malformed(x)
  BY <1>2, RaiseKeeps DEF Malformed, Critical
<1>3. CASE Busy(x)
  BY <1>3, RaiseKeeps DEF Busy, Critical
<1>4. CASE Proceed(x)
  <2>1. \A n \in 1..Len(command_results[ExecutorOf(x)]) :
          Done(command_results[ExecutorOf(x)][n])
    <3> SUFFICES ASSUME NEW n \in 1..Len(command_results[ExecutorOf(x)]),
                        n = Len(command_results[ExecutorOf(x)])
                 PROVE  Done(command_results[ExecutorOf(x)][n])
      BY ExecutorOfCaller DEF AtMostOneRunning, TypeOK
    <3> QED
      BY <1>4, ExecutorOfCaller DEF Proceed, LastIsRunning, LastCommand, TypeOK
  <2>2. Inside(x)
    BY <1>4, <2>1 DEF Proceed, Inside, Settled, Critical, resultVars, callVars,
       Done, TypeOK
  <2> QED
    BY <2>2, InsideKeeps
<1>5. ASSUME NEW failure \in Failures, Caught(x, failure),
             pc[x] \in {"dispatch", "body"}
      PROVE  Rest'
  <2>1. ASSUME Raise(x) PROVE Rest'
    BY <1>5, <2>1, RaiseKeeps DEF Critical, Payload
  <2>2. CASE NewFailure(x, failure)
    <3>1. Inside(x)
      BY <1>5, <2>2
      DEF NewFailure, Inside, Settled, Critical, callVars, Done, TypeOK
    <3> QED
      BY <3>1, InsideKeeps
  <2> QED
    BY <1>5, <2>1, <2>2, CaughtCases
<1>6. CASE Dispatch(x)
  <2>1. \E failure \in Failures : Caught(x, failure)
    BY <1>6 DEF Dispatch, Failures
  <2> QED
    BY <1>5, <1>6, <2>1 DEF Dispatch
<1>7. CASE StartSync(x)
  <2>1. Inside(x)
    BY <1>7
    DEF StartSync, Inside, Settled, Critical, resultVars, callVars, Done, TypeOK
  <2> QED
    BY <2>1, InsideKeeps
<1>8. CASE EndSync(x)
  <2>1. CASE NewSuccess(x)
    <3>1. Inside(x)
      BY <1>8, <2>1
      DEF EndSync, NewSuccess, Inside, Settled, Critical, callVars, Done, TypeOK
    <3> QED
      BY <3>1, InsideKeeps
  <2> QED
    BY <1>5, <1>8, <2>1 DEF EndSync
<1>9. CASE StartAsync(x)
  <2>1. Inside(x)
    BY <1>9 DEF StartAsync, Inside, Settled, Critical, callVars, Done, TypeOK
  <2> QED
    BY <2>1, InsideKeeps
<1>10. CASE Record(x)
  BY <1>10, RecordKeeps
<1> QED
  BY <1>1, <1>2, <1>3, <1>4, <1>6, <1>7, <1>8, <1>9, <1>10 DEF ExecuteCommand

LEMMA InitIInv == Init => IInv
<1> SUFFICES ASSUME Init PROVE IInv
  OBVIOUS
<1> USE DEF Init
<1>1. TypeOK
  <2>1. /\ command_results \in [Executors -> Seq(Ids)]
        /\ listing \in [Clients -> Seq(Ids)]
        /\ next \in 1..(MaxCalls + 1)
    BY CallsAssumption
  <2> QED
    BY <2>1 DEF TypeOK, Status, Payload, ThreadStates, Phases
<1>2. JobInv /\ LockInv /\ QuietInv /\ NumberInv
  BY DEF JobInv, LockInv, QuietInv, NumberInv, Pending, Settled, Critical,
         Executors
<1>3. AtMostOneRunning
  BY DEF AtMostOneRunning, Executors
<1> QED
  BY <1>1, <1>2, <1>3 DEF IInv

LEMMA IInvStep == IInv /\ [Next]_vars => IInv'
<1> SUFFICES ASSUME IInv, [Next]_vars PROVE IInv'
  OBVIOUS
<1>1. TypeOK'
  BY TypeStep DEF IInv
<1>2. Rest'
  <2>1. ASSUME NEW c \in Clients, PostCommand(c) PROVE Rest'
    BY <2>1, CallKeeps DEF PostCommand, Callers
  <2>2. ASSUME NEW i \in Ids, FlowTask(i) PROVE Rest'
    BY <2>2, CallKeeps DEF FlowTask, Callers
  <2>3. ASSUME NEW x \in Callers, ExecuteCommand(x) PROVE Rest'
    BY <2>3, ExecuteSteps
  <2> QED
    BY <2>1, <2>2, <2>3, AsideSteps DEF Next, Request, CommandThread
<1> QED
  BY <1>1, <1>2 DEF IInv, Rest

(* Every behaviour stays in the types, for any number of clients and calls.*)
THEOREM TypeCorrect == Spec => []TypeOK
<1>1. IInv => TypeOK
  BY DEF IInv
<1> QED
  BY <1>1, InitIInv, IInvStep, PTL DEF Spec

(* execute_command may look at the newest result only: for any number of   *)
(* clients and calls, whatever is older than the newest result of an       *)
(* executor is final.                                                      *)
THEOREM OneRunningCommand == Spec => []AtMostOneRunning
<1>1. IInv => AtMostOneRunning
  BY DEF IInv
<1> QED
  BY <1>1, InitIInv, IInvStep, PTL DEF Spec

-----------------------------------------------------------------------------
(* What a thread has to do with its result, and callers with their calls   *)

Unready == {"lock", "check", "dispatch", "body"}    \* no result object yet
Active  == {"running", "publishing", "finally"}     \* the thread is alive

Blank(i) ==
  thread[i] = "none" /\ command_status[i] = "NONE" /\ payload[i] = "none"
Outcome(i) == payload[i] # "none" /\ command_status[i] = StatusFor(payload[i])

(* The stages of a result object: its thread, its status and its payload   *)
(* agree except while the thread holds command_state_lock.                 *)
StageInv ==
  \A i \in Ids :
    \/ Blank(i)
    \/ thread[i] \in {"none", "finally", "dead"} /\ Outcome(i)
    \/ /\ thread[i] = "running" /\ kind[i] \in {"async", "flow"}
       /\ command_status[i] = "RUNNING" /\ payload[i] = "none"
    \/ /\ thread[i] = "publishing"
       /\ command_status[i] = "RUNNING" /\ payload[i] # "none"

(* Numbers not handed out, and calls that made no result object, are blank.*)
FreshInv ==
  /\ \A i \in Ids : i >= next => Blank(i)
  /\ \A x \in Callers : pc[x] \in Unready => Blank(job[x])

(* Only the running thread of a flow is in a call; it never reads results. *)
FlowInv ==
  \A f \in Ids : pc[f] # "idle" =>
    /\ pc[f] \in Pending \cup {"join"}
    /\ thread[f] = "running" /\ kind[f] = "flow"

(* A call knows its caller, and a recorded one is in that caller's list.   *)
LinkInv ==
  /\ \A x \in Callers : pc[x] \in Pending => parent[job[x]] = x
  /\ \A e \in Executors : \A n \in 1..Len(command_results[e]) :
       /\ parent[command_results[e][n]] \in Callers
       /\ ExecutorOf(parent[command_results[e][n]]) = e

(* A running command is in the list, or its caller is about to put it there*)
PlaceInv ==
  \A i \in Ids : command_status[i] = "RUNNING" =>
    \/ \E e \in Executors : \E n \in 1..Len(command_results[e]) :
         command_results[e][n] = i
    \/ \E x \in Callers : pc[x] = "record" /\ job[x] = i

(* A flow waits for its command's thread, and takes over its failure.      *)
Awaited(i) ==
  job[parent[i]] = i /\ pc[parent[i]] \in {"record", "join"}
WaitInv ==
  \A i \in Ids : parent[i] \in Ids =>
    /\ thread[i] \in Active => Awaited(i)
    /\ command_status[i] = "FAILED" =>
         Awaited(i) \/ payload[parent[i]] = "rest"

(* Of the calls of a flow only the last is under way, and no earlier one   *)
(* failed.                                                                 *)
Current(i) == pc[parent[i]] # "idle" /\ job[parent[i]] = i
OrderInv ==
  /\ \A i \in Ids : i >= next => parent[i] = Nobody
  /\ \A i, k \in Ids : parent[i] \in Ids /\ parent[k] = parent[i] /\ k > i =>
       command_status[i] # "FAILED" /\ ~Current(i)

(* Only the last result of a copied list can still be running.             *)
ListInv ==
  \A c \in Clients :
    /\ \A n \in 1..(Len(listing[c]) - 1) : Done(listing[c][n])
    /\ \/ running_shown[c] = {}
       \/ /\ pc[c] = "list" /\ listing[c] = <<>>
          /\ \E i \in Ids : running_shown[c] = {i}

CoreInv == /\ StageInv /\ FreshInv /\ FlowInv /\ LinkInv /\ PlaceInv /\ WaitInv
           /\ OrderInv
Wider   == CoreInv /\ ListInv

(* The types the proofs below need most.                                   *)
LEMMA Typed ==
  ASSUME TypeOK
  PROVE  /\ \A i \in Ids : /\ thread[i] \in ThreadStates
                           /\ command_status[i] \in Status
                           /\ payload[i] \in Payload
                           /\ i \in Nat
         /\ \A x \in Callers : pc[x] \in Phases
         /\ next \in Nat
         /\ \A e \in Executors : \A n \in 1..Len(command_results[e]) :
              command_results[e][n] \in Ids
         /\ Ids \subseteq Callers /\ Clients \subseteq Callers
BY IdsAreNumbers, CallsAssumption DEF TypeOK, Callers

(* The shape of a step that makes no call: only a flow's current call may  *)
(* turn out to have failed, and no flow takes up another one.              *)
InOrder ==
  /\ UNCHANGED next
  /\ \A i \in Ids : parent'[i] \in {parent[i], Nobody}
  /\ \A i \in Ids : parent[i] \in Ids /\ command_status'[i] = "FAILED" =>
       command_status[i] = "FAILED" \/ Current(i)
  /\ \A f \in Ids : pc'[f] # "idle" => pc[f] # "idle" /\ job'[f] = job[f]

LEMMA OrderKept == ASSUME OrderInv, InOrder PROVE OrderInv'
<1> USE DEF OrderInv, InOrder
<1>1. Nobody \notin Ids
  BY IdsAreNumbers DEF Nobody
<1>2. ASSUME NEW i \in Ids, NEW k \in Ids,
             parent'[i] \in Ids, parent'[k] = parent'[i], k > i
      PROVE  command_status'[i] # "FAILED" /\ ~Current(i)'
  <2>1. parent'[i] = parent[i] /\ parent'[k] = parent[k]
    BY <1>1, <1>2
  <2>2. command_status[i] # "FAILED" /\ ~Current(i)
    BY <1>2, <2>1
  <2> QED
    BY <1>2, <2>1, <2>2 DEF Current
<1>3. ASSUME NEW i \in Ids, i >= next' PROVE parent'[i] = Nobody
  BY <1>3
<1> QED
  BY <1>2, <1>3

(* A step that only reads results.                                         *)
Reading ==
  /\ UNCHANGED <<command_results, resultVars, callVars>>
  /\ \A x \in Callers :
       x \in Ids \/ pc[x] \in Pending \/ pc'[x] \in Pending
         => pc'[x] = pc[x] /\ job'[x] = job[x]

LEMMA ReadingKeeps == ASSUME IInv, CoreInv, Reading PROVE CoreInv'
<1> USE DEF IInv, CoreInv, Reading, resultVars, callVars
<1>1. StageInv'
  BY DEF StageInv, Blank, Outcome
<1>2. FreshInv'
  BY DEF FreshInv, Blank, Unready, Pending, Settled
<1>3. FlowInv'
  BY DEF FlowInv, Callers
<1>4. LinkInv'
  BY DEF LinkInv
<1>5. PlaceInv'
  BY DEF PlaceInv, Pending, Settled
<1>6. WaitInv'
  BY DEF WaitInv, Awaited, Callers
<1>7. OrderInv'
  <2>1. InOrder
    BY DEF InOrder, Current, Callers
  <2> QED
    BY <2>1, OrderKept
<1> QED
  BY <1>1, <1>2, <1>3, <1>4, <1>5, <1>6, <1>7

(* A step of execute_command before there is a result object.              *)
Advancing(x) ==
  /\ UNCHANGED <<command_results, resultVars, callVars, job>>
  /\ pc[x] \in Unready /\ pc'[x] \in Unready
  /\ pc' = [pc EXCEPT ![x] = pc'[x]]

LEMMA AdvancingKeeps ==
  ASSUME IInv, CoreInv, NEW x \in Callers, Advancing(x) PROVE CoreInv'
<1> USE DEF IInv, CoreInv, Advancing, resultVars, callVars
<1>1. \A y \in Callers \ {x} : pc'[y] = pc[y]
  BY DEF TypeOK
<1>2. StageInv'
  BY DEF StageInv, Blank, Outcome
<1>3. FreshInv'
  BY <1>1 DEF FreshInv, Blank, Unready
<1>4. FlowInv'
  BY <1>1 DEF FlowInv, Callers, Unready, Pending, Settled
<1>5. LinkInv'
  BY <1>1 DEF LinkInv, Unready, Pending, Settled
<1>6. PlaceInv'
  BY <1>1 DEF PlaceInv, Unready
<1>7. WaitInv'
  BY <1>1 DEF WaitInv, Awaited, Callers, Unready
<1>8. OrderInv'
  <2>1. InOrder
    BY <1>1 DEF InOrder, Callers, Unready
  <2> QED
    BY <2>1, OrderKept
<1> QED
  BY <1>2, <1>3, <1>4, <1>5, <1>6, <1>7, <1>8

(* A step that makes or sets the result object of x's call; s is its       *)
(* status, p its payload and t its thread.                                 *)
Making(x, s, p, t) ==
  /\ UNCHANGED <<command_results, callVars, job>>
  /\ pc[x] \in {"dispatch", "body"} /\ pc' = [pc EXCEPT ![x] = "record"]
  /\ command_status' = [command_status EXCEPT ![job[x]] = s]
  /\ payload' = [payload EXCEPT ![job[x]] = p]
  /\ thread' = [thread EXCEPT ![job[x]] = t]
  /\ \/ t = "none" /\ p # "none" /\ p \in Payload /\ s = StatusFor(p)
     \/ /\ t = "running" /\ p = "none" /\ s = "RUNNING"
        /\ kind[job[x]] \in {"async", "flow"}

LEMMA MakingKeeps ==
  ASSUME IInv, CoreInv, NEW x \in Callers, NEW s, NEW p, NEW t,
         Making(x, s, p, t)
  PROVE  CoreInv'
<1> USE DEF IInv, CoreInv, Making, callVars
<1>1. /\ job[x] \in Ids /\ Blank(job[x]) /\ parent[job[x]] = x
      /\ job[x] < next /\ pc[x] \in Pending
  BY DEF FreshInv, LinkInv, NumberInv, Unready, Pending, Settled, JobInv
<1>2. /\ \A y \in Callers \ {x} : pc'[y] = pc[y]
      /\ pc'[x] = "record"
      /\ \A i \in Ids \ {job[x]} : /\ thread'[i] = thread[i]
                                   /\ payload'[i] = payload[i]
                                   /\ command_status'[i] = command_status[i]
      /\ command_status'[job[x]] = s /\ payload'[job[x]] = p
      /\ thread'[job[x]] = t
  BY <1>1 DEF TypeOK
<1>3. StageInv'
  BY <1>1, <1>2 DEF StageInv, Blank, Outcome
<1>4. FreshInv'
  <2>1. ASSUME NEW i \in Ids, i >= next PROVE Blank(i)'
    BY <1>1, <1>2, <2>1, Typed DEF FreshInv, Blank
  <2>2. ASSUME NEW y \in Callers, pc'[y] \in Unready PROVE Blank(job[y])'
    <3>1. y # x /\ pc[y] \in Unready /\ pc[y] \in Pending
      BY <1>2, <2>2 DEF Unready, Pending, Settled
    <3>2. job[y] \in Ids /\ job[y] # job[x]
      BY <1>1, <3>1 DEF NumberInv, JobInv
    <3> QED
      BY <1>2, <3>1, <3>2 DEF FreshInv, Blank
  <2> QED
    BY <2>1, <2>2 DEF FreshInv
<1>5. FlowInv'
  <2> SUFFICES ASSUME NEW f \in Ids, pc'[f] # "idle"
               PROVE  /\ pc'[f] \in Pending \cup {"join"}
                      /\ thread'[f] = "running" /\ kind[f] = "flow"
    BY DEF FlowInv
  <2>1. pc[f] # "idle"
    BY <1>2, Typed
  <2>2. f # job[x]
    BY <1>1, <2>1 DEF FlowInv, Blank
  <2> QED
    BY <1>2, <2>1, <2>2, Typed DEF FlowInv, Pending, Settled
<1>6. LinkInv'
  BY <1>1, <1>2 DEF LinkInv
<1>7. PlaceInv'
  BY <1>1, <1>2 DEF PlaceInv
<1>8. WaitInv'
  <2> SUFFICES ASSUME NEW i \in Ids, parent[i] \in Ids
               PROVE  /\ thread'[i] \in Active => Awaited(i)'
                      /\ command_status'[i] = "FAILED" =>
                           Awaited(i)' \/ payload'[parent[i]] = "rest"
    BY DEF WaitInv
  <2>1. CASE i = job[x]
    BY <1>1, <1>2, <2>1 DEF Awaited
  <2>2. CASE i # job[x]
    <3>1. /\ thread[i] \in Active => Awaited(i)
          /\ command_status[i] = "FAILED" =>
               Awaited(i) \/ payload[parent[i]] = "rest"
      BY DEF WaitInv
    <3>2. Awaited(i) => Awaited(i)'
      BY <1>2, Typed DEF Awaited
    <3>3. payload[parent[i]] = "rest" => payload'[parent[i]] = "rest"
      BY <1>1, <1>2 DEF Blank
    <3> QED
      BY <1>2, <2>2, <3>1, <3>2, <3>3
  <2> QED
    BY <2>1, <2>2
<1>9. OrderInv'
  <2>1. InOrder
    BY <1>1, <1>2, Typed DEF InOrder, Current, Pending, Settled
  <2> QED
    BY <2>1, OrderKept
<1> QED
  BY <1>3, <1>4, <1>5, <1>6, <1>7, <1>8, <1>9

(* The result enters the list.                                             *)
LEMMA RecordCore ==
  ASSUME IInv, CoreInv, NEW x \in Callers, Record(x) PROVE CoreInv'
<1> USE DEF IInv, CoreInv
<1> DEFINE e == ExecutorOf(x)
<1>1. /\ UNCHANGED <<command_status, payload, thread, kind, parent, next, job>>
      /\ pc[x] = "record" /\ e \in Executors
      /\ job[x] \in Ids /\ parent[job[x]] = x
      /\ command_results' = [command_results EXCEPT ![e] = Append(@, job[x])]
  BY ExecutorOfCaller
  DEF Record, resultVars, callVars, JobInv, LinkInv, Pending, Settled
<1>2. /\ pc'[x] \notin Pending /\ \A y \in Callers \ {x} : pc'[y] = pc[y]
      /\ pc'[x] # "idle" /\ (x \in Ids => pc'[x] = "join")
  BY IdsAreNumbers DEF TypeOK, Record, Pending, Settled
<1>3. /\ Len(command_results'[e]) = Len(command_results[e]) + 1
      /\ command_results'[e][Len(command_results[e]) + 1] = job[x]
      /\ \A n \in 1..Len(command_results[e]) :
           command_results'[e][n] = command_results[e][n]
      /\ \A f \in Executors \ {e} : command_results'[f] = command_results[f]
      /\ \A f \in Executors : Len(command_results[f]) \in Nat
  BY <1>1 DEF TypeOK
<1>4. StageInv'
  BY <1>1 DEF StageInv, Blank, Outcome
<1>5. FreshInv'
  BY <1>1, <1>2 DEF FreshInv, Blank, Unready, Pending, Settled
<1>6. FlowInv'
  BY <1>1, <1>2, Typed DEF FlowInv
<1>7. LinkInv'
  <2>1. \A y \in Callers : pc'[y] \in Pending => parent'[job'[y]] = y
    BY <1>1, <1>2 DEF LinkInv
  <2>2. ASSUME NEW f \in Executors, NEW n \in 1..Len(command_results'[f])
        PROVE  /\ parent'[command_results'[f][n]] \in Callers
               /\ ExecutorOf(parent'[command_results'[f][n]]) = f
    <3>1. CASE f = e /\ n = Len(command_results[e]) + 1
      BY <1>1, <1>3, <3>1
    <3>2. CASE f # e \/ n # Len(command_results[e]) + 1
      BY <1>1, <1>3, <3>2 DEF LinkInv
    <3> QED
      BY <3>1, <3>2
  <2> QED
    BY <2>1, <2>2 DEF LinkInv
<1>8. PlaceInv'
  <2> SUFFICES ASSUME NEW i \in Ids, command_status[i] = "RUNNING"
               PROVE  \/ \E f \in Executors : \E n \in 1..Len(command_results'[f]) :
                           command_results'[f][n] = i
                      \/ \E y \in Callers : pc'[y] = "record" /\ job[y] = i
    BY <1>1 DEF PlaceInv
  <2>1. CASE i = job[x]
    <3>1. Len(command_results[e]) + 1 \in 1..Len(command_results'[e])
      BY <1>1, <1>3
    <3> QED
      BY <1>1, <1>3, <2>1, <3>1
  <2>2. ASSUME NEW y \in Callers, pc[y] = "record", job[y] = i, y # x
        PROVE  \E z \in Callers : pc'[z] = "record" /\ job[z] = i
    BY <1>2, <2>2
  <2>3. ASSUME NEW f \in Executors, NEW n \in 1..Len(command_results[f]),
               command_results[f][n] = i
        PROVE  n \in 1..Len(command_results'[f]) /\ command_results'[f][n] = i
    BY <1>1, <1>3, <2>3
  <2> QED
    BY <2>1, <2>2, <2>3 DEF PlaceInv
<1>9. WaitInv'
  BY <1>1, <1>2, Typed DEF WaitInv, Awaited
<1>10. OrderInv'
  <2>1. InOrder
    BY <1>1, <1>2, Typed DEF InOrder
  <2> QED
    BY <2>1, OrderKept
<1> QED
  BY <1>4, <1>5, <1>6, <1>7, <1>8, <1>9, <1>10

(* A new call.  A flow makes one only while its own thread is running.     *)
LEMMA CallCore ==
  ASSUME IInv, CoreInv, NEW x \in Callers, Call(x),
         x \in Ids => thread[x] = "running" /\ kind[x] = "flow"
  PROVE  CoreInv'
<1> USE DEF IInv, CoreInv
<1>1. /\ UNCHANGED <<command_results, command_status, payload, thread>>
      /\ pc[x] = "idle" /\ pc' = [pc EXCEPT ![x] = "lock"]
      /\ job' = [job EXCEPT ![x] = next]
      /\ parent' = [parent EXCEPT ![next] = x]
      /\ next' = next + 1 /\ next \in Ids /\ Blank(next)
  BY CallsAssumption DEF Call, resultVars, TypeOK, Ids, FreshInv
<1>2. /\ \A y \in Callers \ {x} : pc'[y] = pc[y] /\ job'[y] = job[y]
      /\ pc'[x] = "lock" /\ job'[x] = next
      /\ parent'[next] = x
      /\ \A i \in Ids \ {next} : kind'[i] = kind[i] /\ parent'[i] = parent[i]
  BY <1>1 DEF TypeOK, Call
<1>3. StageInv'
  BY <1>1, <1>2 DEF StageInv, Blank, Outcome
<1>4. FreshInv'
  BY <1>1, <1>2, Typed DEF FreshInv, Blank
<1>5. FlowInv'
  <2>1. \A f \in Ids : thread[f] = "running" => f # next
    BY <1>1 DEF Blank
  <2> QED
    BY <1>1, <1>2, <2>1, Typed DEF FlowInv, Pending
<1>6. LinkInv'
  <2>1. /\ \A y \in Callers : pc[y] \in Pending =>
             job[y] # next /\ job[y] \in Ids
        /\ \A e \in Executors : \A n \in 1..Len(command_results[e]) :
             command_results[e][n] # next
    BY Typed DEF NumberInv, JobInv
  <2> QED
    BY <1>1, <1>2, <2>1, Typed DEF LinkInv
<1>7. PlaceInv'
  BY <1>1, <1>2 DEF PlaceInv
<1>8. WaitInv'
  <2> SUFFICES ASSUME NEW i \in Ids, parent'[i] \in Ids
               PROVE  /\ thread[i] \in Active => Awaited(i)'
                      /\ command_status[i] = "FAILED" =>
                           Awaited(i)' \/ payload[parent'[i]] = "rest"
    BY <1>1 DEF WaitInv
  <2>1. CASE i = next
    BY <1>1, <2>1 DEF Blank, Active
  <2>2. CASE i # next
    BY <1>1, <1>2, <2>2, Typed DEF WaitInv, Awaited
  <2> QED
    BY <2>1, <2>2
<1>9. OrderInv'
  <2>1. Nobody \notin Ids /\ x # Nobody
    BY IdsAreNumbers DEF Nobody, Free
  <2>2. ASSUME NEW i \in Ids, i >= next' PROVE parent'[i] = Nobody
    BY <1>1, <1>2, <2>2, Typed DEF OrderInv
  <2>3. ASSUME NEW i \in Ids, NEW k \in Ids,
               parent'[i] \in Ids, parent'[k] = parent'[i], k > i
        PROVE  command_status'[i] # "FAILED" /\ ~Current(i)'
    <3>1. i < next /\ i # next /\ parent'[i] = parent[i]
      <4>1. k <= next
        BY <2>2, <2>1, <2>3, <1>1, Typed
      <4> QED
        BY <4>1, <2>3, <1>2, <1>1, Typed
    <3>2. CASE k = next
      <4>1. parent[i] = x /\ x \in Ids
        BY <3>1, <3>2, <2>3, <1>2
      <4>2. payload[x] = "none"
        BY <4>1 DEF StageInv, Blank
      <4>3. command_status[i] # "FAILED"
        BY <4>1, <4>2, <1>1 DEF WaitInv, Awaited
      <4> QED
        BY <4>1, <4>3, <3>1, <1>1, <1>2 DEF Current
    <3>3. CASE k # next
      <4>1. parent'[k] = parent[k]
        BY <3>3, <1>2
      <4>2. command_status[i] # "FAILED" /\ ~Current(i)
        BY <4>1, <3>1, <2>3 DEF OrderInv
      <4>3. parent[i] \in Callers
        BY <3>1, <2>3, Typed
      <4>4. CASE parent[i] = x
        BY <4>2, <4>4, <3>1, <1>1, <1>2 DEF Current
      <4>5. CASE parent[i] # x
        BY <4>2, <4>3, <4>5, <3>1, <1>1, <1>2 DEF Current
      <4> QED
        BY <4>4, <4>5
    <3> QED
      BY <3>2, <3>3
  <2> QED
    BY <2>2, <2>3 DEF OrderInv
<1> QED
  BY <1>3, <1>4, <1>5, <1>6, <1>7, <1>8, <1>9

(* A call that raises leaves no result; it ends the flow that made it.     *)
LEMMA RaiseCore ==
  ASSUME IInv, CoreInv, NEW x \in Callers, pc[x] \in Unready, Raise(x)
  PROVE  CoreInv'
<1> USE DEF IInv, CoreInv
<1> DEFINE j == job[x]
<1>1. /\ j \in Ids /\ Blank(j) /\ parent[j] = x /\ pc[x] \in Pending
      /\ pc[x] # "idle" /\ pc[x] \notin {"record", "join"}
  BY DEF FreshInv, LinkInv, JobInv, Unready, Pending, Settled
<1>2. x \in Ids => thread[x] = "running" /\ x # j
  BY <1>1 DEF FlowInv, Blank
<1>3. /\ UNCHANGED <<command_results, command_status, next>>
      /\ pc' = [pc EXCEPT ![x] = "idle"] /\ job' = [job EXCEPT ![x] = Nobody]
      /\ kind' = [kind EXCEPT ![j] = "none"]
      /\ parent' = [parent EXCEPT ![j] = Nobody]
      /\ IF x \in Clients THEN UNCHANGED <<thread, payload>>
         ELSE /\ thread' = [thread EXCEPT ![x] = "publishing"]
              /\ payload' = [payload EXCEPT ![x] = "rest"]
  BY DEF Raise, Answer
<1>4. /\ \A y \in Callers \ {x} : pc'[y] = pc[y] /\ job'[y] = job[y]
      /\ pc'[x] = "idle"
      /\ \A i \in Ids \ {j} : kind'[i] = kind[i] /\ parent'[i] = parent[i]
      /\ parent'[j] = Nobody /\ Nobody \notin Ids
  BY <1>1, <1>3, IdsAreNumbers DEF TypeOK, Nobody
<1>5. /\ \A i \in Ids \ {x} : thread'[i] = thread[i] /\ payload'[i] = payload[i]
      /\ x \in Ids => thread'[x] = "publishing" /\ payload'[x] = "rest"
  BY <1>3, IdsAreNumbers DEF TypeOK, Callers
<1>6. StageInv'
  <2> SUFFICES ASSUME NEW i \in Ids
               PROVE  \/ Blank(i)'
                      \/ /\ thread'[i] \in {"none", "finally", "dead"}
                         /\ Outcome(i)'
                      \/ /\ thread'[i] = "running"
                         /\ kind'[i] \in {"async", "flow"}
                         /\ command_status[i] = "RUNNING" /\ payload'[i] = "none"
                      \/ /\ thread'[i] = "publishing"
                         /\ command_status[i] = "RUNNING" /\ payload'[i] # "none"
    BY <1>3 DEF StageInv
  <2>1. CASE i = j
    BY <1>1, <1>2, <1>3, <1>5, <2>1 DEF Blank
  <2>2. CASE i = x
    BY <1>1, <1>2, <1>3, <1>5, <2>2 DEF StageInv, Blank
  <2>3. CASE i # j /\ i # x
    BY <1>3, <1>4, <1>5, <2>3 DEF StageInv, Blank, Outcome
  <2> QED
    BY <2>1, <2>2, <2>3
<1>7. FreshInv'
  <2>1. ASSUME NEW i \in Ids, i >= next PROVE Blank(i)'
    <3>1. Blank(i) /\ i # x
      BY <1>2, <2>1 DEF FreshInv, Blank
    <3> QED
      BY <1>3, <1>5, <3>1 DEF Blank
  <2>2. ASSUME NEW y \in Callers, pc'[y] \in Unready PROVE Blank(job[y])'
    <3>1. y # x /\ pc[y] \in Unready /\ job'[y] = job[y]
      BY <1>4, <2>2 DEF Unready
    <3>2. Blank(job[y]) /\ job[y] \in Ids
      BY <3>1 DEF FreshInv, JobInv, Unready, Pending, Settled
    <3>3. job[y] # x
      BY <1>2, <3>2 DEF Blank
    <3> QED
      BY <1>3, <1>5, <3>1, <3>2, <3>3 DEF Blank
  <2> QED
    BY <1>3, <2>1, <2>2 DEF FreshInv
<1>8. FlowInv'
  <2> SUFFICES ASSUME NEW f \in Ids, pc'[f] # "idle"
               PROVE  /\ pc'[f] \in Pending \cup {"join"}
                      /\ thread'[f] = "running" /\ kind'[f] = "flow"
    BY DEF FlowInv
  <2>1. f # x /\ pc'[f] = pc[f]
    BY <1>4, Typed
  <2>2. f # j
    BY <1>1, <2>1 DEF FlowInv, Blank
  <2> QED
    BY <1>4, <1>5, <2>1, <2>2 DEF FlowInv
<1>9. LinkInv'
  <2>1. /\ \A y \in Callers \ {x} : pc[y] \in Pending =>
             job[y] # j /\ job[y] \in Ids
        /\ \A e \in Executors : \A n \in 1..Len(command_results[e]) :
             command_results[e][n] # j
    BY <1>1 DEF NumberInv, JobInv
  <2>2. ASSUME NEW y \in Callers, pc'[y] \in Pending PROVE parent'[job'[y]] = y
    <3>1. y # x
      BY <1>4, <2>2 DEF Pending, Settled
    <3> QED
      BY <1>4, <2>1, <2>2, <3>1 DEF LinkInv
  <2>3. \A e \in Executors : \A n \in 1..Len(command_results[e]) :
          /\ parent'[command_results[e][n]] \in Callers
          /\ ExecutorOf(parent'[command_results[e][n]]) = e
    BY <1>4, <2>1, Typed DEF LinkInv
  <2> QED
    BY <1>3, <2>2, <2>3 DEF LinkInv
<1>10. PlaceInv'
  BY <1>1, <1>3, <1>4 DEF PlaceInv
<1>11. WaitInv'
  <2> SUFFICES ASSUME NEW i \in Ids, parent'[i] \in Ids
               PROVE  /\ thread'[i] \in Active => Awaited(i)'
                      /\ command_status[i] = "FAILED" =>
                           Awaited(i)' \/ payload'[parent'[i]] = "rest"
    BY <1>3 DEF WaitInv
  <2>1. i # j /\ parent'[i] = parent[i]
    BY <1>4
  <2>2. thread'[i] \in Active => thread[i] \in Active
    BY <1>2, <1>5 DEF Active
  <2>3. Awaited(i) => Awaited(i)'
    BY <1>1, <1>4, <2>1, Typed DEF Awaited
  <2>4. payload[parent[i]] = "rest" => payload'[parent[i]] = "rest"
    BY <1>5, <2>1
  <2> QED
    BY <2>1, <2>2, <2>3, <2>4 DEF WaitInv
<1>12. OrderInv'
  <2>1. InOrder
    BY <1>1, <1>3, <1>4, Typed DEF InOrder
  <2> QED
    BY <2>1, OrderKept
<1> QED
  BY <1>6, <1>7, <1>8, <1>9, <1>10, <1>11, <1>12

(* A body ends, in its own thread.                                         *)
Ending(i, outcome) ==
  /\ UNCHANGED <<command_results, command_status, callVars, pc, job>>
  /\ pc[i] = "idle" /\ outcome \in Payload \ {"none"}
  /\ FinishBody(i, outcome)

LEMMA EndingCore ==
  ASSUME IInv, CoreInv, NEW i \in Ids, NEW outcome, Ending(i, outcome)
  PROVE  CoreInv'
<1> USE DEF IInv, CoreInv, Ending, callVars
<1>1. /\ thread[i] = "running"
      /\ thread'[i] = "publishing" /\ payload'[i] = outcome
      /\ \A k \in Ids \ {i} : thread'[k] = thread[k] /\ payload'[k] = payload[k]
  BY DEF FinishBody, TypeOK
<1>2. StageInv'
  BY <1>1 DEF StageInv, Blank, Outcome
<1>3. FreshInv'
  <2>1. \A k \in Ids : Blank(k) => Blank(k)'
    BY <1>1 DEF Blank
  <2> QED
    BY <2>1 DEF FreshInv, JobInv, Unready, Pending, Settled
<1>4. FlowInv'
  BY <1>1 DEF FlowInv
<1>5. LinkInv' /\ PlaceInv'
  BY DEF LinkInv, PlaceInv
<1>6. WaitInv'
  <2>1. payload[i] = "none"
    BY <1>1 DEF StageInv, Blank
  <2> QED
    BY <1>1, <2>1 DEF WaitInv, Awaited, Active
<1>7. OrderInv'
  <2>1. InOrder
    BY <1>1 DEF InOrder
  <2> QED
    BY <2>1, OrderKept
<1> QED
  BY <1>2, <1>3, <1>4, <1>5, <1>6, <1>7

(* A flow goes on after a command, or ends because it failed.              *)
LEMMA FlowJoinCore ==
  ASSUME IInv, CoreInv, NEW f \in Ids, FlowJoin(f) PROVE CoreInv'
<1> USE DEF IInv, CoreInv
<1>1. /\ UNCHANGED <<command_results, command_status, kind, parent, next>>
      /\ pc[f] = "join" /\ Joined(job[f]) /\ thread[f] = "running"
      /\ \A y \in Callers \ {f} : pc'[y] = pc[y] /\ job'[y] = job[y]
      /\ pc'[f] = "idle"
      /\ \A k \in Ids \ {f} : thread'[k] = thread[k] /\ payload'[k] = payload[k]
  <2>1. thread' = thread \/ thread' = [thread EXCEPT ![f] = "publishing"]
    BY DEF FlowJoin, FinishBody
  <2>2. payload' = payload \/ payload' = [payload EXCEPT ![f] = "rest"]
    BY DEF FlowJoin, FinishBody
  <2>3. pc[f] = "join" /\ thread[f] = "running"
    BY DEF FlowJoin, FlowInv
  <2> QED
    BY <2>1, <2>2, <2>3, Typed DEF FlowJoin, TypeOK, callVars
<1>2. payload[f] = "none" /\ command_status[f] = "RUNNING"
  BY <1>1 DEF StageInv, Blank
<1>3. IF command_status[job[f]] = "FAILED"
        THEN thread'[f] = "publishing" /\ payload'[f] = "rest"
        ELSE thread'[f] = "running" /\ payload'[f] = "none"
  BY <1>1, <1>2 DEF FlowJoin, FinishBody, TypeOK
<1>4. StageInv'
  BY <1>1, <1>2, <1>3 DEF StageInv, Blank, Outcome
<1>5. FreshInv'
  <2>1. \A k \in Ids : Blank(k) => Blank(k)'
    BY <1>1 DEF Blank
  <2> QED
    BY <1>1, <2>1 DEF FreshInv, JobInv, Unready, Pending, Settled
<1>6. FlowInv'
  BY <1>1, Typed DEF FlowInv
<1>7. LinkInv' /\ PlaceInv'
  BY <1>1 DEF LinkInv, PlaceInv, Pending, Settled
<1>8. WaitInv'
  <2> SUFFICES ASSUME NEW i \in Ids, parent[i] \in Ids
               PROVE  /\ thread'[i] \in Active => Awaited(i)'
                      /\ command_status[i] = "FAILED" =>
                           Awaited(i)' \/ payload'[parent[i]] = "rest"
    BY <1>1 DEF WaitInv
  <2>1. thread'[i] \in Active => thread[i] \in Active
    BY <1>1 DEF Active
  <2>2. CASE parent[i] = f
    <3>1. Awaited(i) => i = job[f]
      BY <2>2 DEF Awaited
    <3>2. thread[i] \notin Active
      BY <1>1, <3>1 DEF WaitInv, Joined, Active
    <3>3. command_status[i] = "FAILED" => payload'[f] = "rest"
      BY <1>2, <1>3, <2>2, <3>1 DEF WaitInv
    <3> QED
      BY <2>1, <2>2, <3>2, <3>3
  <2>3. CASE parent[i] # f
    <3>1. /\ payload'[parent[i]] = payload[parent[i]]
          /\ Awaited(i) => Awaited(i)'
      BY <1>1, <2>3, Typed DEF Awaited
    <3> QED
      BY <2>1, <3>1 DEF WaitInv
  <2> QED
    BY <2>2, <2>3
<1>9. OrderInv'
  <2>1. InOrder
    BY <1>1, Typed DEF InOrder
  <2> QED
    BY <2>1, OrderKept
<1> QED
  BY <1>4, <1>5, <1>6, <1>7, <1>8, <1>9

(* The outcome is published, and the thread dies.                          *)
LEMMA PublishCore ==
  ASSUME IInv, CoreInv, NEW i \in Ids, Publish(i) \/ ForceHeartbeat(i)
  PROVE  CoreInv'
<1> USE DEF IInv, CoreInv
<1>1. /\ UNCHANGED <<command_results, payload, kind, parent, next, pc, job>>
      /\ \A k \in Ids \ {i} : /\ thread'[k] = thread[k]
                              /\ command_status'[k] = command_status[k]
      /\ \/ /\ thread[i] = "publishing" /\ thread'[i] = "finally"
            /\ command_status'[i] = StatusFor(payload[i])
         \/ /\ thread[i] = "finally" /\ thread'[i] = "dead"
            /\ command_status'[i] = command_status[i]
  BY DEF Publish, ForceHeartbeat, callVars, TypeOK
<1>2. StageInv'
  BY <1>1 DEF StageInv, Blank, Outcome
<1>3. FreshInv'
  <2>1. \A k \in Ids : Blank(k) => Blank(k)'
    BY <1>1 DEF Blank
  <2> QED
    BY <1>1, <2>1 DEF FreshInv, JobInv, Unready, Pending, Settled
<1>4. FlowInv' /\ LinkInv'
  BY <1>1 DEF FlowInv, LinkInv
<1>5. PlaceInv'
  <2>1. command_status'[i] = "RUNNING" => command_status[i] = "RUNNING"
    BY <1>1, StatusForValues, Typed DEF Final
  <2> QED
    BY <1>1, <2>1 DEF PlaceInv
<1>6. WaitInv'
  BY <1>1 DEF WaitInv, Awaited, Active
<1>7. OrderInv'
  <2>1. InOrder
    BY <1>1 DEF InOrder, Current, WaitInv, Awaited, Active
  <2> QED
    BY <2>1, OrderKept
<1> QED
  BY <1>2, <1>3, <1>4, <1>5, <1>6, <1>7

(* Steps of execute_command, by their shapes.                              *)
LEMMA ExecuteShapes ==
  ASSUME IInv, CoreInv, NEW x \in Callers, ExecuteCommand(x)
  PROVE  \/ Advancing(x) \/ Record(x)
         \/ pc[x] = "lock" /\ Acquire(x)
         \/ \E s, p, t : Making(x, s, p, t)
         \/ pc[x] \in Unready /\ Raise(x)
<1> USE DEF IInv, CoreInv
<1>1. ASSUME NEW failure \in Failures, Caught(x, failure),
             pc[x] \in {"dispatch", "body"}
      PROVE  \/ \E s, p, t : Making(x, s, p, t)
             \/ pc[x] \in Unready /\ Raise(x)
  <2>1. CASE NewFailure(x, failure) /\ failure \in Payload
    <3>1. /\ job[x] \in Ids /\ Blank(job[x])
      BY <1>1 DEF JobInv, FreshInv, Unready, Pending, Settled
    <3>2. thread' = [thread EXCEPT ![job[x]] = "none"]
      BY <2>1, <3>1 DEF NewFailure, Blank, TypeOK
    <3>3. failure # "none" /\ StatusFor(failure) = "FAILED"
      <4>1. failure \in {"rest", "raw"}
        BY <1>1, <2>1 DEF Failures, Payload
      <4> QED
        BY <4>1 DEF StatusFor
    <3>4. Making(x, "FAILED", failure, "none")
      BY <1>1, <2>1, <3>2, <3>3 DEF NewFailure, Making
    <3> QED
      BY <3>4
  <2> QED
    BY <1>1, <2>1, CaughtCases DEF Unready
<1>2. CASE Malformed(x) \/ Busy(x)
  BY <1>2 DEF Malformed, Busy, Unready
<1>3. CASE Dispatch(x)
  <2>1. pc[x] = "dispatch" /\ \E failure \in Failures : Caught(x, failure)
    BY <1>3 DEF Dispatch, Failures
  <2> QED
    BY <1>1, <2>1
<1>4. CASE EndSync(x)
  <2>1. CASE NewSuccess(x)
    <3>1. /\ job[x] \in Ids /\ Blank(job[x]) /\ pc[x] = "body"
      BY <1>4 DEF EndSync, JobInv, FreshInv, Unready, Pending, Settled
    <3>2. thread' = [thread EXCEPT ![job[x]] = "none"]
      BY <2>1, <3>1 DEF NewSuccess, Blank, TypeOK
    <3>3. StatusFor("result") = "SUCCEEDED" /\ "result" \in Payload
      BY DEF StatusFor, Payload
    <3>4. Making(x, "SUCCEEDED", "result", "none")
      BY <2>1, <3>1, <3>2, <3>3 DEF NewSuccess, Making
    <3> QED
      BY <3>4
  <2> QED
    BY <1>1, <1>4, <2>1 DEF EndSync
<1>5. CASE StartAsync(x)
  <2>1. job[x] \in Ids /\ Blank(job[x]) /\ pc[x] = "dispatch"
    BY <1>5 DEF StartAsync, JobInv, FreshInv, Unready, Pending, Settled
  <2>2. payload' = [payload EXCEPT ![job[x]] = "none"]
    BY <1>5, <2>1 DEF StartAsync, Blank, TypeOK
  <2>3. Making(x, "RUNNING", "none", "running")
    BY <1>5, <2>1, <2>2 DEF StartAsync, Making
  <2> QED
    BY <2>3
<1>6. CASE Acquire(x)
  BY <1>6 DEF Acquire
<1>7. CASE Proceed(x)
  BY <1>7 DEF Proceed, Advancing, Unready, TypeOK
<1>8. CASE StartSync(x)
  BY <1>8 DEF StartSync, Advancing, Unready, TypeOK
<1> QED
  BY <1>2, <1>3, <1>4, <1>5, <1>6, <1>7, <1>8 DEF ExecuteCommand

LEMMA AcquireAdvances ==
  ASSUME TypeOK, NEW x \in Callers, Acquire(x) PROVE Advancing(x)
BY DEF Acquire, Advancing, Unready, TypeOK

LEMMA CoreStep == ASSUME IInv, CoreInv, [Next]_vars PROVE CoreInv'
<1>1. ASSUME NEW x \in Callers, ExecuteCommand(x) PROVE CoreInv'
  BY <1>1, ExecuteShapes, AcquireAdvances, AdvancingKeeps, MakingKeeps,
     RaiseCore, RecordCore DEF IInv
<1>2. ASSUME NEW c \in Clients,
             \/ ListCommands(c) \/ Answering(c)
             \/ \E i \in Ids : GetCommand(c, i)
      PROVE  CoreInv'
  <2>1. c \in Callers /\ c \notin Ids
    BY IdsAreNumbers DEF Callers
  <2>2. /\ UNCHANGED <<command_results, resultVars, callVars>>
        /\ pc[c] \notin Pending
        /\ \/ UNCHANGED pc
           \/ \E p \in {"idle", "list", "join", "reply"} : pc' = [pc EXCEPT ![c] = p]
        /\ UNCHANGED job \/ \E k : job' = [job EXCEPT ![c] = k]
    <3> USE DEF Pending, Settled, Answer
    <3>1. CASE ListCommands(c)
      BY <3>1 DEF ListCommands
    <3>2. CASE \E i \in Ids : GetCommand(c, i)
      BY <3>2 DEF GetCommand
    <3>3. CASE ReplyResult(c) \/ ListEnd(c)
      BY <3>3 DEF ReplyResult, ListEnd
    <3>4. CASE ListOne(c)
      BY <3>4 DEF ListOne, ShowOne, ListFails
    <3> QED
      BY <1>2, <3>1, <3>2, <3>3, <3>4 DEF Answering
  <2>3. Reading
    BY <2>1, <2>2 DEF Reading, IInv, TypeOK, Pending, Settled
  <2> QED
    BY <2>3, ReadingKeeps
<1>3. ASSUME NEW c \in Clients, PostCommand(c) PROVE CoreInv'
  BY <1>3, CallCore, IdsAreNumbers DEF PostCommand, Callers
<1>4. ASSUME NEW i \in Ids, CommandThread(i) PROVE CoreInv'
  <2>1. CASE EndAsync(i)
    <3>1. kind[i] = "async" /\ pc[i] = "idle"
      BY <2>1 DEF EndAsync, CoreInv, FlowInv
    <3>2. \E outcome : Ending(i, outcome)
      BY <2>1, <3>1 DEF EndAsync, Ending, Payload
    <3> QED
      BY <3>2, EndingCore
  <2>2. CASE FlowEnd(i)
    <3>1. Ending(i, "result")
      BY <2>2 DEF FlowEnd, Ending, Payload
    <3> QED
      BY <3>1, EndingCore
  <2>3. CASE FlowTask(i)
    BY <2>3, CallCore DEF FlowTask, Callers
  <2> QED
    BY <1>4, <2>1, <2>2, <2>3, FlowJoinCore, PublishCore DEF CommandThread
<1>5. ASSUME HeartbeatSent \/ UNCHANGED vars PROVE CoreInv'
  <2>1. Reading
    BY <1>5 DEF HeartbeatSent, vars, Reading, resultVars, callVars
  <2> QED
    BY <2>1, ReadingKeeps
<1> QED
  BY <1>1, <1>2, <1>3, <1>4, <1>5 DEF Next, Request

(* What is final stays so.                                                 *)
LEMMA DoneStays ==
  ASSUME IInv, CoreInv, [Next]_vars, NEW k \in Ids, Done(k) PROVE Done(k)'
<1> USE DEF Done, IInv, CoreInv
<1>1. ASSUME NEW x \in Callers, ExecuteCommand(x) PROVE Done(k)'
  <2>1. ASSUME NEW s, NEW p, NEW t, Making(x, s, p, t) PROVE Done(k)'
    <3>1. Blank(job[x])
      BY <2>1 DEF Making, FreshInv, Unready
    <3>2. k # job[x]
      BY <3>1 DEF Blank, Final
    <3> QED
      BY <2>1, <3>2 DEF Making, TypeOK
  <2>2. CASE Advancing(x) \/ Record(x) \/ Acquire(x)
    BY <2>2 DEF Advancing, Record, Acquire, resultVars
  <2>3. CASE Raise(x)
    BY <2>3 DEF Raise
  <2> QED
    BY <1>1, <2>1, <2>2, <2>3, ExecuteShapes
<1>2. ASSUME NEW i \in Ids, Publish(i) PROVE Done(k)'
  BY <1>2, StatusForValues DEF Publish, TypeOK
<1>3. CASE ~ \/ \E x \in Callers : ExecuteCommand(x)
             \/ \E i \in Ids : Publish(i)
  <2>1. UNCHANGED command_status
    BY <1>3 DEF Next, Request, Answering, CommandThread, PostCommand,
       Call, ListCommands, GetCommand, ReplyResult, ListOne, ListEnd, EndAsync,
       FlowTask, FlowJoin, FlowEnd, ForceHeartbeat, HeartbeatSent, vars,
       resultVars
  <2> QED
    BY <2>1
<1> QED
  BY <1>1, <1>2, <1>3

(* Steps other than those of a list request leave the copies alone.        *)
LEMMA CopiesStay ==
  ASSUME IInv, CoreInv, [Next]_vars, NEW c \in Clients,
         ~(ListCommands(c) \/ ListOne(c) \/ ListEnd(c))
  PROVE  /\ listing'[c] = listing[c] /\ running_shown'[c] = running_shown[c]
         /\ pc[c] = "list" => pc'[c] = "list"
<1> USE DEF IInv, CoreInv
<1>1. c \in Callers /\ c \notin Ids
  BY IdsAreNumbers DEF Callers
<1>2. ASSUME NEW x \in Callers, ExecuteCommand(x)
      PROVE  /\ UNCHANGED <<listing, running_shown>>
             /\ pc[x] # "list" /\ \A y \in Callers \ {x} : pc'[y] = pc[y]
  <2>1. pc[x] \in Pending
    BY <1>2 DEF ExecuteCommand, Acquire, Malformed, Busy, Proceed, Dispatch,
       StartSync, EndSync, StartAsync, Record, Pending, Settled
  <2>2. \E p : pc' = [pc EXCEPT ![x] = p]
    BY <1>2, ExecuteShapes
    DEF Advancing, Making, Raise, Answer, Acquire, Record
  <2>3. UNCHANGED <<listing, running_shown>>
    <3>1. \A failure \in Failures : Caught(x, failure) => UNCHANGED listVars
      BY CaughtCases DEF Raise, NewFailure
    <3>2. Dispatch(x) => \E failure \in Failures : Caught(x, failure)
      BY DEF Dispatch, Failures
    <3> QED
      BY <1>2, <3>1, <3>2 DEF ExecuteCommand, Acquire, Malformed, Busy, Proceed,
         StartSync, EndSync, StartAsync, Record, Raise, NewSuccess, listVars
  <2> QED
    BY <2>1, <2>2, <2>3 DEF Pending, Settled, TypeOK
<1>3. ASSUME NEW i \in Ids, CommandThread(i)
      PROVE  UNCHANGED <<listing, running_shown>> /\ pc'[c] = pc[c]
  BY <1>1, <1>3 DEF CommandThread, EndAsync, FlowTask, Call, FlowJoin, FlowEnd,
     Publish, ForceHeartbeat, listVars, TypeOK
<1>4. ASSUME NEW d \in Clients, PostCommand(d) \/ ReplyResult(d)
                                \/ \E i \in Ids : GetCommand(d, i)
      PROVE  /\ UNCHANGED <<listing, running_shown>>
             /\ pc[c] = "list" => pc'[c] = "list"
  BY <1>1, <1>4 DEF PostCommand, Call, ReplyResult, GetCommand, Answer,
     listVars, TypeOK, Callers
<1>5. ASSUME NEW d \in Clients, d # c, ListCommands(d) \/ ListOne(d) \/ ListEnd(d)
      PROVE  /\ listing'[c] = listing[c] /\ running_shown'[c] = running_shown[c]
             /\ pc'[c] = pc[c]
  BY <1>1, <1>5 DEF ListCommands, ListOne, ShowOne, ListFails, ListEnd, Answer,
     TypeOK, Callers
<1>6. ASSUME HeartbeatSent \/ UNCHANGED vars
      PROVE  UNCHANGED <<listing, running_shown>> /\ pc'[c] = pc[c]
  BY <1>6 DEF HeartbeatSent, vars, listVars
<1> QED
  BY <1>1, <1>2, <1>3, <1>4, <1>5, <1>6 DEF Next, Request, Answering

LEMMA ListStep == ASSUME IInv, Wider, [Next]_vars PROVE ListInv'
<1> USE DEF IInv, Wider
<1> SUFFICES ASSUME NEW c \in Clients
             PROVE  /\ \A n \in 1..(Len(listing'[c]) - 1) : Done(listing[c][n])'
                    /\ \/ running_shown'[c] = {}
                       \/ /\ pc'[c] = "list" /\ listing'[c] = <<>>
                          /\ \E i \in Ids : running_shown'[c] = {i}
  BY DEF ListInv
<1>1. /\ c \in Callers /\ listing[c] \in Seq(Ids) /\ Len(listing[c]) \in Nat
      /\ \A n \in 1..Len(listing[c]) : listing[c][n] \in Ids
  BY DEF TypeOK, Callers
<1>2. \A n \in 1..(Len(listing[c]) - 1) : Done(listing[c][n])
  BY DEF ListInv
<1>3. \/ running_shown[c] = {}
      \/ /\ pc[c] = "list" /\ listing[c] = <<>>
         /\ \E i \in Ids : running_shown[c] = {i}
  BY DEF ListInv
<1>4. CASE ~(ListCommands(c) \/ ListOne(c) \/ ListEnd(c))
  <2>1. /\ listing'[c] = listing[c] /\ running_shown'[c] = running_shown[c]
        /\ pc[c] = "list" => pc'[c] = "list"
    BY <1>4, CopiesStay
  <2>2. ASSUME NEW n \in 1..(Len(listing[c]) - 1) PROVE Done(listing[c][n])'
    <3>1. listing[c][n] \in Ids /\ Done(listing[c][n])
      BY <1>1, <1>2
    <3>2. \A k \in Ids : Done(k) => Done(k)'
      BY DoneStays
    <3> QED
      BY <2>1, <3>1, <3>2 DEF Done
  <2> QED
    BY <1>3, <2>1, <2>2
<1>5. CASE ListCommands(c)
  <2>1. /\ listing'[c] = command_results["agent"] /\ running_shown'[c] = {}
        /\ UNCHANGED command_status
    BY <1>3, <1>5 DEF ListCommands, TypeOK, resultVars
  <2> QED
    BY <2>1 DEF AtMostOneRunning, Executors, Done
<1>6. CASE ListEnd(c)
  BY <1>2, <1>6 DEF ListEnd, TypeOK, resultVars, Done
<1>7. CASE ListOne(c)
  <2>1. /\ listing[c] # <<>> /\ running_shown[c] = {} /\ UNCHANGED command_status
    BY <1>3, <1>7 DEF ListOne, resultVars
  <2>2. CASE ListFails(c)
    BY <2>2 DEF ListFails, TypeOK
  <2>3. CASE ShowOne(c)
    <3>1. /\ listing'[c] = Tail(listing[c]) /\ pc'[c] = "list"
          /\ running_shown'[c] = {i \in {listing[c][1]} : ~Done(i)}
      BY <1>7, <2>1, <2>3 DEF ListOne, ShowOne, TypeOK
    <3>2. /\ Len(listing'[c]) = Len(listing[c]) - 1
          /\ \A n \in 1..Len(listing'[c]) : listing'[c][n] = listing[c][n + 1]
      BY <1>1, <2>1, <3>1
    <3>3. ASSUME NEW n \in 1..(Len(listing'[c]) - 1) PROVE Done(listing[c][n])'
      <4>1. n \in 1..Len(listing'[c]) /\ n + 1 \in 1..(Len(listing[c]) - 1)
        BY <1>1, <3>2
      <4>2. Done(listing[c][n + 1])
        BY <1>2, <4>1
      <4>3. listing'[c][n] = listing[c][n + 1]
        BY <3>2, <4>1
      <4> QED
        BY <2>1, <4>2, <4>3 DEF Done
    <3>4. CASE Len(listing[c]) = 1
      <4>1. Tail(listing[c]) \in Seq(Ids) /\ Len(listing'[c]) = 0
        BY <1>1, <2>1, <3>2, <3>4
      <4>2. listing'[c] = <<>>
        BY <3>1, <4>1, EmptySeq, Zenon
      <4>3. listing[c][1] \in Ids
        BY <1>1, <3>4
      <4> QED
        BY <3>1, <3>3, <4>2, <4>3
    <3>5. CASE Len(listing[c]) > 1
      <4>1. Done(listing[c][1])
        BY <1>1, <1>2, <3>5
      <4> QED
        BY <3>1, <3>3, <4>1
    <3>6. Len(listing[c]) = 1 \/ Len(listing[c]) > 1
      <4>1. Len(listing[c]) \in Nat \ {0}
        BY <1>1, <2>1, EmptySeq, Zenon
      <4>2. \A n \in Nat \ {0} : n = 1 \/ n > 1
        OBVIOUS
      <4> QED
        BY <4>1, <4>2, Zenon
    <3> QED
      BY <3>4, <3>5, <3>6
  <2> QED
    BY <1>7, <2>2, <2>3 DEF ListOne
<1> QED
  BY <1>4, <1>5, <1>6, <1>7

IInvWide == IInv /\ Wider

LEMMA InitWide == Init => IInvWide
<1> SUFFICES ASSUME Init PROVE Wider
  BY InitIInv DEF IInvWide
<1>1. CoreInv
  BY DEF Init, CoreInv, StageInv, FreshInv, FlowInv, LinkInv, PlaceInv, WaitInv,
         OrderInv, Blank, Unready, Pending, Settled, Callers, Executors, Active,
         Nobody, Ids
<1>2. ListInv
  BY DEF Init, ListInv
<1> QED
  BY <1>1, <1>2 DEF Wider

LEMMA WideStep == IInvWide /\ [Next]_vars => IInvWide'
BY IInvStep, CoreStep, ListStep DEF IInvWide, Wider

-----------------------------------------------------------------------------
(* What the wider invariant implies                                        *)

(* Where a command that is running can be: at the end of its executor's    *)
(* list, or with the caller that holds that executor's lock.               *)
LEMMA RunningPlace ==
  ASSUME IInvWide, NEW i \in Ids, command_status[i] = "RUNNING"
  PROVE  LET e == ExecutorOf(parent[i])
             n == Len(command_results[e]) IN
         /\ parent[i] \in Callers
         /\ \/ n > 0 /\ command_results[e][n] = i
            \/ pc[parent[i]] = "record" /\ job[parent[i]] = i
<1> USE DEF IInvWide, IInv, Wider, CoreInv
<1>1. CASE \E x \in Callers : pc[x] = "record" /\ job[x] = i
  BY <1>1 DEF LinkInv, Pending, Settled
<1>2. ASSUME NEW e \in Executors, NEW n \in 1..Len(command_results[e]),
             command_results[e][n] = i
      PROVE  /\ e = ExecutorOf(parent[i]) /\ parent[i] \in Callers
             /\ n = Len(command_results[e]) /\ n > 0
  <2>1. e = ExecutorOf(parent[i]) /\ parent[i] \in Callers
    BY <1>2 DEF LinkInv
  <2>2. ~Done(i)
    BY DEF Done, Final
  <2>3. Len(command_results[e]) \in Nat
    BY DEF TypeOK
  <2> QED
    BY <1>2, <2>1, <2>2, <2>3 DEF AtMostOneRunning
<1> QED
  BY <1>1, <1>2 DEF PlaceInv

(* An executor has one command running at most, recorded or not, and none  *)
(* while the body of a synchronous one runs.                               *)
LEMMA OneRunning ==
  ASSUME IInvWide
  PROVE  /\ \A i, k \in Ids :
              /\ command_status[i] = "RUNNING" /\ command_status[k] = "RUNNING"
              /\ ExecutorOf(parent[i]) = ExecutorOf(parent[k])
              => i = k
         /\ \A x \in Callers, i \in Ids :
              pc[x] = "body" /\ command_status[i] = "RUNNING"
                => ExecutorOf(parent[i]) # ExecutorOf(x)
<1> USE DEF IInvWide, IInv
<1>1. ASSUME NEW x \in Callers, pc[x] \in {"body", "record"},
             NEW i \in Ids, command_status[i] = "RUNNING",
             ExecutorOf(parent[i]) = ExecutorOf(x)
      PROVE  pc[x] = "record" /\ job[x] = i
  <2> DEFINE e == ExecutorOf(x)
             n == Len(command_results[e])
  <2>1. n \in Nat /\ e \in Executors
    BY ExecutorOfCaller DEF TypeOK
  <2>2. ~(n > 0 /\ command_results[e][n] = i)
    BY <1>1, <2>1 DEF QuietInv, Settled, Done, Final
  <2>3. pc[parent[i]] = "record" /\ job[parent[i]] = i /\ parent[i] \in Callers
    BY <1>1, <2>2, RunningPlace
  <2>4. parent[i] = x
    BY <1>1, <2>3 DEF LockInv, Critical
  <2> QED
    BY <2>3, <2>4
<1>2. ASSUME NEW i \in Ids, NEW k \in Ids, command_status[i] = "RUNNING",
             command_status[k] = "RUNNING",
             ExecutorOf(parent[i]) = ExecutorOf(parent[k])
      PROVE  i = k
  <2>1. CASE \/ pc[parent[i]] = "record" /\ job[parent[i]] = i
                /\ parent[i] \in Callers
             \/ pc[parent[k]] = "record" /\ job[parent[k]] = k
                /\ parent[k] \in Callers
    BY <1>1, <1>2, <2>1
  <2> QED
    BY <1>2, <2>1, RunningPlace
<1> QED
  BY <1>1, <1>2

(* Whatever works for a flow, works for a flow that is itself running.     *)
LEMMA Workers ==
  ASSUME IInvWide, NEW i \in Working
  PROVE  /\ i \in Ids
         /\ \/ command_status[i] = "RUNNING" /\ kind[i] # "flow"
            \/ \E x \in Callers : pc[x] = "body" /\ job[x] = i /\ parent[i] = x
         /\ parent[i] \in Ids =>
              /\ command_status[parent[i]] = "RUNNING" /\ kind[parent[i]] = "flow"
<1> USE DEF IInvWide, IInv, Wider, CoreInv
<1>1. CASE i \in Ids /\ kind[i] = "async" /\ thread[i] = "running"
  <2>1. command_status[i] = "RUNNING"
    BY <1>1 DEF StageInv, Blank
  <2>2. ASSUME parent[i] \in Ids
        PROVE  command_status[parent[i]] = "RUNNING" /\ kind[parent[i]] = "flow"
    <3>1. pc[parent[i]] # "idle"
      BY <1>1, <2>2 DEF WaitInv, Awaited, Active
    <3>2. thread[parent[i]] = "running" /\ kind[parent[i]] = "flow"
      BY <2>2, <3>1 DEF FlowInv
    <3> QED
      BY <2>2, <3>2 DEF StageInv, Blank
  <2> QED
    BY <1>1, <2>1, <2>2
<1>2. ASSUME NEW x \in Callers, pc[x] = "body", job[x] = i
      PROVE  /\ i \in Ids /\ parent[i] = x
             /\ x \in Ids =>
                  command_status[x] = "RUNNING" /\ kind[x] = "flow"
  <2>1. i \in Ids /\ parent[i] = x
    BY <1>2 DEF JobInv, LinkInv, Pending, Settled
  <2>2. x \in Ids => command_status[x] = "RUNNING" /\ kind[x] = "flow"
    BY <1>2 DEF FlowInv, StageInv, Blank
  <2> QED
    BY <2>1, <2>2
<1> QED
  BY <1>1, <1>2 DEF Working

LEMMA WorkExcludes ==
  ASSUME IInvWide, NEW i \in Working, NEW k \in Working PROVE i = k
<1>1. ASSUME NEW a \in Working, NEW b \in Working,
             ExecutorOf(parent[a]) = ExecutorOf(parent[b])
      PROVE  a = b
  <2>1. a \in Ids /\ b \in Ids
    BY Workers
  <2>2. CASE command_status[a] = "RUNNING" /\ command_status[b] = "RUNNING"
    BY <1>1, <2>1, <2>2, OneRunning
  <2>3. CASE command_status[a] # "RUNNING" \/ command_status[b] # "RUNNING"
    <3>1. \E x, y \in Callers : /\ pc[x] = "body" /\ pc[y] = "body"
                                /\ job[x] = a /\ parent[a] = x
                                /\ job[y] = b /\ parent[b] = y
      BY <1>1, <2>1, <2>3, Workers, OneRunning
    <3> QED
      BY <1>1, <3>1 DEF IInvWide, IInv, LockInv, Critical
  <2> QED
    BY <2>2, <2>3
<1>2. ASSUME NEW a \in Working, NEW b \in Working,
             ExecutorOf(parent[a]) = "agent", ExecutorOf(parent[b]) = "flow",
             parent[b] \in Ids
      PROVE  FALSE
  <2> DEFINE p == parent[b]
  <2>1. /\ command_status[p] = "RUNNING" /\ kind[p] = "flow"
        /\ a \in Ids /\ b \in Ids
    BY <1>2, Workers
  <2>2. ASSUME NEW w \in Working, ExecutorOf(parent[w]) = ExecutorOf(parent[p])
        PROVE  FALSE
    <3>1. CASE command_status[w] = "RUNNING" /\ kind[w] # "flow"
      BY <1>2, <2>1, <2>2, <3>1, OneRunning, Workers
    <3>2. CASE \E x \in Callers : pc[x] = "body" /\ job[x] = w /\ parent[w] = x
      BY <1>2, <2>1, <2>2, <3>2, OneRunning
    <3> QED
      BY <3>1, <3>2, Workers
  <2>3. ExecutorOf(parent[p]) \in {"agent", "flow"}
    BY DEF ExecutorOf
  <2> QED
    BY <1>2, <2>2, <2>3
<1>3. ASSUME NEW w \in Working
      PROVE  \/ ExecutorOf(parent[w]) = "agent"
             \/ ExecutorOf(parent[w]) = "flow" /\ parent[w] \in Ids
  <2>1. parent[w] \in Callers
    BY <1>3, Workers, RunningPlace
  <2> QED
    BY <2>1 DEF ExecutorOf, Callers
<1> QED
  BY <1>1, <1>2, <1>3

-----------------------------------------------------------------------------
(* Theorems                                                                *)

(* At any time the code of at most one command works on the machine: the   *)
(* two executors with their two locks, and threads that outlive the call   *)
(* that started them, never let two run, for any number of clients, calls  *)
(* and flows.                                                              *)
THEOREM OneBodyAtATime == Spec => []ExclusiveBodies
<1>1. IInvWide => ExclusiveBodies
  <2> SUFFICES ASSUME IInvWide PROVE Cardinality(Working) <= 1
    BY DEF ExclusiveBodies
  <2>1. CASE Working = {}
    BY <2>1, FS_EmptySet
  <2>2. ASSUME NEW i \in Working PROVE Working = {i}
    BY WorkExcludes
  <2>3. \A i \in Working : Cardinality({i}) = 1
    BY FS_Singleton
  <2> QED
    BY <2>1, <2>2, <2>3
<1> QED
  BY <1>1, InitWide, WideStep, PTL DEF Spec

(* Whoever reads a result without command_state_lock being held sees a     *)
(* status that belongs to its payload, and a list shows at most one        *)
(* running command however long its serialisation takes.                   *)
THEOREM ConsistentReads == Spec => []ReadsAreConsistent
<1>1. IInvWide => ReadsAreConsistent
  <2> SUFFICES ASSUME IInvWide PROVE ReadsAreConsistent
    OBVIOUS
  <2> USE DEF IInvWide, Wider, CoreInv, IInv
  <2>1. ASSUME NEW i \in Ids, command_status[i] # "NONE", ~StateLocked(i)
        PROVE  command_status[i] = IF payload[i] = "none" THEN "RUNNING"
                                   ELSE StatusFor(payload[i])
    BY <2>1 DEF StageInv, Blank, Outcome, StateLocked
  <2>2. ASSUME NEW c \in Clients PROVE Cardinality(running_shown[c]) <= 1
    <3>1. CASE running_shown[c] = {}
      BY <3>1, FS_EmptySet
    <3>2. ASSUME NEW i \in Ids, running_shown[c] = {i}
          PROVE  Cardinality(running_shown[c]) <= 1
      <4>1. Cardinality({i}) = 1
        BY FS_Singleton
      <4> QED
        BY <3>2, <4>1
    <3> QED
      BY <3>1, <3>2 DEF ListInv
  <2> QED
    BY <2>1, <2>2 DEF ReadsAreConsistent
<1> QED
  BY <1>1, InitWide, WideStep, PTL DEF Spec

(* A flow that ran a command that failed does not succeed, and calls no    *)
(* other command after it, although it looks at the status only after      *)
(* joining the command's thread.                                           *)
THEOREM FailureEndsFlow == Spec => []FlowFailsWithCommand
<1>1. IInvWide => FlowFailsWithCommand
  <2> SUFFICES ASSUME IInvWide, NEW i \in Ids, parent[i] \in Ids,
                      command_status[i] = "FAILED"
               PROVE  /\ command_status[parent[i]] # "SUCCEEDED"
                      /\ \A k \in Ids : k > i => parent[k] # parent[i]
    BY DEF FlowFailsWithCommand
  <2> USE DEF IInvWide, Wider, CoreInv, IInv
  <2>1. ASSUME Awaited(i) PROVE command_status[parent[i]] # "SUCCEEDED"
    BY <2>1 DEF Awaited, FlowInv, StageInv, Blank
  <2>2. ASSUME payload[parent[i]] = "rest"
        PROVE  command_status[parent[i]] # "SUCCEEDED"
    BY <2>2, StatusForValues DEF StageInv, Blank, Outcome
  <2>3. \A k \in Ids : k > i => parent[k] # parent[i]
    BY DEF OrderInv
  <2>4. command_status[parent[i]] # "SUCCEEDED"
    BY <2>1, <2>2 DEF WaitInv
  <2> QED
    BY <2>3, <2>4
<1> QED
  BY <1>1, InitWide, WideStep, PTL DEF Spec
=============================================================================
