------------------------ MODULE PluginProcessProofs -------------------------
(***************************************************************************)
(* The safety properties of PluginProcess, for any number of processes and *)
(* of RPCs.  They are not inductive as they stand; IInv adds what a        *)
(* process that has not started looks like, that quit follows the steps of *)
(* listenSyscalls, that only a process that serves has RPCs in flight,     *)
(* that a listener is at the path from Listen on, and that nothing is at   *)
(* the path of a lone process that is about to listen.                     *)
(***************************************************************************)
EXTENDS PluginProcess, TLAPS

NewIsBlank ==
    \A p \in Processes :
        phase[p] = "new" => /\ plugin[p] = "cleanUp" /\ stop[p] = "wait"
                            /\ inFlight[p] = 0 /\ p \notin alone

QuitFollowsStop ==
    \A p \in Processes : p \in quit <=> stop[p] # "wait"

OnlyServingIsBusy ==
    \A p \in Processes : Up(p) /\ plugin[p] # "serving" => inFlight[p] = 0

ListenerIsAtPath ==
    \A p \in Processes :
        Up(p) /\ plugin[p] \in {"serve", "serving"} /\ p \notin quit \union ousted
        => path = p

AloneIsAlone ==
    \A p \in alone, q \in Processes : Up(p) /\ Up(q) => p = q

PathIsFree ==
    \A p \in alone : Up(p) /\ plugin[p] = "listen" => path = Nobody

IInv == /\ TypeOK
        /\ NewIsBlank
        /\ QuitFollowsStop
        /\ OnlyServingIsBusy
        /\ ListenerIsAtPath
        /\ AloneIsAlone
        /\ PathIsFree
        /\ NeverHalfDead
        /\ NoRPCIsCut

-----------------------------------------------------------------------------

\* The state at the start of the first process satisfies the invariant.
LEMMA InitIInv == Init => IInv
  BY ProcessAssumption
  DEF Init, IInv, TypeOK, NewIsBlank, QuitFollowsStop, OnlyServingIsBusy,
      ListenerIsAtPath, AloneIsAlone, PathIsFree, NeverHalfDead, NoRPCIsCut, Up,
      Processes, Http, Nobody

\* Nobody is not a process: the processes are numbered from 1.
LEMMA NobodyIsNone == Nobody \notin Processes
  BY ProcessAssumption DEF Nobody, Processes

\* Every step leaves the state well typed; the gauge stays within its bounds.
LEMMA TypeStep == TypeOK /\ [Next]_vars => TypeOK'
<1> SUFFICES ASSUME TypeOK, [Next]_vars PROVE TypeOK'
  OBVIOUS
<1> USE ProcessAssumption DEF TypeOK
<1>1. ASSUME NEW p \in Processes, Start(p) PROVE TypeOK'
  BY <1>1 DEF Start
<1>2. ASSUME NEW p \in Processes, CleanUpSocket(p) PROVE TypeOK'
  BY <1>2 DEF CleanUpSocket, Unlink
<1>3. ASSUME NEW p \in Processes, Listen(p) PROVE TypeOK'
  BY <1>3 DEF Listen
<1>4. ASSUME NEW p \in Processes, Serve(p) PROVE TypeOK'
  BY <1>4 DEF Serve, Unlink
<1>5. ASSUME NEW p \in Processes, NEW x \in Http, RunHttp(p, x) PROVE TypeOK'
  <2>0. PICK r \in {"serving", "returned"} : http' = [http EXCEPT ![p][x] = r]
    BY <1>5 DEF RunHttp
  <2>1. http' \in [Processes -> [Http -> {"listen", "serving", "returned"}]]
    BY <2>0
  <2> QED BY <1>5, <2>1 DEF RunHttp
<1>6. ASSUME NEW p \in Processes, End(p), killed' \subseteq Processes PROVE TypeOK'
  BY <1>6 DEF End
<1>7. ASSUME NEW p \in Processes, Exit(p) PROVE TypeOK'
  BY <1>6, <1>7 DEF Exit
<1>8. ASSUME NEW p \in Processes, Kill(p) PROVE TypeOK'
  BY <1>6, <1>8 DEF Kill
<1>9. ASSUME NEW p \in Processes, BeginRPC(p) \/ EndRPC(p) PROVE TypeOK'
  <2>1. inFlight' \in [Processes -> 0 .. MaxRPCs]
    BY <1>9 DEF BeginRPC, EndRPC
  <2> QED BY <1>9, <2>1 DEF BeginRPC, EndRPC
<1>10. ASSUME NEW p \in Processes, Signal(p) PROVE TypeOK'
  BY <1>10 DEF Signal, Unlink
<1>11. ASSUME NEW p \in Processes, Drain(p) PROVE TypeOK'
  BY <1>11 DEF Drain
<1>12. ASSUME NEW p \in Processes, StopCleanUpSocket(p) PROVE TypeOK'
  BY <1>12 DEF StopCleanUpSocket, Unlink
<1>13. ASSUME NEW p \in Processes, StopHttp(p) PROVE TypeOK'
  <2>1. http' \in [Processes -> [Http -> {"listen", "serving", "returned"}]]
    BY <1>13 DEF StopHttp
  <2>2. closed' \in [Processes -> SUBSET Http]
    BY <1>13 DEF StopHttp
  <2> QED BY <1>13, <2>1, <2>2 DEF StopHttp
<1>14. CASE UNCHANGED vars \/ Over
  BY <1>14 DEF vars, Over
<1> QED
  BY <1>1, <1>2, <1>3, <1>4, <1>5, <1>7, <1>8, <1>9, <1>10, <1>11, <1>12, <1>13,
     <1>14 DEF Next, Run, ListenSyscalls

\* A process that ends leaves the others' facts alone; what it leaves in flight
\* is what it had, so that an end needs a reason.
LEMMA EndStep ==
  ASSUME IInv, TypeOK', NEW p \in Processes, Up(p), End(p),
         \/ inFlight[p] = 0 /\ UNCHANGED killed
         \/ killed' = killed \union {p}
  PROVE  IInv'
<1> USE DEF IInv, TypeOK, End, Up
<1>1. NewIsBlank' /\ QuitFollowsStop' /\ OnlyServingIsBusy'
  BY DEF NewIsBlank, QuitFollowsStop, OnlyServingIsBusy
<1>2. ListenerIsAtPath' /\ AloneIsAlone' /\ PathIsFree' /\ NeverHalfDead'
  BY DEF ListenerIsAtPath, AloneIsAlone, PathIsFree, NeverHalfDead
<1>3. NoRPCIsCut'
  BY DEF NoRPCIsCut
<1> QED BY <1>1, <1>2, <1>3

\* Every step preserves the invariant.
LEMMA NextIInv == IInv /\ [Next]_vars => IInv'
<1> SUFFICES ASSUME IInv, [Next]_vars PROVE IInv'
  OBVIOUS
<1> TypeOK'
  BY TypeStep DEF IInv
<1> USE NobodyIsNone DEF TypeOK, IInv, Up
<1>1. ASSUME NEW p \in Processes, Start(p) PROVE IInv'
  <2>1. NewIsBlank' /\ QuitFollowsStop' /\ OnlyServingIsBusy' /\ NoRPCIsCut'
    BY <1>1 DEF Start, NewIsBlank, QuitFollowsStop, OnlyServingIsBusy, NoRPCIsCut
  <2>2. ListenerIsAtPath' /\ PathIsFree' /\ NeverHalfDead'
    BY <1>1 DEF Start, NewIsBlank, ListenerIsAtPath, PathIsFree, NeverHalfDead
  <2>3. AloneIsAlone'
    BY <1>1 DEF Start, NewIsBlank, AloneIsAlone
  <2> QED BY <2>1, <2>2, <2>3
<1>2. ASSUME NEW p \in Processes, CleanUpSocket(p) PROVE IInv'
  <2>1. NewIsBlank' /\ QuitFollowsStop' /\ OnlyServingIsBusy' /\ NoRPCIsCut'
    BY <1>2 DEF CleanUpSocket, Unlink, NewIsBlank, QuitFollowsStop,
                OnlyServingIsBusy, NoRPCIsCut
  <2>2. ListenerIsAtPath'
    BY <1>2 DEF CleanUpSocket, Unlink, ListenerIsAtPath
  <2>3. AloneIsAlone' /\ PathIsFree' /\ NeverHalfDead'
    BY <1>2 DEF CleanUpSocket, Unlink, AloneIsAlone, PathIsFree, NeverHalfDead
  <2> QED BY <2>1, <2>2, <2>3
<1>3. ASSUME NEW p \in Processes, Listen(p) PROVE IInv'
  <2>1. NewIsBlank' /\ QuitFollowsStop' /\ OnlyServingIsBusy' /\ NoRPCIsCut'
    BY <1>3 DEF Listen, NewIsBlank, QuitFollowsStop, OnlyServingIsBusy, NoRPCIsCut
  <2>2. ListenerIsAtPath'
    BY <1>3 DEF Listen, ListenerIsAtPath
  \* The path of a lone process is free: nobody's socket makes it return.
  <2>3. AloneIsAlone' /\ PathIsFree' /\ NeverHalfDead'
    BY <1>3 DEF Listen, AloneIsAlone, PathIsFree, NeverHalfDead
  <2> QED BY <2>1, <2>2, <2>3
<1>4. ASSUME NEW p \in Processes, Serve(p) PROVE IInv'
  <2>1. NewIsBlank' /\ QuitFollowsStop' /\ OnlyServingIsBusy' /\ NoRPCIsCut'
    BY <1>4 DEF Serve, Unlink, NewIsBlank, QuitFollowsStop, OnlyServingIsBusy,
                NoRPCIsCut
  <2>2. ListenerIsAtPath'
    BY <1>4 DEF Serve, Unlink, ListenerIsAtPath
  <2>3. AloneIsAlone' /\ PathIsFree'
    BY <1>4 DEF Serve, Unlink, AloneIsAlone, PathIsFree
  <2>4. NeverHalfDead'
    BY <1>4 DEF Serve, NeverHalfDead, QuitFollowsStop
  <2> QED BY <2>1, <2>2, <2>3, <2>4
<1>5. ASSUME NEW p \in Processes, NEW x \in Http, RunHttp(p, x) PROVE IInv'
  BY <1>5 DEF RunHttp, NewIsBlank, QuitFollowsStop, OnlyServingIsBusy,
              ListenerIsAtPath, AloneIsAlone, PathIsFree, NeverHalfDead, NoRPCIsCut
<1>6. ASSUME NEW p \in Processes, Exit(p) PROVE IInv'
  <2>1. inFlight[p] = 0
    BY <1>6 DEF Exit, OnlyServingIsBusy
  <2> QED BY <1>6, <2>1, EndStep DEF Exit
<1>7. ASSUME NEW p \in Processes, Kill(p) PROVE IInv'
  BY <1>7, EndStep DEF Kill
<1>8. ASSUME NEW p \in Processes, BeginRPC(p) \/ EndRPC(p) PROVE IInv'
  <2>1. \A q \in Processes : ~ Up(q) \/ plugin[q] # "serving" => inFlight'[q] = inFlight[q]
    BY <1>8 DEF BeginRPC, EndRPC, OnlyServingIsBusy
  <2>2. NewIsBlank' /\ OnlyServingIsBusy' /\ NoRPCIsCut'
    BY <1>8, <2>1 DEF BeginRPC, EndRPC, NewIsBlank, OnlyServingIsBusy, NoRPCIsCut
  <2>3. /\ QuitFollowsStop' /\ ListenerIsAtPath' /\ AloneIsAlone' /\ PathIsFree'
        /\ NeverHalfDead'
    BY <1>8 DEF BeginRPC, EndRPC, QuitFollowsStop, ListenerIsAtPath, AloneIsAlone,
                PathIsFree, NeverHalfDead
  <2> QED BY <2>2, <2>3
<1>9. ASSUME NEW p \in Processes, Signal(p) PROVE IInv'
  <2>1. NewIsBlank' /\ QuitFollowsStop' /\ OnlyServingIsBusy' /\ NoRPCIsCut'
    BY <1>9 DEF Signal, Unlink, NewIsBlank, QuitFollowsStop,
                 OnlyServingIsBusy, NoRPCIsCut
  <2>2. ListenerIsAtPath'
    BY <1>9 DEF Signal, Unlink, ListenerIsAtPath
  <2>3. AloneIsAlone' /\ PathIsFree' /\ NeverHalfDead'
    BY <1>9 DEF Signal, Unlink, AloneIsAlone, PathIsFree, NeverHalfDead
  <2> QED BY <2>1, <2>2, <2>3
<1>10. ASSUME NEW p \in Processes, Drain(p) PROVE IInv'
  <2>1. NewIsBlank' /\ QuitFollowsStop' /\ OnlyServingIsBusy' /\ NoRPCIsCut'
    BY <1>10 DEF Drain, NewIsBlank, QuitFollowsStop, OnlyServingIsBusy, NoRPCIsCut
  <2>2. ListenerIsAtPath' /\ AloneIsAlone' /\ PathIsFree' /\ NeverHalfDead'
    BY <1>10 DEF Drain, ListenerIsAtPath, AloneIsAlone, PathIsFree, NeverHalfDead
  <2> QED BY <2>1, <2>2
<1>11. ASSUME NEW p \in Processes, StopCleanUpSocket(p) PROVE IInv'
  <2>1. NewIsBlank' /\ QuitFollowsStop' /\ OnlyServingIsBusy' /\ NoRPCIsCut'
    BY <1>11 DEF StopCleanUpSocket, Unlink, NewIsBlank, QuitFollowsStop,
                 OnlyServingIsBusy, NoRPCIsCut
  \* The process itself was told to stop: it is in quit.
  <2>2. ListenerIsAtPath'
    BY <1>11 DEF StopCleanUpSocket, Unlink, ListenerIsAtPath, QuitFollowsStop
  <2>3. AloneIsAlone' /\ PathIsFree' /\ NeverHalfDead'
    BY <1>11 DEF StopCleanUpSocket, Unlink, AloneIsAlone, PathIsFree, NeverHalfDead
  <2> QED BY <2>1, <2>2, <2>3
<1>12. ASSUME NEW p \in Processes, StopHttp(p) PROVE IInv'
  <2>1. NewIsBlank' /\ QuitFollowsStop' /\ OnlyServingIsBusy' /\ NoRPCIsCut'
    BY <1>12 DEF StopHttp, Http, NewIsBlank, QuitFollowsStop, OnlyServingIsBusy,
                 NoRPCIsCut
  <2>2. ListenerIsAtPath' /\ AloneIsAlone' /\ PathIsFree' /\ NeverHalfDead'
    BY <1>12 DEF StopHttp, ListenerIsAtPath, AloneIsAlone, PathIsFree, NeverHalfDead
  <2> QED BY <2>1, <2>2
<1>13. CASE UNCHANGED vars \/ Over
  BY <1>13 DEF vars, Over, NewIsBlank, QuitFollowsStop, OnlyServingIsBusy,
               ListenerIsAtPath, AloneIsAlone, PathIsFree, NeverHalfDead, NoRPCIsCut
<1> QED
  BY <1>1, <1>2, <1>3, <1>4, <1>5, <1>6, <1>7, <1>8, <1>9, <1>10, <1>11, <1>12,
     <1>13 DEF Next, Run, ListenSyscalls

-----------------------------------------------------------------------------

\* The invariant holds in every reachable state.
LEMMA Invariance == Spec => []IInv
  BY InitIInv, NextIInv, PTL DEF Spec

\* A process that serves is at the socket path (PluginServer.Run), unless another
\* process removed its socket.
THEOREM ServesAtPath == Spec => []ServingIsReachable
<1>1. IInv => ServingIsReachable
  BY DEF IInv, ListenerIsAtPath, ServingIsReachable
<1> QED BY Invariance, <1>1, PTL

\* A process that overlaps with no other one stays up without its gRPC server
\* (server.Run) only if the host refused to remove the old socket or to make the
\* new one, whatever its predecessors left at the path.
THEOREM LoneProcessServes == Spec => []NeverHalfDead
<1>1. IInv => NeverHalfDead
  BY DEF IInv
<1> QED BY Invariance, <1>1, PTL

\* No RPC is cut off by a process that ends on its own (PluginServer.Stop).
THEOREM StopIsGraceful == Spec => []NoRPCIsCut
<1>1. IInv => NoRPCIsCut
  BY DEF IInv
<1> QED BY Invariance, <1>1, PTL

\* Every reachable state is well typed; the gauge of RPCs in flight is never
\* negative (NewMetricsInterceptor).
THEOREM TypeCorrect == Spec => []TypeOK
<1>1. IInv => TypeOK
  BY DEF IInv
<1> QED BY Invariance, <1>1, PTL

=============================================================================
