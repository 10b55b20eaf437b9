----------------------------- MODULE FakeDriverProofs -----------------------------
(***************************************************************************)
(* Proofs about DriverProcess and FakeDriver, for any number of calls,     *)
(* signals and kills and for every configuration.                          *)
(***************************************************************************)
EXTENDS FakeDriver, TLAPS

----------------------------------------------------------------------------
(* The process.                                                            *)

\* There are handlers, for calls that are accepted once.
HandlerType == handler \in [Call -> {"none", "running", "cut", "answered", "lost"}]

\* Without a process there is no server and no goroutine; there is an end when
\* there is no process, and none while there is one.
DownIsClean ==
    /\ pc = "down" => sd = "none" /\ gs = "none" /\ server = "new"
    /\ pc # "down" => status = "alive"

\* The listener is open from listener to the stop of the server, and Serve has
\* registered it only while the main goroutine is in Serve.
ListenerOpen ==
    /\ server = "open" => pc = "serving"
    /\ pc \in {"serve", "serving"} /\ server \in {"new", "open"} => socket = "live"

\* A server that has stopped answers no one any more: its handlers have returned
\* or their connections are closed.
StoppedIsSilent ==
    /\ server = "stopped" => \A k \in Call : handler[k] # "running"
    /\ pc = "wait" => server = "stopped"

\* Handlers run inside Serve, or after Stop has ended it.
HandlersServed == Active # {} => pc \in {"serving", "wait"}

ProcessInv ==
    HandlerType /\ DownIsClean /\ ListenerOpen /\ StoppedIsSilent /\ HandlersServed
        /\ SocketFitsProcess

----------------------------------------------------------------------------
(* The maps of the fake client.                                            *)

FakeType ==
    /\ at = [k \in Call |-> at[k]] /\ req = [k \in Call |-> req[k]]

\* Map operations are those of handlers that run.
AtIsActive == inside \subseteq Active /\ \A k \in Call : at[k] # "none" => k \in Active

\* Two calls that run at the same time are both in the history.
OverlapIsKnown == \A k, l \in Active : k # l => k \in shared

\* A bucket that BucketExists found is still there, unless another call ran.
SeenStays == \A k \in Call : at[k] = "IsBucketEqual" => k \in shared \/ req[k].name \in Buckets

FakeInv == FakeType /\ AtIsActive /\ OverlapIsKnown /\ SeenStays

----------------------------------------------------------------------------
(* The process keeps its invariant.                                        *)

\* A step of the process, whatever the maps of the fake client do.
ProcessStep ==
    \/ Boot \/ Main \/ Shutdown \/ Stopper \/ Outside
    \/ \E k \in Call : Accept(k) \/ Done(k) \/ Panic(k)

\* How a process ends: "ok" only by the return from wg.Wait, which removes the
\* socket.
Ends(how) ==
    /\ how \in {"ok", "error", "killed", "panic"}
    /\ End(how) /\ (how = "ok" => pc = "wait" /\ socket' = "none")

\* Every step of the whole is a step of the process or leaves it alone.
LEMMA StepOfProcess == [Next]_allVars => ProcessStep \/ UNCHANGED processVars
  <1> SUFFICES ASSUME Next PROVE ProcessStep \/ UNCHANGED processVars
    BY DEF allVars
  <1>1. ASSUME NEW k \in Call, FakeCall(k) PROVE Done(k) \/ Panic(k) \/ UNCHANGED processVars
    BY <1>1 DEF FakeCall, Enter, BucketExists, IsBucketEqual, CreateBucket, DeleteBucket,
       CreateBucketAccess, DeleteBucketAccess, Answer, Leave
  <1> QED BY <1>1 DEF Next, Process, Receive, RuntimeAborts, Handle, NilClient, Answer, ProcessStep

\* The process is as it was before it started, whatever state it ended in.
LEMMA EndKeeps ==
  ASSUME HandlerType, NEW how, Ends(how) PROVE ProcessInv' /\ Active' = {}
  <1>1. HandlerType' /\ Active' = {}
    BY DEF Ends, End, HandlerType, Active
  <1> QED BY <1>1 DEF Ends, End, ProcessInv, DownIsClean, ListenerOpen, StoppedIsSilent,
             HandlersServed, SocketFitsProcess

\* Closing the connections ends no handler.
LEMMA CloseKeeps ==
  ASSUME HandlerType, CloseConnections
  PROVE  HandlerType' /\ Active' = Active /\ \A k \in Call : handler'[k] # "running"
  BY DEF CloseConnections, HandlerType, Active

\* Every step of the process ends it or keeps the invariant.
LEMMA ProcessStepKeeps ==
  ASSUME ProcessInv, ProcessStep PROVE ProcessInv' \/ \E how : Ends(how)
  <1> USE DEF ProcessInv, HandlerType, DownIsClean, ListenerOpen, StoppedIsSilent, HandlersServed,
        SocketFitsProcess
  <1>0. HandlerType
    OBVIOUS
  <1>1. CASE Boot
    BY <1>1 DEF Boot, Active
  <1>2. CASE Main
    <2>1. CASE NotifyContext
      BY <2>1 DEF NotifyContext, Goto, Active
    <2>2. CASE readConfig
      BY <2>2 DEF readConfig, Goto, Active, Return, Ends
    <2>3. CASE newClient
      BY <2>3 DEF newClient, Goto, Active, Return, Die, Ends
    <2>4. CASE listener
      BY <2>4 DEF listener, Goto, Active, Return, Ends
    <2>5. CASE Serve
      BY <2>5 DEF Serve, Active, Return, Ends
    <2>6. CASE ServeReturns
      BY <2>6 DEF ServeReturns, Goto, Active
    <2>7. CASE Wait
      BY <2>7 DEF Wait, Return, Ends
    <2> QED BY <1>2, <2>1, <2>2, <2>3, <2>4, <2>5, <2>6, <2>7 DEF Main
  <1>3. CASE Shutdown
    <2>1. CASE shutdown
      BY <2>1 DEF shutdown, Active
    <2>2. CASE Drained
      BY <2>2 DEF Drained, Active
    <2>3. CASE GraceExpires
      <3>1. HandlerType' /\ Active' = Active /\ \A k \in Call : handler'[k] # "running"
        BY <1>0, <2>3, CloseKeeps DEF GraceExpires
      <3> QED BY <2>3, <3>1 DEF GraceExpires, CloseListener
    <2> QED BY <1>3, <2>1, <2>2, <2>3 DEF Shutdown
  <1>4. CASE Stopper
    <2>1. CASE GracefulStop
      BY <2>1 DEF GracefulStop, CloseListener, Active
    <2>2. CASE GracefulStopReturns
      BY <2>2 DEF GracefulStopReturns, Active
    <2> QED BY <1>4, <2>1, <2>2 DEF Stopper
  <1>5. CASE Outside
    BY <1>5 DEF Outside, Signal, Kill, ServeFails, Return, Die, Ends, Active
  <1>6. ASSUME NEW k \in Call, Accept(k) PROVE ProcessInv'
    BY <1>6 DEF Accept, Active
  <1>7. ASSUME NEW k \in Call, Done(k) PROVE ProcessInv'
    BY <1>7 DEF Done, Active
  <1>8. ASSUME NEW k \in Call, Panic(k) PROVE \E how : Ends(how)
    BY <1>8 DEF Panic, Die, Ends
  <1> QED BY <1>1, <1>2, <1>3, <1>4, <1>5, <1>6, <1>7, <1>8 DEF ProcessStep

\* A step other than those of the calls ends the process, leaves the handlers
\* alone or closes their connections.
LEMMA HandlersOrEnd ==
  ASSUME Boot \/ Main \/ Shutdown \/ Stopper \/ Outside
  PROVE  (\E how : Ends(how)) \/ handler' = handler \/ (CloseConnections /\ forced')
  <1>1. CASE Boot
    BY <1>1 DEF Boot
  <1>2. CASE Main
    <2>1. CASE NotifyContext \/ ServeReturns
      BY <2>1 DEF NotifyContext, ServeReturns, Goto
    <2>2. CASE readConfig \/ newClient \/ listener
      BY <2>2 DEF readConfig, newClient, listener, Goto, Return, Die, Ends
    <2>3. CASE Serve \/ Wait
      BY <2>3 DEF Serve, Wait, Return, Ends
    <2> QED BY <1>2, <2>1, <2>2, <2>3 DEF Main
  <1>3. CASE Shutdown
    BY <1>3 DEF Shutdown, shutdown, Drained, GraceExpires
  <1>4. CASE Stopper
    BY <1>4 DEF Stopper, GracefulStop, GracefulStopReturns
  <1>5. CASE Outside
    BY <1>5 DEF Outside, Signal, Kill, ServeFails, Return, Die, Ends
  <1> QED BY <1>1, <1>2, <1>3, <1>4, <1>5

\* The invariant of the process holds all the time.
LEMMA ProcessInvariance == Spec => []ProcessInv
  <1>1. Init => ProcessInv
    BY DEF Init, ProcessInit, ProcessInv, HandlerType, DownIsClean, ListenerOpen, StoppedIsSilent,
       HandlersServed, SocketFitsProcess, Active
  <1>2. ProcessInv /\ [Next]_allVars => ProcessInv'
    <2> SUFFICES ASSUME ProcessInv, [Next]_allVars PROVE ProcessInv'
      OBVIOUS
    <2>1. CASE ProcessStep
      BY <2>1, ProcessStepKeeps, EndKeeps DEF ProcessInv
    <2>2. CASE UNCHANGED processVars
      BY <2>2 DEF processVars, ProcessInv, HandlerType, DownIsClean, ListenerOpen, StoppedIsSilent,
         HandlersServed, SocketFitsProcess, Active
    <2> QED BY <2>1, <2>2, StepOfProcess
  <1> QED BY <1>1, <1>2, PTL DEF Spec

----------------------------------------------------------------------------
(* The theorems about the process.                                         *)

\* A process that serves can be reached through its socket, and one that ended
\* well has left none, whatever signals, kills and restarts came before.
THEOREM SocketIsRight == Spec => []SocketFitsProcess
  <1>1. ProcessInv => SocketFitsProcess
    BY DEF ProcessInv
  <1> QED BY <1>1, ProcessInvariance, PTL

\* A call loses its answer only when the grace period expires or the process ends
\* by a kill, a panic or an error: when run returns after a graceful stop no
\* handler is left that someone waits for.
THEOREM AnswersSurviveShutdown == Spec => LostOnlyIfForced
  <1> DEFINE Cut(k) == handler[k] = "running" /\ handler'[k] \in {"cut", "lost"}
  <1>1. ProcessInv /\ [Next]_allVars =>
          [\A k \in Call : Cut(k) => forced' \/ status' \in {"killed", "panic", "error"}]_processVars
    <2> SUFFICES ASSUME ProcessInv, ProcessStep, NEW k \in Call, Cut(k)
                 PROVE  forced' \/ status' \in {"killed", "panic", "error"}
      BY StepOfProcess
    <2>1. ASSUME NEW how, Ends(how) PROVE status' \in {"killed", "panic", "error"}
      BY <2>1 DEF Ends, End, ProcessInv, StoppedIsSilent
    <2>2. CASE Boot \/ Main \/ Shutdown \/ Stopper \/ Outside
      BY <2>1, <2>2, HandlersOrEnd
    <2>3. CASE \E l \in Call : Accept(l) \/ Done(l)
      BY <2>3 DEF Accept, Done, ProcessInv, HandlerType
    <2>4. CASE \E l \in Call : Panic(l)
      BY <2>4 DEF Panic, Die, End
    <2> QED BY <2>2, <2>3, <2>4 DEF ProcessStep
  <1> QED BY <1>1, ProcessInvariance, PTL DEF Spec, LostOnlyIfForced

----------------------------------------------------------------------------
(* The maps of the fake client keep their invariant.                       *)

\* An end of the process empties the maps and forgets the calls.
LEMMA ForgetKeeps ==
  ASSUME Active' = {}, Forget PROVE FakeInv'
  BY DEF Forget, FakeInv, FakeType, AtIsActive, OverlapIsKnown, SeenStays

\* What does not end a handler and leaves the maps alone keeps their invariant.
LEMMA QuietKeeps ==
  ASSUME FakeInv, Active' = Active, UNCHANGED fakeVars PROVE FakeInv'
  BY DEF fakeVars, FakeInv, FakeType, AtIsActive, OverlapIsKnown, SeenStays

\* A process step other than those of the calls ends the process or leaves the
\* handlers running.
LEMMA ProcessKeepsActive ==
  ASSUME ProcessInv, Boot \/ Main \/ Shutdown \/ Stopper \/ Outside
  PROVE  Active' = Active \/ (Active' = {} /\ pc' = "down")
  <1>0. HandlerType
    BY DEF ProcessInv
  <1>1. CASE \E how : Ends(how)
    BY <1>0, <1>1, EndKeeps DEF Ends, End
  <1>2. CASE handler' = handler \/ CloseConnections
    BY <1>0, <1>2, CloseKeeps DEF Active
  <1> QED BY <1>1, <1>2, HandlersOrEnd

\* The end of a handler keeps the invariant, if the maps keep what others have
\* seen.
LEMMA AnswerKeeps ==
  ASSUME HandlerType, FakeInv, NEW k \in Call, Answer(k),
         \A l \in Call \ {k} : at[l] = "IsBucketEqual" => l \in shared \/ req[l].name \in Buckets'
  PROVE  FakeInv'
  <1>1. Active' = Active \ {k}
    BY DEF Answer, Done, Active, HandlerType
  <1>2. at'[k] = "none" /\ \A l \in Call : l # k => at'[l] = at[l]
    BY DEF Answer, FakeInv, FakeType
  <1>3. inside' = inside \ {k} /\ req' = req /\ shared' = shared
    BY DEF Answer
  <1>4. FakeType'
    BY DEF Answer, FakeInv, FakeType
  <1>5. AtIsActive' /\ OverlapIsKnown'
    BY <1>1, <1>2, <1>3 DEF FakeInv, AtIsActive, OverlapIsKnown
  <1>6. SeenStays'
    BY <1>2, <1>3 DEF SeenStays
  <1> QED BY <1>4, <1>5, <1>6 DEF FakeInv

\* The steps of a handler keep the invariant of the maps.
LEMMA FakeCallKeeps ==
  ASSUME HandlerType, FakeInv, NEW k \in Call, FakeCall(k) PROVE FakeInv'
  <1>1. CASE Enter(k)
    BY <1>1 DEF Enter, FakeInv, FakeType, AtIsActive, OverlapIsKnown, SeenStays, processVars, Active
  <1>2. CASE BucketExists(k)
    <2>1. CASE Answer(k)
      BY <1>2, <2>1, AnswerKeeps DEF BucketExists, FakeInv, SeenStays
    <2>2. ASSUME NEW m, Leave(k, m), m = "IsBucketEqual" => req[k].name \in Buckets PROVE FakeInv'
      <3>1. Active' = Active /\ req' = req /\ shared' = shared /\ inside' = inside \ {k} /\ Buckets' = Buckets
        BY <1>2, <2>2 DEF BucketExists, Leave, processVars, Active
      <3>2. at'[k] = m /\ k \in Active /\ \A l \in Call : l # k => at'[l] = at[l]
        BY <1>2, <2>2 DEF BucketExists, In, Leave, FakeInv, FakeType
      <3>3. FakeType'
        BY <2>2 DEF Leave, FakeInv, FakeType
      <3> QED BY <2>2, <3>1, <3>2, <3>3 DEF FakeInv, AtIsActive, OverlapIsKnown, SeenStays
    <2> QED BY <1>2, <2>1, <2>2 DEF BucketExists
  <1>3. CASE IsBucketEqual(k)
    <2>1. CASE Answer(k) /\ UNCHANGED <<Buckets, Accesses>>
      BY <2>1, AnswerKeeps DEF FakeInv, SeenStays
    <2>2. CASE Panic(k) /\ Forget
      <3>1. Ends("panic")
        BY <2>2 DEF Panic, Die, Ends
      <3> QED BY <2>2, <3>1, EndKeeps, ForgetKeeps
    <2> QED BY <1>3, <2>1, <2>2 DEF IsBucketEqual
  <1>4. CASE CreateBucket(k)
    BY <1>4, AnswerKeeps DEF CreateBucket, FakeInv, SeenStays
  <1>5. CASE DeleteBucket(k)
    <2>1. \A l \in Call \ {k} : at[l] = "IsBucketEqual" => l \in shared
      BY <1>5 DEF DeleteBucket, In, FakeInv, AtIsActive, OverlapIsKnown
    <2> QED BY <1>5, <2>1, AnswerKeeps DEF DeleteBucket
  <1>6. CASE CreateBucketAccess(k) \/ DeleteBucketAccess(k)
    BY <1>6, AnswerKeeps DEF CreateBucketAccess, DeleteBucketAccess, FakeInv, SeenStays
  <1> QED BY <1>1, <1>2, <1>3, <1>4, <1>5, <1>6 DEF FakeCall

\* The arrival of a call keeps the invariant of the maps.
LEMMA ReceiveKeeps ==
  ASSUME HandlerType, FakeInv, NEW k \in Call, Receive(k) PROVE FakeInv'
  <1>1. Active' = Active \union {k} /\ k \notin Active
    BY DEF Receive, Accept, Active, HandlerType
  <1>2. inside' = inside /\ Buckets' = Buckets /\ shared \subseteq shared'
        /\ (Active # {} => Active \union {k} \subseteq shared')
    BY DEF Receive
  <1>3. \A l \in Call : l # k => at'[l] = at[l] /\ req'[l] = req[l]
    BY DEF Receive, FakeInv, FakeType
  <1>4. at'[k] # "IsBucketEqual"
    BY <1>1 DEF Receive, FakeInv, FakeType, AtIsActive, First, Op
  <1>5. FakeType'
    BY DEF Receive, FakeInv, FakeType
  <1>6. AtIsActive'
    BY <1>1, <1>2, <1>3 DEF FakeInv, AtIsActive
  <1>7. OverlapIsKnown'
    BY <1>1, <1>2 DEF FakeInv, OverlapIsKnown
  <1>8. SeenStays'
    BY <1>2, <1>3, <1>4 DEF FakeInv, SeenStays
  <1> QED BY <1>5, <1>6, <1>7, <1>8 DEF FakeInv

\* Every step keeps the invariant of the maps.
LEMMA StepFake == ProcessInv /\ FakeInv /\ [Next]_allVars => FakeInv'
  <1> SUFFICES ASSUME ProcessInv, FakeInv, [Next]_allVars PROVE FakeInv'
    OBVIOUS
  <1>0. HandlerType
    BY DEF ProcessInv
  <1>1. CASE Process(Boot) \/ Process(Main) \/ Process(Shutdown) \/ Process(Stopper) \/ Process(Outside)
    <2>1. Active' = Active \/ (Active' = {} /\ pc' = "down")
      BY <1>1, ProcessKeepsActive DEF Process
    <2>2. CASE pc' = "down"
      <3>1. Active' = {}
        <4>1. ProcessInv'
          <5>1. ProcessStep
            BY <1>1 DEF Process, ProcessStep
          <5> QED BY <1>0, <5>1, ProcessStepKeeps, EndKeeps
        <4> QED BY <2>2, <4>1 DEF ProcessInv, HandlersServed
      <3>2. Forget
        BY <1>1, <2>2 DEF Process
      <3> QED BY <3>1, <3>2, ForgetKeeps
    <2>3. CASE pc' # "down"
      BY <1>1, <2>1, <2>3, QuietKeeps DEF Process
    <2> QED BY <2>2, <2>3
  <1>2. ASSUME NEW k \in Call, Receive(k) \/ FakeCall(k) PROVE FakeInv'
    BY <1>0, <1>2, ReceiveKeeps, FakeCallKeeps
  <1>3. ASSUME NEW k \in Call, RuntimeAborts(k) \/ NilClient(k) PROVE FakeInv'
    <2>1. Ends("panic") /\ Forget
      BY <1>3 DEF RuntimeAborts, NilClient, Panic, Die, Ends
    <2> QED BY <1>0, <2>1, EndKeeps, ForgetKeeps
  <1>4. ASSUME NEW k \in Call, Handle(k) PROVE FakeInv'
    BY <1>0, <1>4, AnswerKeeps DEF Handle, FakeInv, SeenStays
  <1>5. CASE UNCHANGED allVars
    <2>1. Active' = Active /\ UNCHANGED fakeVars
      BY <1>5 DEF allVars, processVars, Active
    <2> QED BY <2>1, QuietKeeps
  <1> QED BY <1>1, <1>2, <1>3, <1>4, <1>5 DEF Next

\* A handler takes the process down only when there is no mode or when calls ran
\* at the same time: without another call the bucket that IsBucketEqual
\* dereferences is there, and no two map operations overlap.
THEOREM PanicNeedsOverlap == Spec => DiesOnlyOfOverlap
  <1>1. Init => FakeInv
    BY DEF Init, ProcessInit, New, FakeInv, FakeType, AtIsActive, OverlapIsKnown, SeenStays, Active
  <1>2. ProcessInv /\ FakeInv /\ [Next]_allVars =>
          [Active # {} /\ status' = "panic" => config.mode = "" \/ shared \intersect Active # {}]_allVars
    <2> SUFFICES ASSUME ProcessInv, FakeInv, Next, Active # {}, status' = "panic", config.mode # ""
                 PROVE  shared \intersect Active # {}
      OBVIOUS
    <2>1. pc \in {"serving", "wait"} /\ status = "alive"
      BY DEF ProcessInv, HandlersServed, DownIsClean
    <2>2. CASE Process(Boot) \/ Process(Main) \/ Process(Shutdown) \/ Process(Stopper) \/ Process(Outside)
      BY <2>1, <2>2 DEF Process, Boot, Main, NotifyContext, readConfig, newClient, listener, Serve,
         ServeReturns, Wait, Shutdown, shutdown, Drained, GraceExpires, Stopper, GracefulStop,
         GracefulStopReturns, Outside, Signal, Kill, ServeFails, Goto, Return, Die, End
    <2>3. ASSUME NEW k \in Call, IsBucketEqual(k) PROVE shared \intersect Active # {}
      <3>1. ~Answer(k)
        BY <2>1 DEF Answer, Done
      <3>2. at[k] = "IsBucketEqual" /\ k \in Active /\ req[k].name \notin Buckets
        BY <2>3, <3>1 DEF IsBucketEqual, In
      <3> QED BY <3>2 DEF FakeInv, SeenStays
    <2>4. ASSUME NEW k \in Call, RuntimeAborts(k) PROVE shared \intersect Active # {}
      <3>1. PICK l \in inside : k # l /\ k \in inside
        BY <2>4 DEF RuntimeAborts, Conflict
      <3> QED BY <3>1 DEF FakeInv, AtIsActive, OverlapIsKnown
    <2>5. ASSUME NEW k \in Call, Done(k) \/ Accept(k) \/ UNCHANGED processVars PROVE FALSE
      BY <2>1, <2>5 DEF Done, Accept, processVars
    <2> QED BY <2>2, <2>3, <2>4, <2>5 DEF Next, FakeCall, Enter, BucketExists, IsBucketEqual, CreateBucket,
           DeleteBucket, CreateBucketAccess, DeleteBucketAccess, Answer, Leave, Receive, Handle, NilClient
  <1> QED BY <1>1, <1>2, StepFake, ProcessInvariance, PTL DEF Spec, DiesOnlyOfOverlap
====
