---------------------------- MODULE SafetyProofs ----------------------------
(***************************************************************************)
(* The safety properties of Server hold for every number of requests, every*)
(* printer and all faults:                                                 *)
(*                                                                         *)
(*   AttachedIsVisible   the bridge the manager holds is one clients see   *)
(*   EndedPrintNotShown  an ended print is not shown for good              *)
(*   NoStrayListener     a kill is on its way to every stray listener      *)
(*   PreambleFirst       the M110 N0 of a print goes before its lines      *)
(*                                                                         *)
(* The second and the third rest on CreatedOnce: a bridge is started once  *)
(* only, so that no new listener takes the place of one that has an end of *)
(* print to tell.  The last rests on PrintInv: the beginning of a print is *)
(* in one place at a time, and nothing of it is sent before it has begun.  *)
(***************************************************************************)
EXTENDS TypeProofs, FiniteSetTheorems, FunctionTheorems

\* The event that starts bridge r is queued once at most.
Once(r) ==
    \A i, j \in 1 .. Len(distributor) :
        distributor[i] = CreateBridge(r) /\ distributor[j] = CreateBridge(r) => i = j

\* A request starts one bridge at most, and a bridge has a listener only after
\* its port was opened.
CreatedOnce ==
    \A r \in Requests :
        /\ start_task[r] \notin {"opened", "done"} => listener[r] = "none"
        /\ start_task[r] # "none" => req[r] = "done"
        /\ Contains(distributor, CreateBridge(r)) => req[r] = "done" /\ start_task[r] = "none"
        /\ Once(r)

StartStates == {"none", "spawned", "opening", "opened", "done"}

\* The reader touches neither.
LEMMA ReaderLeavesStart ==
    ASSUME NEW b \in Bridges,
           \/ ReaderStep(b)
           \/ ReaderIoError(b)
           \/ \E l \in Lines : ReaderReceives(b, l)
    PROVE  UNCHANGED <<start_task, listener>>
<1> USE DEF startVars, listenerVars
<1>1. CASE ReaderHandshake(b)
  BY <1>1
     DEF ReaderHandshake, ReaderLineConnecting, ReaderReportsError, ReaderChecksSetup,
         ReaderConnected, ReaderSendsSetup, ReaderCollects, ReaderLeavesOk, ReaderAsksAgain,
         ReaderHasCapabilities
<1>2. CASE HandleOkResponse(b)
  BY <1>2
     DEF HandleOkResponse, ReaderOk, ReaderIgnoresOk, ReaderFirstLine, ReaderNextLine,
         ReaderSendsLine, ReaderPanics, ReaderRefusesResend, ReaderResends, Handled, SendProgress
<1>3. CASE ReaderFailed(b) \/ ReaderStops(b) \/ ReaderLine(b) \/ ReaderIoError(b)
           \/ \E l \in Lines : ReaderReceives(b, l)
  BY <1>3 DEF ReaderFailed, ReaderStops, ReaderLine, ReaderIoError, ReaderReceives
<1> QED
  BY <1>1, <1>2, <1>3 DEF ReaderStep

\* What the tasks of a bridge do to its start task and its listener.
LEMMA BridgeAdvances ==
    ASSUME TypeOK, NEW b \in Bridges, BridgeStep(b), NEW c \in Bridges
    PROVE  /\ start_task'[c] \notin {"opened", "done"} =>
                /\ start_task[c] \notin {"opened", "done"}
                /\ listener[c] = "none" => listener'[c] = "none"
           /\ start_task'[c] = "none" <=> start_task[c] = "none"
           /\ start_task[c] \in {"opened", "done"} /\ listener[c] = "ended" =>
                listener'[c] = "ended" \/ ListenerEndsPrint(b)
<1> USE DEF startVars, listenerVars
<1>0. start_task \in [Bridges -> StartStates] /\ listener \in [Bridges -> ListenerState]
  BY DEF TypeOK, BridgeTypeOK, StartStates
<1>1. CASE StartStep(b)
  <2>1. PICK s \in {"opening", "opened", "done"} :
          /\ start_task[b] \in {"spawned", "opening", "opened"}
          /\ start_task[b] = "opened" => s = "done"
          /\ start_task' = [start_task EXCEPT ![b] = s]
          /\ \/ listener' = listener
             \/ s = "opened" /\ start_task[b] = "opening"
                  /\ listener' = [listener EXCEPT ![b] = "starting"]
    BY <1>1 DEF StartStep, StartAnnounces, OpenSucceeds, StartAsksFirmware, OpenFails, OpenPanics
  <2> QED
    BY <1>0, <2>1
<1>2. CASE ListenerStep(b)
  <2>1. start_task' = start_task
    BY <1>2
       DEF ListenerStep, ListenerStarts, ListenerPanics, ListenerKilled, ListenerWrites,
           ListenerTakesPrintEnd, ListenerTakesPrintStart, ListenerChecks, ListenerEndsPrint,
           ListenerStartsPrint, ListenerSendsPreamble
  <2>2. \/ listener' = listener
        \/ /\ listener[b] # "none"
           /\ listener[b] # "ended" \/ ListenerEndsPrint(b)
           /\ \E s : listener' = [listener EXCEPT ![b] = s]
    BY <1>2
       DEF ListenerStep, ListenerStarts, ListenerPanics, ListenerKilled, ListenerWrites, Takes,
           ListenerTakesPrintEnd, ListenerTakesPrintStart, ListenerChecks, ListenerEndsPrint,
           ListenerStartsPrint, ListenerSendsPreamble, ListenerGoesTo
  <2> QED
    BY <1>0, <2>1, <2>2
<1>3. CASE TimeoutStep(b)
  <2>1. UNCHANGED <<start_task, listener>>
    BY <1>3 DEF TimeoutStep, TimeoutElapses, TimeoutReports
  <2> QED
    BY <2>1
<1>4. CASE \/ ReaderStep(b)
           \/ ReaderIoError(b)
           \/ \E l \in Lines : ReaderReceives(b, l)
  <2>1. UNCHANGED <<start_task, listener>>
    BY <1>4, ReaderLeavesStart
  <2> QED
    BY <2>1
<1> QED
  BY <1>1, <1>2, <1>3, <1>4 DEF BridgeStep

\* One event more at the end of the queue.
LEMMA Appended ==
    ASSUME TypeOK, NEW e \in EventType, Send(e)
    PROVE  LET n == Len(distributor) IN
           /\ n \in Nat /\ Len(distributor') = n + 1 /\ distributor'[n + 1] = e
           /\ \A i \in 1 .. n : distributor'[i] = distributor[i]
BY DEF TypeOK, BusTypeOK, Send

\* What adds no request adds no bridge.
LEMMA AddsNoBridge ==
    ASSUME TypeOK, Adds, NEW r \in Requests
    PROVE  /\ Contains(distributor', CreateBridge(r)) => Contains(distributor, CreateBridge(r))
           /\ Once(r) => Once(r)'
<1>1. CASE distributor' = distributor
  BY <1>1 DEF Once
<1>2. ASSUME NEW e \in EventType, Send(e), ~ Asks(e)
      PROVE  /\ Contains(distributor', CreateBridge(r)) => Contains(distributor, CreateBridge(r))
             /\ Once(r) => Once(r)'
  <2> DEFINE n == Len(distributor)
  <2>1. /\ n \in Nat /\ Len(distributor') = n + 1 /\ distributor'[n + 1] = e
        /\ \A i \in 1 .. n : distributor'[i] = distributor[i]
    BY <1>2, Appended
  <2>2. e # CreateBridge(r)
    BY <1>2 DEF Asks, CreateBridge
  <2>3. \A i \in 1 .. Len(distributor') :
          distributor'[i] = CreateBridge(r) => i \in 1 .. n /\ distributor[i] = CreateBridge(r)
    BY <2>1, <2>2
  <2> QED
    BY <2>3 DEF Once, Contains
<1> QED
  BY <1>1, <1>2 DEF Adds

\* Nor does the main loop, which takes one.
LEMMA TakingNoBridge ==
    ASSUME TypeOK, HandlesHead, NEW r \in Requests, Once(r)
    PROVE  /\ Contains(distributor', CreateBridge(r)) =>
                Contains(distributor, CreateBridge(r)) /\ distributor[1] # CreateBridge(r)
           /\ Once(r)'
<1> DEFINE n == Len(distributor)
<1>1. /\ n \in Nat /\ n >= 1
      /\ n - 1 <= Len(distributor') /\ Len(distributor') <= n
      /\ \A i \in 1 .. n - 1 : distributor'[i] = distributor[i + 1]
      /\ Len(distributor') = n => Harmless(distributor'[n]) /\ ~ Asks(distributor'[n])
  BY Shifted
<1> HIDE DEF n
<1>2. \A i \in 1 .. Len(distributor') :
        distributor'[i] = CreateBridge(r) =>
          i + 1 \in 2 .. n /\ distributor[i + 1] = CreateBridge(r)
  BY <1>1 DEF Asks, CreateBridge
<1>3. Contains(distributor', CreateBridge(r)) =>
         Contains(distributor, CreateBridge(r)) /\ distributor[1] # CreateBridge(r)
  <2> SUFFICES ASSUME NEW i \in 1 .. Len(distributor'), distributor'[i] = CreateBridge(r)
               PROVE  Contains(distributor, CreateBridge(r)) /\ distributor[1] # CreateBridge(r)
    BY DEF Contains
  <2>1. i + 1 \in 2 .. n /\ distributor[i + 1] = CreateBridge(r) /\ 1 \in 1 .. n
    BY <1>1, <1>2
  <2> QED
    BY <1>1, <2>1 DEF Once, Contains, n
<1>4. Once(r)'
  <2> SUFFICES ASSUME NEW i \in 1 .. Len(distributor'), NEW j \in 1 .. Len(distributor'),
                      distributor'[i] = CreateBridge(r), distributor'[j] = CreateBridge(r)
               PROVE  i = j
    BY DEF Once, CreateBridge
  <2>1. i + 1 = j + 1
    <3>1. /\ i + 1 \in 1 .. n /\ distributor[i + 1] = CreateBridge(r)
          /\ j + 1 \in 1 .. n /\ distributor[j + 1] = CreateBridge(r)
      BY <1>1, <1>2
    <3> QED
      BY <3>1 DEF Once, n
  <2> QED
    BY <1>1, <2>1
<1> QED
  BY <1>3, <1>4

\* The main loop starts the bridge of the event it takes.
LEMMA ManagerKeepsCreated ==
    ASSUME TypeOK, CreatedOnce, ManagerNext
    PROVE  CreatedOnce'
<1>1. UNCHANGED <<listener, req>> /\ start_task \in [Bridges -> StartStates]
  BY ManagerHandles
     DEF ManagerNext, routesVars, TypeOK, BridgeTypeOK, StartStates
<1>2. CASE Detach
  BY <1>1, <1>2 DEF Detach, bridgeVars, startVars, CreatedOnce, Once
<1>3. CASE ~ Detach
  <2>1. HandlesHead
    BY <1>3, ManagerHandles
  <2>2. ASSUME NEW r \in Requests
        PROVE  /\ Contains(distributor', CreateBridge(r)) =>
                    Contains(distributor, CreateBridge(r)) /\ distributor[1] # CreateBridge(r)
               /\ Once(r)'
    BY <2>1, TakingNoBridge DEF CreatedOnce
  <2>3. CASE OnCreateBridge
    <3> DEFINE b == Head(distributor).bridge
    <3>1. /\ Head(distributor) = distributor[1]
          /\ distributor[1] \in EventType
          /\ 1 \in 1 .. Len(distributor)
      BY <2>1, Behind, Queues DEF HandlesHead, TypeOK, BusTypeOK
    <3>2. distributor[1] = CreateBridge(b) /\ b \in Requests
      BY <2>3, <3>1 DEF OnCreateBridge, Handles, EventType, CreateBridge, Bridges
    <3>3. Contains(distributor, CreateBridge(b))
      BY <3>1, <3>2 DEF Contains
    <3>4. start_task[b] = "none" /\ req[b] = "done" /\ listener[b] = "none"
      BY <3>2, <3>3 DEF CreatedOnce
    <3>5. start_task' = [start_task EXCEPT ![b] = "spawned"]
      BY <2>3 DEF OnCreateBridge
    <3>6. ~ Contains(distributor', CreateBridge(b))
      BY <2>2, <3>2
    <3> HIDE DEF b
    <3> QED
      BY <1>1, <2>2, <3>2, <3>4, <3>5, <3>6 DEF CreatedOnce, Bridges
  <2>4. CASE OnCreateBridgeError
    <3>1. \/ start_task' = start_task
          \/ start_task' = [start_task EXCEPT ![bridge_thread] = Aborted(start_task[bridge_thread])]
      BY <2>4 DEF OnCreateBridgeError
    <3>2. \A r \in Requests :
            \/ start_task'[r] = start_task[r]
            \/ start_task[r] = "spawned" /\ start_task'[r] = "done"
      <4>1. \A status : Aborted(status) = IF status = "spawned" THEN "done" ELSE status
        BY DEF Aborted
      <4> QED
        BY <1>1, <3>1, <4>1 DEF Bridges
    <3> QED
      BY <1>1, <2>2, <3>2 DEF CreatedOnce
  <2>5. CASE OnSecondCreateBridge \/ OnStateUpdate \/ OnForwarded \/ OnPrintStart
    <3>1. start_task' = start_task
      BY <2>5
         DEF OnSecondCreateBridge, OnStateUpdate, OnForwarded, OnPrintStart, bridgeVars, startVars
    <3> QED
      BY <1>1, <2>2, <3>1 DEF CreatedOnce
  <2> QED
    BY <1>3, <2>3, <2>4, <2>5 DEF ManagerNext, ManagerStep
<1> QED
  BY <1>2, <1>3

\* A request that sends its event has not done so before.
LEMMA RouteKeepsCreated ==
    ASSUME TypeOK, CreatedOnce, NEW r \in Requests, RouteNext(r)
    PROVE  CreatedOnce'
<1>1. /\ UNCHANGED <<start_task, listener>>
      /\ req[r] # "done" /\ \A c \in Requests : c # r => req'[c] = req[c]
  BY RouteSends DEF bridgeVars, startVars, listenerVars
<1>2. start_task[r] = "none" /\ ~ Contains(distributor, CreateBridge(r))
  BY <1>1 DEF CreatedOnce
<1>3. CASE Harmless(CreateBridge(r)) /\ Send(CreateBridge(r)) /\ req'[r] = "done"
  <2> DEFINE n == Len(distributor)
             e == CreateBridge(r)
  <2>1. /\ n \in Nat /\ Len(distributor') = n + 1 /\ distributor'[n + 1] = e
        /\ \A i \in 1 .. n : distributor'[i] = distributor[i]
    BY <1>3, Appended DEF Harmless
  <2>2. ASSUME NEW c \in Requests, c # r
        PROVE  /\ Contains(distributor', CreateBridge(c)) => Contains(distributor, CreateBridge(c))
               /\ Once(c)'
    <3>1. e # CreateBridge(c)
      BY <2>2 DEF CreateBridge
    <3>2. \A i \in 1 .. Len(distributor') :
            distributor'[i] = CreateBridge(c) => i \in 1 .. n /\ distributor[i] = CreateBridge(c)
      BY <2>1, <3>1
    <3> QED
      BY <3>2 DEF Once, Contains, CreatedOnce
  <2>3. Once(r)'
    <3>1. \A i \in 1 .. Len(distributor') : distributor'[i] = CreateBridge(r) => i = n + 1
      BY <1>2, <2>1 DEF Contains
    <3> QED
      BY <3>1 DEF Once
  <2> QED
    BY <1>1, <1>2, <1>3, <2>2, <2>3 DEF CreatedOnce
<1>4. CASE Adds
  BY <1>1, <1>2, <1>4, AddsNoBridge DEF CreatedOnce
<1>5. ASSUME NEW len \in GcodeLengths, Harmless(PrintStart(NewPrintInfo(r, len))),
             Send(PrintStart(NewPrintInfo(r, len)))
      PROVE  CreatedOnce'
  <2> DEFINE n == Len(distributor)
             e == PrintStart(NewPrintInfo(r, len))
  <2>1. /\ n \in Nat /\ Len(distributor') = n + 1 /\ distributor'[n + 1] = e
        /\ \A i \in 1 .. n : distributor'[i] = distributor[i]
    BY <1>5, Appended DEF Harmless
  <2>2. \A c : e # CreateBridge(c)
    BY DEF CreateBridge, PrintStart
  <2> HIDE DEF e
  <2>3. \A c \in Requests : \A i \in 1 .. Len(distributor') :
          distributor'[i] = CreateBridge(c) => i \in 1 .. n /\ distributor[i] = CreateBridge(c)
    BY <2>1, <2>2
  <2> QED
    BY <1>1, <1>2, <2>3 DEF CreatedOnce, Once, Contains
<1>6. (distributor' = distributor \/ \E e : Harmless(e) /\ Send(e) /\ ~ Asks(e)) => Adds
  BY QuietAdds DEF SendsQuietly
<1> QED
  BY <1>3, <1>4, <1>5, <1>6, RouteSends

\* The invariant.
LEMMA CreatedOnceInvariant == Spec => []CreatedOnce
<1>1. Init => CreatedOnce
  BY DEF Init, BusInit, BridgeInit, CreatedOnce, Once, Contains, Bridges
<1>2. TypeOK /\ CreatedOnce /\ [Next]_vars => CreatedOnce'
  <2> SUFFICES ASSUME TypeOK, CreatedOnce, [Next]_vars
               PROVE  CreatedOnce'
    OBVIOUS
  <2>1. CASE ManagerNext
    BY <2>1, ManagerKeepsCreated
  <2>2. ASSUME NEW b \in Bridges, BridgeNext(b)
        PROVE  CreatedOnce'
    <3>1. BridgeStep(b) /\ req' = req
      BY <2>2 DEF BridgeNext, routesVars
    <3>2. Adds
      BY <3>1, BridgeAdds
    <3> QED
      BY <3>1, <3>2, AddsNoBridge, BridgeAdvances DEF CreatedOnce, Bridges
  <2>3. ASSUME NEW r \in Requests, RouteNext(r)
        PROVE  CreatedOnce'
    BY <2>3, RouteKeepsCreated
  <2>4. CASE UNCHANGED vars
    BY <2>4
       DEF vars, busVars, bridgeVars, startVars, listenerVars, routesVars, CreatedOnce, Once
  <2> QED
    BY <2>1, <2>2, <2>3, <2>4 DEF Next
<1> QED
  BY <1>1, <1>2, TypeCorrect, PTL DEF Spec

-----------------------------------------------------------------------------
\* What is still queued behind an update survives additions that are true.
LEMMA AddsKeep ==
    ASSUME TypeOK, NEW p \in Prints, EndNotShown(p), state' = state,
           InPrint(p)' <=> InPrint(p), Ending => Ending',
           \/ distributor' = distributor
           \/ \E e \in EventType : Send(e) /\ (e = StateUpdate("PRINTING", p) => InPrint(p)')
    PROVE  EndNotShown(p)'
<1> SUFFICES ASSUME ~ InPrint(p)', ~ Ending'
             PROVE  /\ state' = Shows(p) =>
                         \E j \in 1 .. Len(distributor') : Supersedes(distributor'[j], p)
                    /\ \A i \in 1 .. Len(distributor') :
                         distributor'[i] = StateUpdate("PRINTING", p) =>
                           \E j \in i + 1 .. Len(distributor') : Supersedes(distributor'[j], p)
  BY DEF EndNotShown, Shows, Supersedes
<1>1. ~ InPrint(p) /\ ~ Ending
  OBVIOUS
<1> DEFINE Extended ==
             /\ Len(distributor) \in Nat /\ Len(distributor') \in Nat
             /\ Len(distributor) <= Len(distributor')
             /\ \A i \in 1 .. Len(distributor) : distributor'[i] = distributor[i]
             /\ \A i \in Len(distributor) + 1 .. Len(distributor') :
                   distributor'[i] # StateUpdate("PRINTING", p)
<1>2. Extended
  <2>1. CASE distributor' = distributor
    BY <2>1 DEF TypeOK, BusTypeOK
  <2>2. ASSUME NEW e \in EventType, Send(e), e # StateUpdate("PRINTING", p)
        PROVE  Extended
    BY <2>2, Appended
  <2> QED
    BY <2>1, <2>2
<1>4. state' = Shows(p) => \E j \in 1 .. Len(distributor') : Supersedes(distributor'[j], p)
  <2> SUFFICES ASSUME state' = Shows(p)
               PROVE  \E j \in 1 .. Len(distributor') : Supersedes(distributor'[j], p)
    OBVIOUS
  <2>1. PICK j \in 1 .. Len(distributor) : Supersedes(distributor[j], p)
    BY <1>1 DEF EndNotShown
  <2>2. j \in 1 .. Len(distributor') /\ distributor'[j] = distributor[j]
    BY <1>2, <2>1
  <2> QED
    BY <2>1, <2>2
<1>5. ASSUME NEW i \in 1 .. Len(distributor'),
             distributor'[i] = StateUpdate("PRINTING", p)
      PROVE  \E j \in i + 1 .. Len(distributor') : Supersedes(distributor'[j], p)
  <2>1. i \in 1 .. Len(distributor) /\ distributor[i] = StateUpdate("PRINTING", p)
    BY <1>2, <1>5
  <2>2. PICK j \in i + 1 .. Len(distributor) : Supersedes(distributor[j], p)
    BY <1>1, <2>1 DEF EndNotShown
  <2>3. j \in i + 1 .. Len(distributor') /\ distributor'[j] = distributor[j]
    BY <1>2, <2>2, <2>1
  <2> QED
    BY <2>2, <2>3
<1> QED
  BY <1>4, <1>5

\* The end of a print hides whatever was said before, once it is told.
LEMMA EndKeeps ==
    ASSUME TypeOK, NEW p \in Prints, NEW b \in Bridges, ListenerEndsPrint(b)
    PROVE  EndNotShown(p)'
<1> DEFINE n == Len(distributor)
           e == StateUpdate("CONNECTED", None)
<1>1. CASE listener[b] = "end"
  <2>1. listener'[b] = "ended"
    BY <1>1 DEF ListenerEndsPrint, ListenerGoesTo, TypeOK, BridgeTypeOK
  <2> QED
    BY <2>1 DEF EndNotShown, Ending
<1>2. CASE listener[b] = "ended"
  <2>1. Send(e) /\ e \in EventType
    BY <1>2, Constructors DEF ListenerEndsPrint, BridgeState
  <2>2. /\ n \in Nat /\ Len(distributor') = n + 1 /\ distributor'[n + 1] = e
    BY <2>1, Appended
  <2>3. Supersedes(e, p) /\ e # StateUpdate("PRINTING", p)
    BY DEF Supersedes, StateUpdate, Wrapper, Shows
  <2>4. \A i \in 1 .. n + 1 :
          distributor'[i] = StateUpdate("PRINTING", p) => n + 1 \in i + 1 .. n + 1
    BY <2>2, <2>3
  <2> HIDE DEF n, e
  <2>5. n + 1 \in 1 .. n + 1
    BY <2>2
  <2> QED
    BY <2>2, <2>3, <2>4, <2>5 DEF EndNotShown
<1> QED
  BY <1>1, <1>2 DEF ListenerEndsPrint

\* The begin of another print does so too; p itself is going on if it is the one.
LEMMA StartKeeps ==
    ASSUME TypeOK, NEW p \in Prints, NEW b \in Bridges, ListenerStartsPrint(b)
    PROVE  EndNotShown(p)'
<1> DEFINE n == Len(distributor)
           q == next_print[b].print
           e == StateUpdate("PRINTING", q)
<1>1. q \in Prints /\ Send(e) /\ e \in EventType
  BY StartOfPrint, HarmlessEvents
<1>2. CASE p = q
  BY <1>2, StartOfPrint DEF EndNotShown
<1>3. CASE p # q
  <2>1. /\ n \in Nat /\ Len(distributor') = n + 1 /\ distributor'[n + 1] = e
    BY <1>1, Appended
  <2>2. Supersedes(e, p) /\ e # StateUpdate("PRINTING", p)
    BY <1>3 DEF Supersedes, StateUpdate, Wrapper, Shows
  <2>3. \A i \in 1 .. n + 1 :
          distributor'[i] = StateUpdate("PRINTING", p) => n + 1 \in i + 1 .. n + 1
    BY <2>1, <2>2
  <2> HIDE DEF n, e
  <2>4. n + 1 \in 1 .. n + 1
    BY <2>1
  <2> QED
    BY <2>1, <2>2, <2>3, <2>4 DEF EndNotShown
<1> QED
  BY <1>2, <1>3

\* A listener that has an end to tell is not replaced, and tells it.
LEMMA EndingStays ==
    ASSUME TypeOK, CreatedOnce, NEW b \in Bridges, BridgeStep(b), ~ ListenerEndsPrint(b), Ending
    PROVE  Ending'
<1>1. PICK c \in Bridges : listener[c] = "ended"
  BY DEF Ending
<1>2. start_task[c] \in {"opened", "done"}
  BY <1>1 DEF CreatedOnce, Bridges
<1>3. listener'[c] = "ended"
  BY <1>1, <1>2, BridgeAdvances
<1> QED
  BY <1>3 DEF Ending

\* Only these two steps of a bridge begin or end a print.
LEMMA OtherStepsKeepPrints ==
    ASSUME TypeOK, NEW b \in Bridges, BridgeStep(b), ~ ListenerEndsPrint(b),
           ~ ListenerStartsPrint(b)
    PROVE  SamePrints
<1>1. CASE StartStep(b) \/ TimeoutStep(b) \/ ListenerStep(b)
  <2>1. print_info' = print_info
    BY <1>1, StartSends, TimeoutSends, ListenerSends
  <2> QED
    BY <2>1, NoPrintChanges
<1> QED
  BY <1>1, ReaderSends DEF BridgeStep

\* The main loop: an update that is stored was followed already in the queue.
LEMMA ManagerKeeps ==
    ASSUME TypeOK, NEW p \in Prints, EndNotShown(p), ManagerNext
    PROVE  EndNotShown(p)'
<1> DEFINE n == Len(distributor)
<1>1. (InPrint(p)' <=> InPrint(p)) /\ (Ending' <=> Ending)
  <2>1. UNCHANGED <<print_info, listener>>
    BY ManagerHandles
  <2> QED
    BY <2>1, NoPrintChanges DEF SamePrints, InPrint, Ending
<1>2. CASE UNCHANGED <<distributor, state>>
  BY <1>1, <1>2, AddsKeep
<1>3. CASE /\ HandlesHead
           /\ OnStateUpdate \/ (state' = state /\ distributor[1].type # "StateUpdate")
  <2> SUFFICES ASSUME ~ InPrint(p), ~ Ending
               PROVE  /\ state' = Shows(p) =>
                           \E j \in 1 .. Len(distributor') : Supersedes(distributor'[j], p)
                      /\ \A i \in 1 .. Len(distributor') :
                           distributor'[i] = StateUpdate("PRINTING", p) =>
                             \E j \in i + 1 .. Len(distributor') : Supersedes(distributor'[j], p)
    BY <1>1 DEF EndNotShown, Shows, Supersedes
  <2>1. /\ n \in Nat /\ n >= 1
        /\ n - 1 <= Len(distributor') /\ Len(distributor') <= n
        /\ \A i \in 1 .. n - 1 : distributor'[i] = distributor[i + 1]
        /\ Len(distributor') = n => Harmless(distributor'[n]) /\ ~ Asks(distributor'[n])
    BY <1>3, Shifted
  <2> HIDE DEF n
  <2>2. ASSUME NEW j \in 2 .. n, Supersedes(distributor[j], p)
        PROVE  /\ j - 1 \in 1 .. Len(distributor')
               /\ Supersedes(distributor'[j - 1], p)
    BY <2>1, <2>2
  <2>3. ASSUME NEW i \in 1 .. Len(distributor'),
               distributor'[i] = StateUpdate("PRINTING", p)
        PROVE  \E j \in i + 1 .. Len(distributor') : Supersedes(distributor'[j], p)
    <3>1. i \in 1 .. n - 1
      BY <2>1, <2>3 DEF Harmless
    <3>2. i + 1 \in 1 .. n /\ distributor[i + 1] = StateUpdate("PRINTING", p)
      BY <2>1, <2>3, <3>1
    <3>3. PICK j \in i + 2 .. n : Supersedes(distributor[j], p)
      BY <2>1, <3>2 DEF EndNotShown, n
    <3>4. j \in 2 .. n /\ j - 1 \in i + 1 .. Len(distributor')
      BY <2>1, <3>1, <3>3
    <3> QED
      BY <2>2, <3>3, <3>4
  <2>4. ASSUME state' = Shows(p)
        PROVE  \E j \in 1 .. Len(distributor') : Supersedes(distributor'[j], p)
    <3>1. PICK j \in 2 .. n : Supersedes(distributor[j], p)
      <4>1. CASE OnStateUpdate
        <5>1. distributor[1] = StateUpdate("PRINTING", p)
          <6>1. distributor[1] \in EventType /\ Head(distributor) = distributor[1]
            BY <1>3, Behind, Queues DEF HandlesHead, TypeOK, BusTypeOK
          <6>2. distributor[1].type = "StateUpdate" /\ distributor[1].wrapper = Shows(p)
            BY <2>4, <4>1, <6>1 DEF OnStateUpdate, Handles
          <6> QED
            BY <6>1, <6>2 DEF EventType, StateUpdate, Shows
        <5> QED
          BY <2>1, <5>1 DEF EndNotShown, n
      <4>2. CASE state' = state /\ distributor[1].type # "StateUpdate"
        <5>1. PICK j \in 1 .. n : Supersedes(distributor[j], p)
          BY <2>4, <4>2 DEF EndNotShown, n
        <5>2. j # 1
          BY <4>2, <5>1 DEF Supersedes
        <5> QED
          BY <2>1, <5>1, <5>2
      <4> QED
        BY <1>3, <4>1, <4>2
    <3> QED
      BY <2>2, <3>1
  <2> QED
    BY <2>3, <2>4
<1> QED
  BY <1>2, <1>3, ManagerHandles

\* The printer, the clients and the faults may do what they like: no state shown
\* or queued says of an ended print, with nothing to follow, that it is going on.
THEOREM EndedPrint == Spec => []EndedPrintNotShown
<1>1. Init => EndedPrintNotShown
  BY DEF Init, BusInit, EndedPrintNotShown, EndNotShown, Shows, Wrapper
<1>2. TypeOK /\ CreatedOnce /\ EndedPrintNotShown /\ [Next]_vars => EndedPrintNotShown'
  <2> SUFFICES ASSUME TypeOK, CreatedOnce, EndedPrintNotShown, [Next]_vars, NEW p \in Prints
               PROVE  EndNotShown(p)'
    BY DEF EndedPrintNotShown
  <2>1. EndNotShown(p)
    BY DEF EndedPrintNotShown
  <2>2. CASE ManagerNext
    BY <2>1, <2>2, ManagerKeeps
  <2>3. ASSUME NEW b \in Bridges, BridgeNext(b)
        PROVE  EndNotShown(p)'
    <3>1. BridgeStep(b)
      BY <2>3 DEF BridgeNext
    <3>2. CASE ListenerEndsPrint(b)
      BY <3>2, EndKeeps
    <3>3. CASE ListenerStartsPrint(b)
      BY <3>3, StartKeeps
    <3>4. CASE ~ ListenerEndsPrint(b) /\ ~ ListenerStartsPrint(b)
      BY <2>1, <3>1, <3>4, BridgeAdds, OtherStepsKeepPrints, EndingStays, AddsKeep
         DEF SamePrints, InPrint, Adds
    <3> QED
      BY <3>2, <3>3, <3>4
  <2>4. ASSUME NEW r \in Requests, RouteNext(r)
        PROVE  EndNotShown(p)'
    <3>1. UNCHANGED <<state, print_info, listener>>
      BY <2>4, RouteSends DEF bridgeVars, listenerVars
    <3>2. (InPrint(p)' <=> InPrint(p)) /\ (Ending' <=> Ending)
      BY <3>1, NoPrintChanges DEF SamePrints, InPrint, Ending
    <3>3. \/ distributor' = distributor
          \/ \E e \in EventType : Send(e) /\ e # StateUpdate("PRINTING", p)
      BY <2>4, RouteSends DEF Harmless
    <3> QED
      BY <2>1, <3>1, <3>2, <3>3, AddsKeep
  <2>5. CASE UNCHANGED vars
    <3>1. UNCHANGED <<distributor, state, print_info, listener>>
      BY <2>5 DEF vars, busVars, bridgeVars, listenerVars
    <3> QED
      BY <2>1, <3>1, AddsKeep, NoPrintChanges DEF SamePrints, InPrint, Ending
  <2> QED
    BY <2>2, <2>3, <2>4, <2>5 DEF Next
<1> QED
  BY <1>1, <1>2, TypeCorrect, CreatedOnceInvariant, PTL DEF Spec

-----------------------------------------------------------------------------
\* A bridge begins by announcing itself.
LEMMA Announces ==
    ASSUME TypeOK, NEW b \in Bridges, BridgeStep(b), NEW c \in Bridges,
           start_task'[c] # "spawned"
    PROVE  start_task[c] # "spawned" \/ Contains(distributor', StateUpdate("CONNECTING", c))
<1>0. start_task \in [Bridges -> StartStates]
  BY DEF TypeOK, BridgeTypeOK, StartStates
<1>1. CASE StartAnnounces(b)
  <2>1. Send(StateUpdate("CONNECTING", b)) /\ StateUpdate("CONNECTING", b) \in EventType
    BY <1>1, Constructors DEF StartAnnounces, Bridges, BridgeState
  <2>2. Contains(distributor', StateUpdate("CONNECTING", b))
    BY <2>1, Appended DEF Contains
  <2>3. c # b => start_task'[c] = start_task[c]
    BY <1>0, <1>1 DEF StartAnnounces
  <2> QED
    BY <2>2, <2>3
<1>2. CASE OpenSucceeds(b) \/ StartAsksFirmware(b) \/ OpenFails(b) \/ OpenPanics(b)
  <2>1. start_task[b] # "spawned" /\ \E s : start_task' = [start_task EXCEPT ![b] = s]
    BY <1>2 DEF OpenSucceeds, StartAsksFirmware, OpenFails, OpenPanics
  <2> QED
    BY <1>0, <2>1
<1>3. CASE TimeoutStep(b) \/ ListenerStep(b)
  <2>1. start_task' = start_task
    BY <1>3
       DEF TimeoutStep, TimeoutElapses, TimeoutReports, ListenerStep, ListenerStarts,
           ListenerPanics, ListenerKilled, ListenerWrites, ListenerTakesPrintEnd,
           ListenerTakesPrintStart, ListenerChecks, ListenerEndsPrint, ListenerStartsPrint,
           ListenerSendsPreamble, startVars
  <2> QED
    BY <2>1
<1> QED
  BY <1>1, <1>2, <1>3, ReaderLeavesStart DEF BridgeStep, StartStep

\* A step of a task other than the main loop.
LEMMA OthersKeepVisible ==
    ASSUME TypeOK, AttachedIsVisible, UNCHANGED <<managerVars, state>>,
           distributor' = distributor \/ \E e \in EventType : Send(e),
           \A c \in Bridges : start_task'[c] # "spawned" =>
              start_task[c] # "spawned" \/ Contains(distributor', StateUpdate("CONNECTING", c))
    PROVE  AttachedIsVisible'
<1>1. bridge_thread \in Bridges \cup {None} /\ UNCHANGED <<main, bridge_thread, state>>
  BY DEF TypeOK, ManagerTypeOK, managerVars
<1>2. \A e : Contains(distributor, e) => Contains(distributor', e)
  BY Appended DEF Contains
<1> QED
  BY <1>1, <1>2 DEF AttachedIsVisible

\* The main loop: what it takes is no announcement, or it stores it.
LEMMA ManagerKeepsVisible ==
    ASSUME TypeOK, AttachedIsVisible, ManagerNext
    PROVE  AttachedIsVisible'
<1> DEFINE Announced == Contains(distributor, StateUpdate("CONNECTING", bridge_thread))
<1>1. CASE OnStateUpdate
  BY <1>1 DEF OnStateUpdate, AttachedIsVisible
<1>2. CASE Detach
  BY <1>2 DEF Detach, AttachedIsVisible
<1>3. CASE OnCreateBridgeError
  BY <1>3 DEF OnCreateBridgeError, AttachedIsVisible
<1>4. CASE OnCreateBridge
  <2>1. Head(distributor).bridge \in Bridges
    BY <1>4, Payloads, Queues DEF OnCreateBridge, Handles, TypeOK, BusTypeOK
  <2> QED
    BY <1>4, <2>1 DEF OnCreateBridge, AttachedIsVisible, TypeOK, BridgeTypeOK
<1>5. CASE OnSecondCreateBridge \/ OnForwarded \/ OnPrintStart
  <2>1. UNCHANGED <<state, main, bridge_thread, start_task>>
    BY <1>5
       DEF OnSecondCreateBridge, OnForwarded, OnPrintStart, managerVars, bridgeVars, startVars
  <2>2. HandlesHead /\ distributor[1].type # "StateUpdate"
    <3>1. distributor # <<>> /\ distributor[1].type # "StateUpdate"
      BY <1>5, Behind
         DEF OnSecondCreateBridge, OnForwarded, OnPrintStart, Handles, TypeOK, BusTypeOK
    <3>2. Harmless(CreateBridgeError) /\ ~ Asks(CreateBridgeError)
      BY HarmlessEvents, NoRequests
    <3> QED
      BY <1>5, <3>1, <3>2
         DEF OnSecondCreateBridge, OnForwarded, OnPrintStart, HandlesHead, TakeAndSend, Take
  <2>3. Announced => Contains(distributor', StateUpdate("CONNECTING", bridge_thread))
    <3> SUFFICES ASSUME NEW i \in 1 .. Len(distributor),
                        distributor[i] = StateUpdate("CONNECTING", bridge_thread)
                 PROVE  Contains(distributor', StateUpdate("CONNECTING", bridge_thread))
      BY DEF Contains
    <3>1. i # 1
      BY <2>2 DEF StateUpdate
    <3>2. i - 1 \in 1 .. Len(distributor') /\ distributor'[i - 1] = distributor[i]
      BY <2>2, <3>1, Shifted
    <3> QED
      BY <3>2 DEF Contains
  <2> QED
    BY <2>1, <2>3 DEF AttachedIsVisible
<1> QED
  BY <1>1, <1>2, <1>3, <1>4, <1>5 DEF ManagerNext, ManagerStep

\* A bridge that the manager holds and that has announced itself is not taken
\* for a closed connection by the clients, whatever the number of requests.
THEOREM AttachedVisible == Spec => []AttachedIsVisible
<1>1. Init => AttachedIsVisible
  BY DEF Init, ManagerInit, AttachedIsVisible
<1>2. TypeOK /\ AttachedIsVisible /\ [Next]_vars => AttachedIsVisible'
  <2> SUFFICES ASSUME TypeOK, AttachedIsVisible, [Next]_vars
               PROVE  AttachedIsVisible'
    OBVIOUS
  <2>1. CASE ManagerNext
    BY <2>1, ManagerKeepsVisible
  <2>2. ASSUME NEW b \in Bridges, BridgeNext(b)
        PROVE  AttachedIsVisible'
    <3>1. BridgeStep(b) /\ UNCHANGED <<managerVars, state>>
      BY <2>2, BridgeAdds DEF BridgeNext
    <3>2. distributor' = distributor \/ \E e \in EventType : Send(e)
      BY <3>1, BridgeAdds DEF Adds
    <3> QED
      BY <3>1, <3>2, Announces, OthersKeepVisible
  <2>3. ASSUME NEW r \in Requests, RouteNext(r)
        PROVE  AttachedIsVisible'
    <3>1. UNCHANGED <<managerVars, state, start_task>>
      BY <2>3, RouteSends DEF bridgeVars, startVars
    <3>2. distributor' = distributor \/ \E e \in EventType : Send(e)
      BY <2>3, RouteSends DEF Harmless
    <3> QED
      BY <3>1, <3>2, OthersKeepVisible
  <2>4. CASE UNCHANGED vars
    BY <2>4 DEF vars, busVars, managerVars, bridgeVars, startVars, AttachedIsVisible
  <2> QED
    BY <2>1, <2>2, <2>3, <2>4 DEF Next
<1> QED
  BY <1>1, <1>2, TypeCorrect, PTL DEF Spec

-----------------------------------------------------------------------------
(* Stray listeners                                                         *)

\* The kills on their way can be counted.
LEMMA KillsFinite ==
    ASSUME TypeOK
    PROVE  IsFiniteSet(Kills) /\ Cardinality(Kills) \in Nat
<1>1. Len(bridge_channel) \in Nat
  BY DEF TypeOK, BusTypeOK
<1>2. IsFiniteSet(1 .. Len(bridge_channel)) /\ Kills \in SUBSET (1 .. Len(bridge_channel))
  BY <1>1, FS_Interval DEF Kills
<1>3. IsFiniteSet(Kills)
  BY <1>2, FS_Subset
<1> QED
  BY <1>3, FS_CardinalityType

\* A kill that is sent is one more; anything else that is sent is none.
LEMMA KillSent ==
    ASSUME TypeOK, NEW e \in EventType, SendToBridge(e)
    PROVE  Cardinality(Kills') = Cardinality(Kills) + (IF e = KillBridge THEN 1 ELSE 0)
<1> DEFINE n == Len(bridge_channel)
<1>1. /\ n \in Nat /\ Len(bridge_channel') = n + 1 /\ bridge_channel'[n + 1] = e
      /\ \A i \in 1 .. n : bridge_channel'[i] = bridge_channel[i]
  BY DEF TypeOK, BusTypeOK, SendToBridge
<1>2. CASE e = KillBridge
  <2>1. Kills' = Kills \cup {n + 1} /\ n + 1 \notin Kills
    BY <1>1, <1>2 DEF Kills
  <2> QED
    BY <1>2, <2>1, KillsFinite, FS_AddElement
<1>3. CASE e # KillBridge
  <2>1. Kills' = Kills
    BY <1>1, <1>3 DEF Kills
  <2> QED
    BY <1>3, <2>1, KillsFinite
<1> QED
  BY <1>2, <1>3

\* A kill that is taken is one less.
LEMMA KillTaken ==
    ASSUME TypeOK, bridge_channel # <<>>, bridge_channel' = Tail(bridge_channel)
    PROVE  Cardinality(Kills') =
             Cardinality(Kills) - (IF Head(bridge_channel) = KillBridge THEN 1 ELSE 0)
<1> DEFINE n    == Len(bridge_channel)
           rest == Kills \ {1}
           f    == [i \in rest |-> i - 1]
<1>1. /\ n \in Nat /\ n >= 1 /\ Len(bridge_channel') = n - 1
      /\ \A i \in 1 .. n - 1 : bridge_channel'[i] = bridge_channel[i + 1]
      /\ Head(bridge_channel) = bridge_channel[1]
  BY Behind DEF TypeOK, BusTypeOK
<1>2. \A j \in rest : j \in 2 .. n /\ j - 1 \in Kills'
  BY <1>1 DEF Kills
<1>3. \A i \in Kills' : i + 1 \in rest /\ (i + 1) - 1 = i
  BY <1>1 DEF Kills
<1>4. f \in [rest -> Kills'] /\ \A i, j \in rest : f[i] = f[j] => i = j
  BY <1>1, <1>2
<1>5. \A i \in Kills' : \E j \in rest : f[j] = i
  BY <1>3
<1>6. IsFiniteSet(rest) /\ Cardinality(rest) =
        Cardinality(Kills) - (IF 1 \in Kills THEN 1 ELSE 0)
  BY KillsFinite, FS_RemoveElement
<1> HIDE DEF f, rest
<1>7. Cardinality(Kills') = Cardinality(rest)
  <2>1. f \in Bijection(rest, Kills')
    BY <1>4, <1>5, Fun_IsBij
  <2>2. ExistsBijection(rest, Kills')
    BY <2>1 DEF ExistsBijection
  <2> QED
    BY <1>6, <2>2, FS_Bijection
<1>8. 1 \in Kills <=> Head(bridge_channel) = KillBridge
  BY <1>1 DEF Kills
<1> QED
  BY <1>6, <1>7, <1>8

\* A bridge adds no other to those that are starting or listening.
LEMMA BridgeAddsNobody ==
    ASSUME TypeOK, NEW b \in Bridges, BridgeStep(b)
    PROVE  Alive' \subseteq Alive
<1> USE DEF startVars, listenerVars, Starting, Listening, Alive
<1>0. start_task \in [Bridges -> StartStates] /\ listener \in [Bridges -> ListenerState]
  BY DEF TypeOK, BridgeTypeOK, StartStates
<1>1. CASE StartStep(b)
  <2>1. PICK s \in {"opening", "opened", "done"} :
          /\ start_task[b] \in {"spawned", "opening", "opened"}
          /\ s = "opening" => start_task[b] = "spawned"
          /\ start_task' = [start_task EXCEPT ![b] = s]
          /\ \/ listener' = listener
             \/ s = "opened" /\ start_task[b] = "opening"
                  /\ listener' = [listener EXCEPT ![b] = "starting"]
    BY <1>1 DEF StartStep, StartAnnounces, OpenSucceeds, StartAsksFirmware, OpenFails, OpenPanics
  <2>2. \A c \in Bridges : c # b => start_task'[c] = start_task[c] /\ listener'[c] = listener[c]
    BY <1>0, <2>1
  <2>3. b \in Alive' => b \in Alive
    BY <1>0, <2>1
  <2> QED
    BY <2>2, <2>3
<1>2. CASE ListenerStep(b)
  <2>1. start_task' = start_task /\ listener[b] \notin {"none", "exited"}
    BY <1>2
       DEF ListenerStep, ListenerStarts, ListenerPanics, ListenerKilled, ListenerWrites, Takes,
           ListenerTakesPrintEnd, ListenerTakesPrintStart, ListenerChecks, ListenerEndsPrint,
           ListenerStartsPrint, ListenerSendsPreamble
  <2>2. listener' = listener \/ \E s : listener' = [listener EXCEPT ![b] = s]
    BY <1>2
       DEF ListenerStep, ListenerStarts, ListenerPanics, ListenerKilled, ListenerWrites,
           ListenerTakesPrintEnd, ListenerTakesPrintStart, ListenerChecks, ListenerEndsPrint,
           ListenerStartsPrint, ListenerSendsPreamble, ListenerGoesTo
  <2>3. \A c \in Bridges : c # b => listener'[c] = listener[c]
    BY <1>0, <2>2
  <2> QED
    BY <2>1, <2>3
<1>3. CASE TimeoutStep(b)
  <2>1. UNCHANGED <<start_task, listener>>
    BY <1>3 DEF TimeoutStep, TimeoutElapses, TimeoutReports
  <2> QED
    BY <2>1
<1>4. CASE \/ ReaderStep(b)
           \/ ReaderIoError(b)
           \/ \E l \in Lines : ReaderReceives(b, l)
  <2>1. UNCHANGED <<start_task, listener>>
    BY <1>4, ReaderLeavesStart
  <2> QED
    BY <2>1
<1> QED
  BY <1>1, <1>2, <1>3, <1>4 DEF BridgeStep

\* A bridge takes a kill only when it ends by it.
LEMMA BridgeTakesKill ==
    ASSUME TypeOK, CreatedOnce, NEW b \in Bridges, BridgeStep(b)
    PROVE  \/ Cardinality(Kills') = Cardinality(Kills)
           \/ /\ Cardinality(Kills') = Cardinality(Kills) - 1
              /\ b \in Alive /\ b \notin Alive'
<1>1. CASE bridge_channel' = bridge_channel
  BY <1>1 DEF Kills
<1>2. CASE ListenerKilled(b)
  <2>1. Cardinality(Kills') = Cardinality(Kills) - 1
    <3>1. Head(bridge_channel) \in EventType
      BY <1>2, Queues DEF ListenerKilled, Takes, TypeOK, BusTypeOK
    <3>2. Head(bridge_channel) = KillBridge
      BY <1>2, <3>1 DEF ListenerKilled, Takes, EventType, KillBridge
    <3> QED
      BY <1>2, <3>2, KillTaken DEF ListenerKilled, Takes
  <2>2. b \in Alive
    BY <1>2 DEF ListenerKilled, Takes, Alive, Listening
  <2>3. b \notin Alive'
    <3>1. listener[b] = "running" /\ listener'[b] = "exited" /\ start_task' = start_task
      BY <1>2 DEF ListenerKilled, Takes, ListenerGoesTo, TypeOK, BridgeTypeOK, startVars
    <3>2. start_task[b] \in {"opened", "done"}
      BY <3>1 DEF CreatedOnce, Bridges
    <3> QED
      BY <3>1, <3>2 DEF Alive, Starting, Listening
  <2> QED
    BY <2>1, <2>2, <2>3
<1>3. CASE ListenerWrites(b) \/ ListenerTakesPrintEnd(b) \/ ListenerTakesPrintStart(b)
  <2>1. /\ bridge_channel # <<>> /\ bridge_channel' = Tail(bridge_channel)
        /\ Head(bridge_channel) # KillBridge
    BY <1>3
       DEF ListenerWrites, ListenerTakesPrintEnd, ListenerTakesPrintStart, Takes, KillBridge
  <2> QED
    BY <2>1, KillTaken, KillsFinite
<1>4. CASE ReaderResends(b)
  <2>1. CASE bridge_channel' = bridge_channel
    BY <2>1 DEF Kills
  <2>2. CASE SendToBridge(OutGoing(NumberedLine(print_info[b].print, action[b].n)))
    <3> DEFINE e == OutGoing(NumberedLine(print_info[b].print, action[b].n))
    <3>1. print_info[b] \in PrintInfo /\ action[b].n \in Nat
      BY <1>4 DEF ReaderResends, TypeOK, BridgeTypeOK, BridgeAction
    <3>2. e \in EventType
      BY <3>1, Messages, Constructors DEF PrintInfo
    <3>3. e # KillBridge
      BY DEF OutGoing, KillBridge
    <3> QED
      BY <2>2, <3>2, <3>3, KillSent, KillsFinite
  <2> QED
    BY <1>4, <2>1, <2>2 DEF ReaderResends
<1>5. CASE /\ ListenerStep(b)
           /\ ~ (ListenerWrites(b) \/ ListenerTakesPrintEnd(b) \/ ListenerTakesPrintStart(b))
           /\ ~ ListenerKilled(b)
  BY <1>1, <1>5
     DEF ListenerStep, ListenerStarts, ListenerPanics, ListenerChecks, ListenerEndsPrint,
         ListenerStartsPrint, ListenerSendsPreamble, busVars
<1>6. CASE \/ StartStep(b) \/ TimeoutStep(b) \/ ReaderIoError(b)
           \/ \E l \in Lines : ReaderReceives(b, l)
  BY <1>1, <1>6
     DEF StartStep, StartAnnounces, OpenSucceeds, StartAsksFirmware, OpenFails, OpenPanics,
         TimeoutStep, TimeoutElapses, TimeoutReports, ReaderIoError, ReaderReceives, busVars
<1>7. CASE ReaderStep(b) /\ ~ ReaderResends(b)
  BY <1>1, <1>7
     DEF ReaderStep, ReaderFailed, ReaderStops, ReaderLine, ReaderHandshake,
         ReaderLineConnecting, ReaderReportsError, ReaderChecksSetup, ReaderConnected,
         ReaderSendsSetup, ReaderCollects, ReaderLeavesOk, ReaderAsksAgain,
         ReaderHasCapabilities, HandleOkResponse, ReaderOk, ReaderIgnoresOk, ReaderFirstLine,
         ReaderNextLine, ReaderSendsLine, ReaderPanics, ReaderRefusesResend, busVars
<1> QED
  BY <1>2, <1>3, <1>4, <1>5, <1>6, <1>7 DEF BridgeStep

\* The bridges alive can be counted, and all but the one the manager holds have a kill.
StrayInv == IsFiniteSet(Alive) /\ NoStrayListener

Held == IF bridge_thread = None THEN 0 ELSE 1

\* The main loop holds the bridge it starts, and sends a kill for the one it lets go of.
LEMMA ManagerKeepsStray ==
    ASSUME TypeOK, StrayInv, ManagerNext
    PROVE  StrayInv'
<1>0. /\ IsFiniteSet(Alive) /\ Cardinality(Alive) \in Nat /\ Cardinality(Kills) \in Nat
      /\ Cardinality(Alive) <= Cardinality(Kills) + Held
  BY KillsFinite, FS_CardinalityType DEF StrayInv, NoStrayListener, Held
<1>1. start_task \in [Bridges -> StartStates] /\ bridge_thread \in Bridges \cup {None}
  BY DEF TypeOK, BridgeTypeOK, ManagerTypeOK, StartStates
<1>2. listener' = listener
  BY ManagerHandles
<1> SUFFICES /\ IsFiniteSet(Alive') /\ Cardinality(Alive') \in Nat
             /\ Cardinality(Alive') <= Cardinality(Kills') + Held'
  BY DEF StrayInv, NoStrayListener, Held
<1>3. ASSUME start_task' = start_task
      PROVE  Alive' = Alive
  BY <1>2, <1>3 DEF Alive, Starting, Listening
<1>4. CASE OnCreateBridge
  <2> DEFINE b == Head(distributor).bridge
  <2>1. b \in Bridges /\ b # None
    BY <1>4, Payloads, Queues, NoneAssumption
       DEF OnCreateBridge, Handles, TypeOK, BusTypeOK, Bridges
  <2>2. Alive' = Alive \cup {b}
    BY <1>1, <1>2, <1>4, <2>1 DEF OnCreateBridge, Alive, Starting, Listening
  <2>3. Held = 0 /\ Held' = 1 /\ Kills' = Kills
    BY <1>4, <2>1 DEF OnCreateBridge, Held, Kills
  <2>4. /\ IsFiniteSet(Alive')
        /\ Cardinality(Alive') = IF b \in Alive THEN Cardinality(Alive) ELSE Cardinality(Alive) + 1
    BY <1>0, <2>2, FS_AddElement
  <2> QED
    BY <1>0, <2>3, <2>4
<1>5. CASE OnCreateBridgeError
  <2>1. Cardinality(Kills') = Cardinality(Kills) + 1
    BY <1>5, KillSent, Constructors DEF OnCreateBridgeError
  <2>2. Held' = 0 /\ Held \in {0, 1}
    BY <1>5 DEF OnCreateBridgeError, Held
  <2>3. Alive' \subseteq Alive
    <3>1. \/ start_task' = start_task
          \/ start_task' = [start_task EXCEPT ![bridge_thread] = Aborted(start_task[bridge_thread])]
      BY <1>5 DEF OnCreateBridgeError
    <3>2. \A c \in Bridges : start_task'[c] = start_task[c] \/ start_task'[c] = "done"
      <4>1. \A status : Aborted(status) = IF status = "spawned" THEN "done" ELSE status
        BY DEF Aborted
      <4> QED
        BY <1>1, <3>1, <4>1
    <3> QED
      BY <1>2, <3>2 DEF Alive, Starting, Listening
  <2>4. IsFiniteSet(Alive') /\ Cardinality(Alive') \in Nat /\ Cardinality(Alive') <= Cardinality(Alive)
    BY <1>0, <2>3, FS_Subset, FS_CardinalityType
  <2> QED
    BY <1>0, <2>1, <2>2, <2>4
<1>6. CASE Detach
  <2>1. Cardinality(Kills') = Cardinality(Kills) + 1
    BY <1>6, KillSent, Constructors DEF Detach
  <2>2. Held' = 0 /\ Held \in {0, 1} /\ Alive' = Alive
    BY <1>3, <1>6 DEF Detach, Held, bridgeVars, startVars
  <2> QED
    BY <1>0, <2>1, <2>2
<1>7. CASE OnSecondCreateBridge \/ OnStateUpdate \/ OnForwarded \/ OnPrintStart
  <2>1. start_task' = start_task /\ bridge_thread' = bridge_thread
    BY <1>7
       DEF OnSecondCreateBridge, OnStateUpdate, OnForwarded, OnPrintStart, managerVars,
           bridgeVars, startVars
  <2>2. Cardinality(Kills') = Cardinality(Kills)
    <3>1. CASE bridge_channel' = bridge_channel
      BY <3>1 DEF Kills
    <3>2. CASE /\ OnForwarded \/ OnPrintStart
               /\ SendToBridge(Head(distributor))
      <4>1. Head(distributor) \in EventType /\ Head(distributor) # KillBridge
        BY <3>2, Queues
           DEF OnForwarded, OnPrintStart, Handles, TypeOK, BusTypeOK, KillBridge
      <4> QED
        BY <1>0, <3>2, <4>1, KillSent
    <3> QED
      BY <1>7, <3>1, <3>2 DEF OnSecondCreateBridge, OnStateUpdate, OnForwarded, OnPrintStart
  <2> QED
    BY <1>0, <1>3, <2>1, <2>2 DEF Held
<1> QED
  BY <1>4, <1>5, <1>6, <1>7 DEF ManagerNext, ManagerStep

\* However many connections are opened, closed and reopened, and whatever fails meanwhile:
\* each bridge that is starting or listening is the one the manager holds, or has a kill on
\* its way (main.rs 124-201, bridge.rs 537-541).
THEOREM StraysAreKilled == Spec => []NoStrayListener
<1>1. Init => StrayInv
  <2> SUFFICES ASSUME Init
               PROVE  StrayInv
    OBVIOUS
  <2>1. Alive = {} /\ Kills = {} /\ bridge_thread = None
    BY DEF Init, BusInit, ManagerInit, BridgeInit, Alive, Starting, Listening, Kills
  <2> QED
    BY <2>1, FS_EmptySet DEF StrayInv, NoStrayListener
<1>2. TypeOK /\ CreatedOnce /\ StrayInv /\ [Next]_vars => StrayInv'
  <2> SUFFICES ASSUME TypeOK, CreatedOnce, StrayInv, [Next]_vars
               PROVE  StrayInv'
    OBVIOUS
  <2>1. CASE ManagerNext
    BY <2>1, ManagerKeepsStray
  <2>2. ASSUME NEW b \in Bridges, BridgeNext(b)
        PROVE  StrayInv'
    <3>0. /\ IsFiniteSet(Alive) /\ Cardinality(Alive) \in Nat /\ Cardinality(Kills) \in Nat
          /\ Cardinality(Alive) <= Cardinality(Kills) + Held
      BY KillsFinite, FS_CardinalityType DEF StrayInv, NoStrayListener, Held
    <3>1. BridgeStep(b) /\ Held' = Held /\ Held \in {0, 1}
      BY <2>2 DEF BridgeNext, managerVars, Held
    <3>2. Alive' \subseteq Alive
      BY <3>1, BridgeAddsNobody
    <3>3. /\ IsFiniteSet(Alive') /\ Cardinality(Alive') \in Nat
          /\ Cardinality(Alive') <= Cardinality(Alive)
          /\ Alive' # Alive => Cardinality(Alive') < Cardinality(Alive)
      BY <3>0, <3>2, FS_Subset, FS_CardinalityType
    <3>4. Cardinality(Alive') <= Cardinality(Kills') + Held'
      BY <3>0, <3>1, <3>3, BridgeTakesKill
    <3> QED
      BY <3>3, <3>4 DEF StrayInv, NoStrayListener, Held
  <2>3. CASE (\E r \in Requests : RouteNext(r)) \/ UNCHANGED vars
    <3>1. UNCHANGED <<bridge_thread, start_task, listener, bridge_channel>>
      BY <2>3
         DEF vars, busVars, managerVars, bridgeVars, startVars, listenerVars, RouteNext, RouteStep,
             Arrives, CreateConnection, CancelPrint, AcceptBoot, AcceptDisconnect,
             AcceptReconnect, AcceptPrint, PrintBreaksOff, AcceptTerminal, HandlerStep,
             ConnectBoot, Disconnect,
             Reconnect, Connect, StartPrintFile, SendTerminal
    <3> QED
      BY <3>1 DEF StrayInv, NoStrayListener, Alive, Starting, Listening, Kills
  <2> QED
    BY <2>1, <2>2, <2>3 DEF Next
<1> QED
  BY <1>1, <1>2, TypeCorrect, CreatedOnceInvariant, PTL DEF Spec, StrayInv

-----------------------------------------------------------------------------
(* Prints on their way: the M110 N0 comes first                            *)

\* The queue holds nothing of S.
Free(q, S) == \A i \in 1 .. Len(q) : q[i] \notin S

\* Nothing of S is in front of anything of T in the queue.
Leads(q, T, S) == \A i, j \in 1 .. Len(q) : i < j /\ q[j] \in T => q[i] \notin S

\* The events that begin print p, and those that are parts of it.
Starts(p) == {e \in EventType : e.type = "PrintStart" /\ e.info.print = p}
Parts(p)  == {e \in EventType : e = Preamble(p) \/ IsLineOf(e, p)}

\* Listeners that have taken the PrintStart of p and not begun p; that have begun p and not
\* sent its M110 N0.
Taken(p) ==
    {b \in Bridges : /\ listener[b] \in {"startCheck", "start"}
                     /\ next_print[b] # None
                     /\ next_print[b].print = p}
Begun(p) == {b \in Bridges : listener[b] = "started" /\ Printing(b, p)}

\* Print p may still begin.
Waiting(p) ==
    \/ req[p] # "done"
    \/ ~ Free(distributor, Starts(p))
    \/ ~ Free(bridge_channel, Starts(p))
    \/ Taken(p) # {}

\* Nothing of p has been sent.
Early(p) == Waiting(p) \/ Begun(p) # {}

\* The beginning of p is in one place, once, and there is one bridge at most that prints it.
PrintOnce(p) ==
    /\ req[p] # "done" => Free(distributor, Starts(p))
    /\ req[p] # "done" \/ ~ Free(distributor, Starts(p)) => Free(bridge_channel, Starts(p))
    /\ req[p] # "done" \/ ~ Free(distributor, Starts(p)) \/ ~ Free(bridge_channel, Starts(p))
         => Taken(p) = {}
    /\ Leads(distributor, Starts(p), Starts(p))
    /\ Leads(bridge_channel, Starts(p), Starts(p))
    /\ \A b, c \in Taken(p) : b = c
    /\ Waiting(p) => \A b \in Bridges : ~ Printing(b, p)
    /\ \A b, c \in Bridges : Printing(b, p) /\ Printing(c, p) => b = c

\* Nothing of p is sent before its M110 N0.
LinesFollow(p) ==
    /\ Early(p) => Free(distributor, Parts(p))
    /\ Leads(distributor, {Preamble(p)}, Parts(p))

\* The lock of print_info is held by one of the two.
OneHolder == \A b \in Bridges : ~ (listener[b] = "started" /\ reader[b] = "progress")

PrintInv == OneHolder /\ \A p \in Prints : PrintOnce(p) /\ LinesFollow(p)

\* A step that leaves it so; what was sent stays sent.
KeepsPrint(p) == PrintOnce(p)' /\ LinesFollow(p)' /\ (Early(p)' => Early(p))
KeepsPrints   == OneHolder' /\ \A p \in Prints : KeepsPrint(p)

PlainEvents ==
    {e \in EventType :
        /\ e.type # "PrintStart"
        /\ e.type = "OutGoingTerminalMessage" => e.message.command \notin {"M110 N0", "line"}}

AddsPlain == distributor' = distributor \/ \E e \in PlainEvents : Send(e)

\* What a queue is free of, and what leads in it, when something is added or the head taken.
LEMMA FreeSent ==
    ASSUME NEW E, NEW q \in Seq(E), NEW e \in E, NEW S
    PROVE  Free(Append(q, e), S) <=> Free(q, S) /\ e \notin S
<1>1. /\ Len(q) \in Nat /\ Len(Append(q, e)) = Len(q) + 1 /\ Append(q, e)[Len(q) + 1] = e
      /\ \A i \in 1 .. Len(q) : Append(q, e)[i] = q[i]
  OBVIOUS
<1> QED
  BY <1>1 DEF Free

LEMMA FreeTaken ==
    ASSUME NEW E, NEW q \in Seq(E), q # <<>>, NEW S
    PROVE  Free(q, S) <=> Free(Tail(q), S) /\ Head(q) \notin S
<1>1. /\ Len(q) \in Nat /\ Len(q) >= 1 /\ Len(Tail(q)) = Len(q) - 1 /\ Head(q) = q[1]
      /\ \A i \in 1 .. Len(q) - 1 : Tail(q)[i] = q[i + 1]
  OBVIOUS
<1>2. ASSUME Free(q, S)
      PROVE  Free(Tail(q), S) /\ Head(q) \notin S
  BY <1>1, <1>2 DEF Free
<1>3. ASSUME Free(Tail(q), S), Head(q) \notin S
      PROVE  Free(q, S)
  <2> SUFFICES ASSUME NEW i \in 1 .. Len(q)
               PROVE  q[i] \notin S
    BY DEF Free
  <2>1. CASE i = 1
    BY <1>1, <1>3, <2>1
  <2>2. CASE i # 1
    <3>1. i - 1 \in 1 .. Len(Tail(q)) /\ Tail(q)[i - 1] = q[i]
      BY <1>1, <2>2
    <3> QED
      BY <1>3, <3>1 DEF Free
  <2> QED
    BY <2>1, <2>2
<1> QED
  BY <1>2, <1>3

LEMMA LeadsSent ==
    ASSUME NEW E, NEW q \in Seq(E), NEW e \in E, NEW S, NEW T
    PROVE  Leads(Append(q, e), T, S) <=> Leads(q, T, S) /\ (e \in T => Free(q, S))
<1>1. /\ Len(q) \in Nat /\ Len(Append(q, e)) = Len(q) + 1 /\ Append(q, e)[Len(q) + 1] = e
      /\ \A i \in 1 .. Len(q) : Append(q, e)[i] = q[i]
  OBVIOUS
<1> DEFINE r == Append(q, e)
<1> HIDE DEF r
<1>2. ASSUME Leads(r, T, S)
      PROVE  Leads(q, T, S) /\ (e \in T => Free(q, S))
  <2>1. Leads(q, T, S)
    BY <1>1, <1>2 DEF Leads, r
  <2>2. ASSUME e \in T, NEW i \in 1 .. Len(q)
        PROVE  q[i] \notin S
    <3>1. i \in 1 .. Len(r) /\ Len(q) + 1 \in 1 .. Len(r) /\ i < Len(q) + 1
      BY <1>1 DEF r
    <3> QED
      BY <1>1, <1>2, <2>2, <3>1 DEF Leads, r
  <2> QED
    BY <2>1, <2>2 DEF Free
<1>3. ASSUME Leads(q, T, S), e \in T => Free(q, S)
      PROVE  Leads(r, T, S)
  <2> SUFFICES ASSUME NEW i \in 1 .. Len(r), NEW j \in 1 .. Len(r), i < j, r[j] \in T
               PROVE  r[i] \notin S
    BY DEF Leads
  <2>1. i \in 1 .. Len(q) /\ r[i] = q[i]
    BY <1>1 DEF r
  <2>2. CASE j = Len(q) + 1
    BY <1>1, <1>3, <2>1, <2>2 DEF Free, r
  <2>3. CASE j # Len(q) + 1
    <3>1. j \in 1 .. Len(q) /\ r[j] = q[j]
      BY <1>1, <2>3 DEF r
    <3> QED
      BY <1>3, <2>1, <3>1 DEF Leads
  <2> QED
    BY <2>2, <2>3
<1> QED
  BY <1>2, <1>3 DEF r

LEMMA LeadsTaken ==
    ASSUME NEW E, NEW q \in Seq(E), q # <<>>, NEW S, NEW T, Leads(q, T, S)
    PROVE  Leads(Tail(q), T, S) /\ (Head(q) \in S => Free(Tail(q), T))
<1>1. /\ Len(q) \in Nat /\ Len(q) >= 1 /\ Len(Tail(q)) = Len(q) - 1 /\ Head(q) = q[1]
      /\ \A i \in 1 .. Len(q) - 1 : Tail(q)[i] = q[i + 1]
  OBVIOUS
<1>2. Leads(Tail(q), T, S)
  <2> SUFFICES ASSUME NEW i \in 1 .. Len(Tail(q)), NEW j \in 1 .. Len(Tail(q)), i < j,
                      Tail(q)[j] \in T
               PROVE  Tail(q)[i] \notin S
    BY DEF Leads
  <2>1. /\ i + 1 \in 1 .. Len(q) /\ j + 1 \in 1 .. Len(q) /\ i + 1 < j + 1
        /\ Tail(q)[i] = q[i + 1] /\ Tail(q)[j] = q[j + 1]
    BY <1>1
  <2> QED
    BY <2>1 DEF Leads
<1>3. ASSUME Head(q) \in S, NEW i \in 1 .. Len(Tail(q))
      PROVE  Tail(q)[i] \notin T
  <2>1. 1 \in 1 .. Len(q) /\ i + 1 \in 1 .. Len(q) /\ 1 < i + 1 /\ Tail(q)[i] = q[i + 1]
    BY <1>1
  <2> QED
    BY <1>1, <1>3, <2>1 DEF Leads
<1> QED
  BY <1>2, <1>3 DEF Free

\* A queue that loses its head, or gets something that is not in S and not in T, or both.
LEMMA Unmoved ==
    ASSUME NEW E, NEW q \in Seq(E), NEW r, NEW S, NEW T,
           \/ r = q
           \/ q # <<>> /\ r = Tail(q)
           \/ \E e \in E : e \notin S \cup T /\ r = Append(q, e)
           \/ q # <<>> /\ \E e \in E : e \notin S \cup T /\ r = Append(Tail(q), e)
    PROVE  /\ Free(q, S) => Free(r, S)
           /\ Leads(q, T, S) => Leads(r, T, S)
<1>1. CASE r = q
  BY <1>1
<1>2. CASE q # <<>> /\ r = Tail(q)
  BY <1>2, FreeTaken, LeadsTaken
<1>3. ASSUME NEW e \in E, e \notin S \cup T, r = Append(q, e)
      PROVE  /\ Free(q, S) => Free(r, S)
             /\ Leads(q, T, S) => Leads(r, T, S)
  BY <1>3, FreeSent, LeadsSent
<1>4. ASSUME q # <<>>, NEW e \in E, e \notin S \cup T, r = Append(Tail(q), e)
      PROVE  /\ Free(q, S) => Free(r, S)
             /\ Leads(q, T, S) => Leads(r, T, S)
  <2>1. Tail(q) \in Seq(E)
    BY <1>4
  <2> QED
    BY <1>4, <2>1, FreeTaken, LeadsTaken, FreeSent, LeadsSent
<1> QED
  BY <1>1, <1>2, <1>3, <1>4

\* Most events begin no print and are no part of one.
LEMMA Plain ==
    /\ {CreateBridgeError, KillBridge, PrintEnd, Errored} \subseteq PlainEvents
    /\ \A b \in Bridges : CreateBridge(b) \in PlainEvents
    /\ \A s \in BridgeState, r \in Requests \cup {None} : StateUpdate(s, r) \in PlainEvents
    /\ \A c \in Commands \ {"M110 N0"}, r \in Requests \cup {None} :
          OutGoing(Command(c, r)) \in PlainEvents
<1>1. /\ \A c, r : Command(c, r).command = c
      /\ \A m : OutGoing(m).type = "OutGoingTerminalMessage" /\ OutGoing(m).message = m
      /\ CreateBridgeError.type = "CreateBridgeError" /\ KillBridge.type = "KillBridge"
      /\ PrintEnd.type = "PrintEnd" /\ Errored.type = "StateUpdate"
      /\ \A b : CreateBridge(b).type = "CreateBridge"
      /\ \A s, r : StateUpdate(s, r).type = "StateUpdate"
  BY DEF Command, OutGoing, CreateBridgeError, KillBridge, PrintEnd, Errored, CreateBridge,
         StateUpdate
<1>2. \A c \in Commands : c # "line"
  BY DEF Commands
<1>3. \A c \in Commands \ {"M110 N0"}, r \in Requests \cup {None} :
         OutGoing(Command(c, r)) \in PlainEvents
  <2> SUFFICES ASSUME NEW c \in Commands \ {"M110 N0"}, NEW r \in Requests \cup {None}
               PROVE  OutGoing(Command(c, r)) \in PlainEvents
    OBVIOUS
  <2> DEFINE m == Command(c, r)
             e == OutGoing(m)
  <2>1. e \in EventType
    BY Constructors, Messages
  <2>2. e.type = "OutGoingTerminalMessage" /\ e.message.command = c
    BY DEF OutGoing, Command
  <2>3. c \notin {"M110 N0", "line"} /\ e.type # "PrintStart"
    BY <1>2, <2>2
  <2> HIDE DEF e
  <2>4. e \in PlainEvents
    BY <2>1, <2>2, <2>3 DEF PlainEvents
  <2> QED
    BY <2>4 DEF e
<1> QED
  BY <1>1, <1>3, Constructors DEF PlainEvents

LEMMA PlainIsNoPart ==
    ASSUME NEW e \in PlainEvents, NEW p \in Prints
    PROVE  e \in EventType /\ e \notin Starts(p) /\ e \notin Parts(p)
<1>1. Preamble(p).type = "OutGoingTerminalMessage" /\ Preamble(p).message.command = "M110 N0"
  BY DEF Preamble, OutGoing, Command
<1> QED
  BY <1>1 DEF PlainEvents, Starts, Parts, IsLineOf

\* The parts of a print are parts of that one only, and begin none.
LEMMA PartsOfPrint ==
    ASSUME NEW p \in Prints, NEW q \in Prints, NEW k \in Nat
    PROVE  /\ Preamble(p) \in Parts(p) /\ OutGoing(NumberedLine(p, k)) \in Parts(p)
           /\ Preamble(p) \notin Starts(q) /\ OutGoing(NumberedLine(p, k)) \notin Starts(q)
           /\ OutGoing(NumberedLine(p, k)) # Preamble(q)
           /\ p # q => Preamble(p) \notin Parts(q) /\ OutGoing(NumberedLine(p, k)) \notin Parts(q)
<1>1. Preamble(p) \in EventType /\ OutGoing(NumberedLine(p, k)) \in EventType
  BY Constructors, Messages DEF Preamble, Commands, Prints
<1>2. /\ Preamble(p).type = "OutGoingTerminalMessage"
      /\ Preamble(p).message = Command("M110 N0", p)
      /\ OutGoing(NumberedLine(p, k)).type = "OutGoingTerminalMessage"
      /\ OutGoing(NumberedLine(p, k)).message = NumberedLine(p, k)
      /\ Preamble(q).message = Command("M110 N0", q)
  BY DEF Preamble, OutGoing
<1>3. /\ \A r : Command("M110 N0", r).command = "M110 N0" /\ Command("M110 N0", r).of = r
      /\ NumberedLine(p, k).command = "line" /\ NumberedLine(p, k).of = p
  BY DEF Command, NumberedLine
<1> DEFINE l == OutGoing(NumberedLine(p, k))
<1>4. l.message.command = "line" /\ l.message.of = p
  BY <1>2, <1>3
<1>5. \A r : Preamble(r).message.command = "M110 N0" /\ Preamble(r).message.of = r
  BY <1>3 DEF Preamble, OutGoing
<1>6. l # Preamble(q) /\ (p # q => Preamble(p) # Preamble(q))
  BY <1>4, <1>5
<1> HIDE DEF l
<1> QED
  BY <1>1, <1>2, <1>4, <1>5, <1>6 DEF Starts, Parts, IsLineOf, l

\* Taking an event, or adding one that is plain, or both.
Passes(q, r) ==
    \/ r = q
    \/ q # <<>> /\ r = Tail(q)
    \/ \E e \in PlainEvents : r = Append(q, e)
    \/ q # <<>> /\ \E e \in PlainEvents : r = Append(Tail(q), e)

\* It leaves every print where it is.
LEMMA Passing ==
    ASSUME NEW q \in Seq(EventType), NEW r, NEW p \in Prints, Passes(q, r)
    PROVE  /\ Free(q, Starts(p)) => Free(r, Starts(p))
           /\ Leads(q, Starts(p), Starts(p)) => Leads(r, Starts(p), Starts(p))
           /\ Free(q, Parts(p)) => Free(r, Parts(p))
           /\ Leads(q, {Preamble(p)}, Parts(p)) => Leads(r, {Preamble(p)}, Parts(p))
           /\ Free(q, {Preamble(p)}) => Free(r, {Preamble(p)})
<1>1. Preamble(p) \in Parts(p)
  BY PartsOfPrint
<1>2. \A e \in PlainEvents :
         e \in EventType /\ e \notin Starts(p) \cup Starts(p) /\ e \notin Parts(p) \cup {Preamble(p)}
  BY <1>1, PlainIsNoPart
<1>3. ASSUME NEW S, NEW T, \A e \in PlainEvents : e \notin S \cup T
      PROVE  (Free(q, S) => Free(r, S)) /\ (Leads(q, T, S) => Leads(r, T, S))
  <2>1. \/ r = q
        \/ q # <<>> /\ r = Tail(q)
        \/ \E e \in EventType : e \notin S \cup T /\ r = Append(q, e)
        \/ q # <<>> /\ \E e \in EventType : e \notin S \cup T /\ r = Append(Tail(q), e)
    BY <1>2, <1>3 DEF Passes
  <2> QED
    BY <2>1, Unmoved
<1> QED
  BY <1>2, <1>3

\* Whatever only takes away from the places where the beginning of p may be.
LEMMA StillOnce ==
    ASSUME NEW p \in Prints, PrintOnce(p),
           req'[p] # "done" => req[p] # "done",
           Free(distributor, Starts(p)) => Free(distributor', Starts(p)),
           Leads(distributor, Starts(p), Starts(p)) => Leads(distributor', Starts(p), Starts(p)),
           Free(bridge_channel, Starts(p)) => Free(bridge_channel', Starts(p)),
           Leads(bridge_channel, Starts(p), Starts(p)) =>
              Leads(bridge_channel', Starts(p), Starts(p)),
           Taken(p)' \subseteq Taken(p),
           \A b \in Bridges : Printing(b, p)' => Printing(b, p)
    PROVE  PrintOnce(p)' /\ (Waiting(p)' => Waiting(p))
<1>1. Waiting(p)' => Waiting(p)
  BY DEF Waiting
<1> QED
  BY <1>1 DEF PrintOnce

LEMMA StillFollow ==
    ASSUME NEW p \in Prints, LinesFollow(p), PrintOnce(p)',
           Waiting(p)' => Waiting(p), Begun(p)' \subseteq Begun(p),
           Free(distributor, Parts(p)) => Free(distributor', Parts(p)),
           Leads(distributor, {Preamble(p)}, Parts(p)) =>
              Leads(distributor', {Preamble(p)}, Parts(p))
    PROVE  KeepsPrint(p)
<1>1. Early(p)' => Early(p)
  BY DEF Early
<1>2. Early(p)' => Free(distributor', Parts(p))
  BY <1>1 DEF LinesFollow
<1>3. Leads(distributor', {Preamble(p)}, Parts(p))
  BY DEF LinesFollow
<1> QED
  BY <1>1, <1>2, <1>3 DEF KeepsPrint, LinesFollow, Preamble

\* The handlers of the API send one PrintStart each at most; the rest is plain.
LEMMA RouteAdds ==
    ASSUME TypeOK, NEW r \in Requests, RouteNext(r)
    PROVE  /\ bridge_channel' = bridge_channel
           /\ \/ AddsPlain
              \/ \E len \in GcodeLengths :
                   /\ Send(PrintStart(NewPrintInfo(r, len)))
                   /\ req[r] = "print" /\ req'[r] = "done"
<1>1. CASE StartPrintFile(r)
  BY <1>1 DEF StartPrintFile, AddsPlain, GoesTo, TypeOK, RoutesTypeOK
<1>2. CASE Arrives(r) \/ AcceptBoot(r) \/ (HandlerStep(r) /\ ~ StartPrintFile(r))
  <2> USE DEF Arrives, CreateConnection, CancelPrint, AcceptBoot, AcceptDisconnect,
         AcceptReconnect, AcceptPrint, PrintBreaksOff, AcceptTerminal, HandlerStep,
         ConnectBoot, Disconnect,
         Reconnect, Connect, SendTerminal, busVars
  <2>1. bridge_channel' = bridge_channel
    BY <1>2
  <2>2. /\ CreateBridge(r) \in PlainEvents /\ Errored \in PlainEvents /\ PrintEnd \in PlainEvents
        /\ StateUpdate("DISCONNECTED", None) \in PlainEvents
        /\ OutGoing(Command("user", r)) \in PlainEvents
    BY Plain DEF Bridges, BridgeState, Commands
  <2>3. \/ distributor' = distributor
        \/ Send(CreateBridge(r)) \/ Send(Errored) \/ Send(PrintEnd)
        \/ Send(StateUpdate("DISCONNECTED", None)) \/ Send(OutGoing(Command("user", r)))
    BY <1>2 DEF ReadSettings, PanicHook, Errored
  <2> QED
    BY <2>1, <2>2, <2>3 DEF AddsPlain
<1> QED
  BY <1>1, <1>2 DEF RouteNext, RouteStep, HandlerStep, StartPrintFile

LEMMA RouteKeepsPrintInv ==
    ASSUME TypeOK, PrintInv, NEW r \in Requests, RouteNext(r)
    PROVE  KeepsPrints
<1>1. /\ UNCHANGED <<listener, reader, next_print, print_info, bridge_channel>>
      /\ req[r] # "done" /\ \A c \in Requests : c # r => req'[c] = req[c]
  BY RouteSends, RouteAdds DEF bridgeVars, listenerVars, readerVars
<1>2. OneHolder'
  BY <1>1 DEF PrintInv, OneHolder
<1> SUFFICES ASSUME NEW p \in Prints
             PROVE  KeepsPrint(p)
  BY <1>2 DEF KeepsPrints
<1>3. PrintOnce(p) /\ LinesFollow(p) /\ distributor \in Seq(EventType)
  BY DEF PrintInv, TypeOK, BusTypeOK
<1>4. /\ Taken(p)' = Taken(p) /\ Begun(p)' = Begun(p)
      /\ \A b \in Bridges : Printing(b, p)' <=> Printing(b, p)
  BY <1>1 DEF Taken, Begun, Printing
<1>5. CASE AddsPlain
  <2>1. Passes(distributor, distributor')
    BY <1>5 DEF AddsPlain, Passes, Send
  <2>2. req'[p] # "done" => req[p] # "done"
    BY <1>1 DEF Prints
  <2>3. PrintOnce(p)' /\ (Waiting(p)' => Waiting(p))
    BY <1>1, <1>3, <1>4, <2>1, <2>2, Passing, StillOnce
  <2> QED
    BY <1>3, <1>4, <2>1, <2>3, Passing, StillFollow
<1>6. ASSUME NEW len \in GcodeLengths, Send(PrintStart(NewPrintInfo(r, len))), req'[r] = "done"
      PROVE  KeepsPrint(p)
  <2> DEFINE e == PrintStart(NewPrintInfo(r, len))
  <2>1. NewPrintInfo(r, len) \in PrintInfo
    BY RoutesAssumption DEF NewPrintInfo, PrintInfo, Prints
  <2>2. e \in EventType /\ e.type = "PrintStart" /\ e.info.print = r
    BY <2>1, Constructors DEF PrintStart, NewPrintInfo
  <2>3. distributor' = Append(distributor, e)
    BY <1>6 DEF Send
  <2> HIDE DEF e
  <2>4. e \notin Parts(p) /\ e # Preamble(p) /\ (e \in Starts(p) <=> p = r)
    <3>1. Preamble(p).type = "OutGoingTerminalMessage"
      BY DEF Preamble, OutGoing
    <3> QED
      BY <2>2, <3>1 DEF Parts, IsLineOf, Starts
  <2>5. /\ Free(distributor', Parts(p)) <=> Free(distributor, Parts(p))
        /\ Leads(distributor', {Preamble(p)}, Parts(p))
        /\ Free(distributor', Starts(p)) <=> Free(distributor, Starts(p)) /\ p # r
    BY <1>3, <2>2, <2>3, <2>4, FreeSent, LeadsSent DEF LinesFollow
  <2>6. CASE p = r
    <3>1. /\ req[p] # "done" /\ req'[p] = "done" /\ Waiting(p)
          /\ Free(distributor, Starts(p)) /\ Free(bridge_channel, Starts(p)) /\ Taken(p) = {}
          /\ \A b \in Bridges : ~ Printing(b, p)
      BY <1>1, <1>3, <1>6, <2>6 DEF PrintOnce, Waiting
    <3>2. Leads(distributor', Starts(p), Starts(p))
      BY <1>3, <2>2, <2>3, <3>1, LeadsSent DEF PrintOnce
    <3>3. PrintOnce(p)'
      BY <1>1, <1>3, <1>4, <3>1, <3>2 DEF PrintOnce
    <3>4. Free(distributor, Parts(p))
      BY <1>3, <3>1 DEF LinesFollow, Early
    <3>5. LinesFollow(p)'
      BY <2>5, <3>4 DEF LinesFollow, Preamble
    <3> QED
      BY <3>1, <3>3, <3>5 DEF KeepsPrint, Early
  <2>7. CASE p # r
    <3>1. req'[p] = req[p]
      BY <1>1, <2>7 DEF Prints
    <3>2. Leads(distributor', Starts(p), Starts(p))
      BY <1>3, <2>2, <2>3, <2>4, <2>7, LeadsSent DEF PrintOnce
    <3>3. PrintOnce(p)' /\ (Waiting(p)' => Waiting(p))
      BY <1>1, <1>3, <1>4, <2>5, <2>7, <3>1, <3>2, StillOnce
    <3> QED
      BY <1>3, <1>4, <2>5, <3>3, StillFollow
  <2> QED
    BY <2>6, <2>7
<1> QED
  BY <1>5, <1>6, RouteAdds

\* The main loop hands the beginning of a print on, or drops it.
LEMMA ManagerKeepsPrintInv ==
    ASSUME TypeOK, PrintInv, ManagerNext
    PROVE  KeepsPrints
<1> USE DEF OnSecondCreateBridge, OnCreateBridge, OnCreateBridgeError, OnStateUpdate, Detach,
            OnForwarded, OnPrintStart
<1>1. UNCHANGED <<listener, reader, next_print, print_info, req>>
  BY DEF ManagerNext, ManagerStep, bridgeVars, listenerVars, readerVars, routesVars
<1>2. OneHolder'
  BY <1>1 DEF PrintInv, OneHolder
<1> SUFFICES ASSUME NEW p \in Prints
             PROVE  KeepsPrint(p)
  BY <1>2 DEF KeepsPrints
<1>3. /\ PrintOnce(p) /\ LinesFollow(p)
      /\ distributor \in Seq(EventType) /\ bridge_channel \in Seq(EventType)
  BY DEF PrintInv, TypeOK, BusTypeOK
<1>4. /\ Taken(p)' = Taken(p) /\ Begun(p)' = Begun(p) /\ req'[p] = req[p]
      /\ \A b \in Bridges : Printing(b, p)' <=> Printing(b, p)
  BY <1>1 DEF Taken, Begun, Printing
<1>5. Passes(distributor, distributor')
  BY Plain DEF ManagerNext, ManagerStep, Passes, Handles, Take, TakeAndSend
<1>6. ASSUME Free(bridge_channel, Starts(p)) => Free(bridge_channel', Starts(p)),
             Leads(bridge_channel, Starts(p), Starts(p)) =>
                Leads(bridge_channel', Starts(p), Starts(p))
      PROVE  KeepsPrint(p)
  <2>1. PrintOnce(p)' /\ (Waiting(p)' => Waiting(p))
    BY <1>3, <1>4, <1>5, <1>6, Passing, StillOnce
  <2> QED
    BY <1>3, <1>4, <1>5, <2>1, Passing, StillFollow
<1>7. CASE OnForwarded
  <2>1. /\ distributor # <<>> /\ Head(distributor) \in EventType
        /\ Head(distributor).type # "PrintStart"
    BY <1>3, <1>7 DEF Handles
  <2>2. Head(distributor) \notin Starts(p)
    BY <2>1 DEF Starts
  <2>3. bridge_channel' = Append(bridge_channel, Head(distributor))
    BY <1>7 DEF SendToBridge
  <2> QED
    BY <1>3, <1>6, <2>1, <2>2, <2>3, FreeSent, LeadsSent
<1>8. CASE OnPrintStart
  <2> DEFINE e == Head(distributor)
  <2>1. distributor # <<>> /\ e \in EventType /\ distributor' = Tail(distributor)
    BY <1>3, <1>8 DEF Handles, Take
  <2>2. \/ bridge_channel' = bridge_channel
        \/ bridge_channel' = Append(bridge_channel, e)
    BY <1>8 DEF SendToBridge
  <2> HIDE DEF e
  <2>3. CASE bridge_channel' = bridge_channel
    BY <1>6, <2>3
  <2>4. CASE bridge_channel' = Append(bridge_channel, e) /\ e \notin Starts(p)
    BY <1>3, <1>6, <2>1, <2>4, FreeSent, LeadsSent
  <2>5. CASE bridge_channel' = Append(bridge_channel, e) /\ e \in Starts(p)
    <3>1. ~ Free(distributor, Starts(p)) /\ Free(distributor', Starts(p))
      BY <1>3, <2>1, <2>5, FreeTaken, LeadsTaken DEF PrintOnce, e
    <3>2. req[p] = "done" /\ Free(bridge_channel, Starts(p)) /\ Taken(p) = {} /\ Waiting(p)
      BY <1>3, <3>1 DEF PrintOnce, Waiting
    <3>3. Leads(bridge_channel', Starts(p), Starts(p))
      BY <1>3, <2>1, <2>5, <3>2, LeadsSent DEF PrintOnce
    <3>4. Leads(distributor', Starts(p), Starts(p))
      BY <1>3, <1>5, Passing DEF PrintOnce
    <3>5. PrintOnce(p)'
      BY <1>3, <1>4, <3>1, <3>2, <3>3, <3>4 DEF PrintOnce
    <3> QED
      BY <1>3, <1>4, <1>5, <3>2, <3>5, Passing, StillFollow
  <2> QED
    BY <2>2, <2>3, <2>4, <2>5
<1>9. CASE OnSecondCreateBridge \/ OnCreateBridge \/ OnCreateBridgeError \/ OnStateUpdate \/ Detach
  <2>1. Passes(bridge_channel, bridge_channel')
    BY <1>9, Plain DEF Passes, SendToBridge
  <2> QED
    BY <1>3, <1>6, <2>1, Passing
<1> QED
  BY <1>7, <1>8, <1>9 DEF ManagerNext, ManagerStep

\* What the reader sends of a print is a line of its own, while nobody else holds the lock.
SendsLineOf(b, e) ==
    /\ print_info[b] \in PrintInfo
    /\ reader[b] = "progress" \/ ~ Locked(b)
    /\ \E n \in Nat :
         /\ HasLine(print_info[b], n)
         /\ e = OutGoing(NumberedLine(print_info[b].print, n))
    /\ \/ Send(e) /\ bridge_channel' = bridge_channel
       \/ /\ SendToBridge(e) /\ distributor' = distributor
          /\ reader[b] = "print" /\ action[b].kind = "Resend"

LEMMA LineSends ==
    ASSUME TypeOK, NEW b \in Bridges, print_info[b] \in PrintInfo, action[b] \in BridgeAction,
           reader[b] = "progress" \/ ~ Locked(b), SendLine(b), bridge_channel' = bridge_channel
    PROVE  AddsPlain \/ \E e : SendsLineOf(b, e)
<1>1. Wanted(action[b]) \in Nat
  BY DEF Wanted, BridgeAction
<1>2. CASE HasLine(print_info[b], Wanted(action[b]))
  BY <1>1, <1>2 DEF SendLine, SendsLineOf
<1>3. CASE ~ HasLine(print_info[b], Wanted(action[b]))
  BY <1>3, Plain DEF SendLine, AddsPlain
<1> QED
  BY <1>2, <1>3

LEMMA OkSendsLines ==
    ASSUME TypeOK, NEW b \in Bridges, HandleOkResponse(b)
    PROVE  /\ (bridge_channel' = bridge_channel /\ AddsPlain) \/ \E e : SendsLineOf(b, e)
           /\ next_print' = next_print
           /\ \A c \in Bridges : reader'[c] = "progress" =>
                 reader[c] = "progress" \/ (c = b /\ ~ Locked(b))
<1>1. next_print' = next_print
  BY DEF HandleOkResponse, ReaderOk, ReaderIgnoresOk, ReaderFirstLine, ReaderNextLine,
         ReaderSendsLine, ReaderPanics, ReaderRefusesResend, ReaderResends, Handled, SendProgress,
         listenerVars
<1>2. reader \in [Bridges -> ReaderState]
  BY DEF TypeOK, BridgeTypeOK
<1>3. \A c \in Bridges : reader'[c] = "progress" =>
         reader[c] = "progress" \/ (c = b /\ ~ Locked(b))
  BY <1>2
     DEF HandleOkResponse, ReaderOk, ReaderIgnoresOk, ReaderFirstLine, ReaderNextLine,
         ReaderSendsLine, ReaderPanics, ReaderRefusesResend, ReaderResends, Handled, SendProgress,
         ReaderGoesTo
<1>4. CASE ReaderOk(b) \/ ReaderIgnoresOk(b) \/ ReaderPanics(b) \/ ReaderRefusesResend(b)
  <2>1. bridge_channel' = bridge_channel /\ (distributor' = distributor \/ Send(Errored))
    BY <1>4 DEF ReaderOk, ReaderIgnoresOk, ReaderPanics, ReaderRefusesResend, PanicHook, Errored
  <2> QED
    BY <1>1, <1>3, <2>1, Plain DEF AddsPlain
<1>5. CASE ReaderFirstLine(b) \/ ReaderNextLine(b)
  <2>1. /\ print_info[b] \in PrintInfo /\ action[b] \in BridgeAction /\ ~ Locked(b)
        /\ bridge_channel' = bridge_channel
    BY <1>5 DEF ReaderFirstLine, ReaderNextLine, TypeOK, BridgeTypeOK
  <2>2. CASE SendLine(b)
    BY <1>1, <1>3, <2>1, <2>2, LineSends
  <2>3. CASE SendProgress(b)
    <3>1. StateUpdate("PRINTING", print_info[b].print) \in PlainEvents
      BY <2>1, Plain DEF PrintInfo, Prints, BridgeState
    <3> QED
      BY <1>1, <1>3, <2>1, <2>3, <3>1 DEF SendProgress, AddsPlain
  <2> QED
    BY <1>5, <2>2, <2>3 DEF ReaderFirstLine, ReaderNextLine
<1>6. CASE ReaderSendsLine(b)
  <2>1. /\ print_info[b] \in PrintInfo /\ action[b] \in BridgeAction /\ reader[b] = "progress"
        /\ bridge_channel' = bridge_channel /\ SendLine(b)
    BY <1>6 DEF ReaderSendsLine, TypeOK, BridgeTypeOK, Locked
  <2> QED
    BY <1>1, <1>3, <2>1, LineSends
<1>7. CASE ReaderResends(b)
  <2>1. print_info[b] \in PrintInfo /\ action[b].n \in Nat /\ ~ Locked(b)
    BY <1>7 DEF ReaderResends, TypeOK, BridgeTypeOK, BridgeAction
  <2>2. CASE HasLine(print_info[b], action[b].n)
    BY <1>1, <1>3, <1>7, <2>1, <2>2 DEF ReaderResends, SendsLineOf
  <2>3. CASE ~ HasLine(print_info[b], action[b].n)
    BY <1>1, <1>3, <1>7, <2>1, <2>3, Plain DEF ReaderResends, AddsPlain
  <2> QED
    BY <2>2, <2>3
<1> QED
  BY <1>4, <1>5, <1>6, <1>7 DEF HandleOkResponse

LEMMA HandshakeIsPlain ==
    ASSUME TypeOK, NEW b \in Bridges, ReaderHandshake(b)
    PROVE  bridge_channel' = bridge_channel /\ AddsPlain
<1> USE DEF ReaderHandshake, ReaderLineConnecting, ReaderReportsError, ReaderChecksSetup,
            ReaderConnected, ReaderCollects, ReaderLeavesOk, ReaderAsksAgain,
            ReaderHasCapabilities, ReaderSendsSetup, busVars
<1>1. bridge_channel' = bridge_channel
  OBVIOUS
<1>2. /\ OutGoing(Command("M115", None)) \in PlainEvents /\ OutGoing(Command("G90", None)) \in PlainEvents
      /\ StateUpdate("CONNECTED", None) \in PlainEvents /\ Errored \in PlainEvents
  BY Plain DEF Commands, BridgeState
<1>3. CASE ReaderSendsSetup(b)
  <2>1. PICK last \in LastCommand(commands_left_to_send[b]) :
          Send(OutGoing(Command(commands_left_to_send[b][last], None)))
    BY <1>3
  <2>2. commands_left_to_send[b] \in Seq(SetupCommands \cup {None})
    BY DEF TypeOK, BridgeTypeOK
  <2>3. commands_left_to_send[b][last] \in SetupCommands
    BY <2>1, <2>2 DEF LastCommand
  <2>4. OutGoing(Command(commands_left_to_send[b][last], None)) \in PlainEvents
    BY <2>3, Plain DEF SetupCommands, Commands
  <2> QED
    BY <1>1, <2>1, <2>4 DEF AddsPlain
<1>4. CASE ~ ReaderSendsSetup(b)
  BY <1>1, <1>2, <1>4 DEF AddsPlain
<1> QED
  BY <1>3, <1>4

\* The same of the whole reader.
LEMMA ReaderSendsLines ==
    ASSUME TypeOK, NEW b \in Bridges,
           \/ ReaderStep(b)
           \/ ReaderIoError(b)
           \/ \E l \in Lines : ReaderReceives(b, l)
    PROVE  /\ (bridge_channel' = bridge_channel /\ AddsPlain) \/ \E e : SendsLineOf(b, e)
           /\ next_print' = next_print
           /\ \A c \in Bridges : reader'[c] = "progress" =>
                 reader[c] = "progress" \/ (c = b /\ ~ Locked(b))
<1>1. reader \in [Bridges -> ReaderState]
  BY DEF TypeOK, BridgeTypeOK
<1>2. CASE HandleOkResponse(b)
  BY <1>2, OkSendsLines
<1>3. CASE ReaderHandshake(b)
  <2>1. next_print' = next_print /\ \A c \in Bridges : reader'[c] = "progress" => reader[c] = "progress"
    BY <1>1, <1>3
       DEF ReaderHandshake, ReaderLineConnecting, ReaderReportsError, ReaderChecksSetup,
            ReaderConnected, ReaderCollects, ReaderLeavesOk, ReaderAsksAgain,
            ReaderHasCapabilities, ReaderSendsSetup, listenerVars, ReaderGoesTo
  <2> QED
    BY <1>3, <2>1, HandshakeIsPlain
<1>4. CASE \/ ReaderFailed(b) \/ ReaderStops(b) \/ ReaderLine(b) \/ ReaderIoError(b)
           \/ \E l \in Lines : ReaderReceives(b, l)
  <2> USE DEF ReaderFailed, ReaderStops, ReaderLine, ReaderIoError, ReaderReceives, busVars,
              listenerVars, ReaderGoesTo
  <2>1. /\ next_print' = next_print /\ bridge_channel' = bridge_channel
        /\ distributor' = distributor \/ Send(Errored)
    BY <1>4
  <2>2. \A c \in Bridges : reader'[c] = "progress" => reader[c] = "progress"
    BY <1>1, <1>4
  <2> QED
    BY <2>1, <2>2, Plain DEF AddsPlain
<1> QED
  BY <1>2, <1>3, <1>4 DEF ReaderStep

\* A bridge that sends a line of its print leaves the beginning of every print alone.
LEMMA LineKeepsPrintInv ==
    ASSUME TypeOK, PrintInv, NEW b \in Bridges, NEW e, SendsLineOf(b, e), SamePrints,
           UNCHANGED <<listener, next_print, req>>, OneHolder', NEW p \in Prints
    PROVE  KeepsPrint(p)
<1>1. PICK k \in Nat : e = OutGoing(NumberedLine(print_info[b].print, k))
  BY DEF SendsLineOf
<1> DEFINE q == print_info[b].print
<1>2. q \in Prints /\ Printing(b, q)
  BY NoneAssumption DEF SendsLineOf, PrintInfo, Printing
<1>3. /\ e \in EventType /\ e \notin Starts(p) /\ e # Preamble(p) /\ (p # q => e \notin Parts(p))
  BY <1>1, <1>2, PartsOfPrint DEF Parts
<1>4. /\ PrintOnce(p) /\ LinesFollow(p)
      /\ distributor \in Seq(EventType) /\ bridge_channel \in Seq(EventType)
  BY DEF PrintInv, TypeOK, BusTypeOK
<1>5. /\ Taken(p)' = Taken(p) /\ Begun(p)' = Begun(p) /\ req'[p] = req[p]
      /\ \A c \in Bridges : Printing(c, p)' <=> Printing(c, p)
  BY DEF Taken, Begun, SamePrints
<1>6. /\ distributor' = distributor \/ distributor' = Append(distributor, e)
      /\ bridge_channel' = bridge_channel \/ bridge_channel' = Append(bridge_channel, e)
  BY DEF SendsLineOf, Send, SendToBridge
<1>7. /\ Free(distributor, Starts(p)) => Free(distributor', Starts(p))
      /\ Leads(distributor, Starts(p), Starts(p)) => Leads(distributor', Starts(p), Starts(p))
      /\ Free(bridge_channel, Starts(p)) => Free(bridge_channel', Starts(p))
      /\ Leads(bridge_channel, Starts(p), Starts(p)) =>
            Leads(bridge_channel', Starts(p), Starts(p))
      /\ Leads(distributor, {Preamble(p)}, Parts(p)) =>
            Leads(distributor', {Preamble(p)}, Parts(p))
      /\ p # q => (Free(distributor, Parts(p)) => Free(distributor', Parts(p)))
  <2>1. ASSUME NEW S, e \notin S
        PROVE  /\ Free(distributor, S) => Free(distributor', S)
               /\ Free(bridge_channel, S) => Free(bridge_channel', S)
    <3>1. /\ Free(distributor, S) => Free(Append(distributor, e), S)
          /\ Free(bridge_channel, S) => Free(Append(bridge_channel, e), S)
      BY <1>3, <1>4, <2>1, FreeSent
    <3> QED
      BY <1>6, <3>1
  <2>2. ASSUME NEW T, NEW S, e \notin T
        PROVE  /\ Leads(distributor, T, S) => Leads(distributor', T, S)
               /\ Leads(bridge_channel, T, S) => Leads(bridge_channel', T, S)
    <3>1. /\ Leads(distributor, T, S) => Leads(Append(distributor, e), T, S)
          /\ Leads(bridge_channel, T, S) => Leads(Append(bridge_channel, e), T, S)
      BY <1>3, <1>4, <2>2, LeadsSent
    <3> QED
      BY <1>6, <3>1
  <2> QED
    BY <1>3, <2>1, <2>2
<1>8. PrintOnce(p)' /\ (Waiting(p)' => Waiting(p))
  BY <1>4, <1>5, <1>7, StillOnce
<1>9. CASE p = q
  <2>1. ~ Waiting(p)
    BY <1>2, <1>4, <1>9 DEF PrintOnce
  <2>2. Begun(p) = {}
    <3> SUFFICES ASSUME NEW c \in Begun(p)
                 PROVE  FALSE
      OBVIOUS
    <3>1. c = b /\ listener[b] = "started"
      BY <1>2, <1>4, <1>9 DEF Begun, PrintOnce
    <3>2. reader[b] = "progress"
      BY <3>1 DEF SendsLineOf, Locked
    <3> QED
      BY <3>1, <3>2 DEF PrintInv, OneHolder
  <2>3. Leads(distributor', {Preamble(p)}, Parts(p))
    BY <1>4, <1>7 DEF LinesFollow
  <2>4. ~ Waiting(p)' /\ Begun(p)' = {}
    BY <1>5, <1>8, <2>1, <2>2
  <2> QED
    BY <1>8, <2>3, <2>4 DEF KeepsPrint, LinesFollow, Early, Preamble
<1>10. CASE p # q
  BY <1>4, <1>5, <1>7, <1>8, <1>10, StillFollow
<1> QED
  BY <1>8, <1>9, <1>10

\* A step that adds what is plain, begins no print and takes no lock.
LEMMA PlainKeepsPrintInv ==
    ASSUME TypeOK, PrintInv, OneHolder', req' = req,
           AddsPlain, bridge_channel' = bridge_channel \/
                      (bridge_channel # <<>> /\ bridge_channel' = Tail(bridge_channel)),
           \A c \in Bridges, p \in Prints : Printing(c, p)' => Printing(c, p),
           \A p \in Prints : Taken(p)' \subseteq Taken(p),
           \A c \in Bridges : listener'[c] = "started" => listener[c] = "started"
    PROVE  KeepsPrints
<1> SUFFICES ASSUME NEW p \in Prints
             PROVE  KeepsPrint(p)
  BY DEF KeepsPrints
<1>1. /\ PrintOnce(p) /\ LinesFollow(p)
      /\ distributor \in Seq(EventType) /\ bridge_channel \in Seq(EventType)
  BY DEF PrintInv, TypeOK, BusTypeOK
<1>2. Passes(distributor, distributor') /\ Passes(bridge_channel, bridge_channel')
  BY DEF AddsPlain, Passes, Send
<1>3. Begun(p)' \subseteq Begun(p)
  BY DEF Begun
<1>4. PrintOnce(p)' /\ (Waiting(p)' => Waiting(p))
  BY <1>1, <1>2, Passing, StillOnce
<1> QED
  BY <1>1, <1>2, <1>3, <1>4, Passing, StillFollow

LEMMA StartKeepsPrintInv ==
    ASSUME TypeOK, PrintInv, req' = req, NEW b \in Bridges, StartStep(b) \/ TimeoutStep(b)
    PROVE  KeepsPrints
<1> USE DEF StartStep, StartAnnounces, OpenSucceeds, StartAsksFirmware, OpenFails, OpenPanics,
            TimeoutStep, TimeoutElapses, TimeoutReports, busVars, listenerVars, readerVars
<1>1. /\ StateUpdate("CONNECTING", b) \in PlainEvents /\ CreateBridgeError \in PlainEvents
      /\ OutGoing(Command("M115", None)) \in PlainEvents /\ Errored \in PlainEvents
  BY Plain DEF Commands, BridgeState, Bridges
<1>2. /\ bridge_channel' = bridge_channel /\ print_info' = print_info /\ next_print' = next_print
      /\ AddsPlain
  BY <1>1 DEF AddsPlain, PanicHook, Errored
<1>3. \A c \in Bridges :
         \/ listener'[c] = listener[c] /\ reader'[c] = reader[c]
         \/ listener'[c] = "starting" /\ reader'[c] = "reading"
  BY DEF TypeOK, BridgeTypeOK
<1>4. OneHolder'
  BY <1>3 DEF PrintInv, OneHolder
<1>5. \A c \in Bridges, p \in Prints : Printing(c, p)' => Printing(c, p)
  BY <1>2 DEF Printing
<1>6. \A p \in Prints : Taken(p)' \subseteq Taken(p)
  BY <1>2, <1>3 DEF Taken
<1> QED
  BY <1>2, <1>3, <1>4, <1>5, <1>6, PlainKeepsPrintInv

LEMMA ReaderKeepsPrintInv ==
    ASSUME TypeOK, PrintInv, req' = req, NEW b \in Bridges,
           \/ ReaderStep(b)
           \/ ReaderIoError(b)
           \/ \E l \in Lines : ReaderReceives(b, l)
    PROVE  KeepsPrints
<1>1. listener' = listener /\ next_print' = next_print /\ SamePrints
  BY ReaderSends, ReaderSendsLines
<1>2. OneHolder'
  BY <1>1, ReaderSendsLines DEF PrintInv, OneHolder, Locked
<1>3. CASE bridge_channel' = bridge_channel /\ AddsPlain
  <2>1. \A p \in Prints : Taken(p)' \subseteq Taken(p)
    BY <1>1 DEF Taken
  <2>2. \A c \in Bridges, p \in Prints : Printing(c, p)' => Printing(c, p)
    BY <1>1 DEF SamePrints
  <2> QED
    BY <1>1, <1>2, <1>3, <2>1, <2>2, PlainKeepsPrintInv
<1>4. ASSUME NEW e, SendsLineOf(b, e)
      PROVE  KeepsPrints
  <2>1. \A p \in Prints : KeepsPrint(p)
    BY <1>1, <1>2, <1>4, LineKeepsPrintInv
  <2> QED
    BY <1>2, <2>1 DEF KeepsPrints
<1> QED
  BY <1>3, <1>4, ReaderSendsLines

\* The listener takes the beginning of a print, ...
LEMMA TakingKeepsPrintInv ==
    ASSUME TypeOK, PrintInv, req' = req, NEW b \in Bridges, ListenerTakesPrintStart(b)
    PROVE  KeepsPrints
<1> DEFINE e == Head(bridge_channel)
           q == e.info.print
<1>1. /\ bridge_channel \in Seq(EventType) /\ bridge_channel # <<>> /\ e \in EventType
      /\ e.type = "PrintStart" /\ listener[b] = "running"
      /\ bridge_channel' = Tail(bridge_channel) /\ distributor' = distributor
      /\ reader' = reader /\ print_info' = print_info
      /\ distributor \in Seq(EventType)
  BY DEF ListenerTakesPrintStart, Takes, TypeOK, BusTypeOK, readerVars
<1>2. /\ listener' = [listener EXCEPT ![b] = "startCheck"]
      /\ next_print' = [next_print EXCEPT ![b] = e.info]
      /\ listener \in [Bridges -> ListenerState]
      /\ next_print \in [Bridges -> PrintInfo \cup {None}]
  BY DEF ListenerTakesPrintStart, ListenerGoesTo, TypeOK, BridgeTypeOK
<1>3. e.info \in PrintInfo
  BY <1>1, Payloads
<1>4. q \in Prints /\ \A p \in Prints : e \in Starts(p) <=> p = q
  BY <1>1, <1>3 DEF PrintInfo, Starts
<1> HIDE DEF e
<1>5. OneHolder'
  BY <1>1, <1>2 DEF PrintInv, OneHolder
<1> SUFFICES ASSUME NEW p \in Prints
             PROVE  KeepsPrint(p)
  BY <1>5 DEF KeepsPrints
<1>6. PrintOnce(p) /\ LinesFollow(p)
  BY DEF PrintInv
<1>7. /\ \A c \in Bridges : Printing(c, p)' <=> Printing(c, p)
      /\ Begun(p)' \subseteq Begun(p)
  BY <1>1, <1>2 DEF Printing, Begun
<1>8. /\ Free(bridge_channel, Starts(p)) => Free(bridge_channel', Starts(p))
      /\ Leads(bridge_channel, Starts(p), Starts(p)) =>
            Leads(bridge_channel', Starts(p), Starts(p))
      /\ e \in Starts(p) =>
            /\ ~ Free(bridge_channel, Starts(p))
            /\ Leads(bridge_channel, Starts(p), Starts(p)) => Free(bridge_channel', Starts(p))
  BY <1>1, FreeTaken, LeadsTaken DEF e
<1>9. CASE p = q
  <2>1. /\ ~ Free(bridge_channel, Starts(p)) /\ Free(bridge_channel', Starts(p))
        /\ Leads(bridge_channel', Starts(p), Starts(p))
    BY <1>4, <1>6, <1>8, <1>9 DEF PrintOnce
  <2>2. req[p] = "done" /\ Free(distributor, Starts(p)) /\ Taken(p) = {} /\ Waiting(p)
    BY <1>6, <2>1 DEF PrintOnce, Waiting
  <2>3. \A c, d \in Taken(p)' : c = d
    BY <1>2, <2>2 DEF Taken
  <2>4. PrintOnce(p)'
    BY <1>1, <1>6, <1>7, <2>1, <2>2, <2>3 DEF PrintOnce
  <2> QED
    BY <1>1, <1>6, <1>7, <2>2, <2>4, StillFollow
<1>10. CASE p # q
  <2>1. Taken(p)' \subseteq Taken(p)
    BY <1>2, <1>3, <1>4, <1>10 DEF Taken
  <2>2. PrintOnce(p)' /\ (Waiting(p)' => Waiting(p))
    BY <1>1, <1>6, <1>7, <1>8, <2>1, StillOnce
  <2> QED
    BY <1>1, <1>6, <1>7, <2>2, StillFollow
<1> QED
  BY <1>9, <1>10

\* ... begins it ...
LEMMA BeginningKeepsPrintInv ==
    ASSUME TypeOK, PrintInv, req' = req, NEW b \in Bridges, ListenerStartsPrint(b)
    PROVE  KeepsPrints
<1> DEFINE q == next_print[b].print
           e == StateUpdate("PRINTING", q)
<1>1. /\ listener[b] = "start" /\ reader[b] # "progress" /\ next_print[b] \in PrintInfo
      /\ next_print[b] # None /\ bridge_channel' = bridge_channel /\ reader' = reader
      /\ distributor' = Append(distributor, e) /\ distributor \in Seq(EventType)
  BY NoneAssumption DEF ListenerStartsPrint, Locked, TypeOK, BridgeTypeOK, BusTypeOK, Send,
                        readerVars
<1>2. /\ listener' = [listener EXCEPT ![b] = "started"]
      /\ print_info' = [print_info EXCEPT ![b] = next_print[b]]
      /\ next_print' = [next_print EXCEPT ![b] = None]
      /\ listener \in [Bridges -> ListenerState]
      /\ print_info \in [Bridges -> PrintInfo \cup {None}]
      /\ next_print \in [Bridges -> PrintInfo \cup {None}]
  BY DEF ListenerStartsPrint, ListenerGoesTo, TypeOK, BridgeTypeOK
<1>3. q \in Prints /\ e \in PlainEvents
  BY <1>1, Plain DEF PrintInfo, Prints, BridgeState
<1>4. b \in Taken(q)
  BY <1>1 DEF Taken
<1> HIDE DEF e, q
<1>5. OneHolder'
  BY <1>1, <1>2 DEF PrintInv, OneHolder
<1> SUFFICES ASSUME NEW p \in Prints
             PROVE  KeepsPrint(p)
  BY <1>5 DEF KeepsPrints
<1>6. PrintOnce(p) /\ LinesFollow(p)
  BY DEF PrintInv
<1>7. Passes(distributor, distributor')
  BY <1>1, <1>3 DEF Passes
<1>8. CASE p = q
  <2>1. /\ req[p] = "done" /\ Free(distributor, Starts(p)) /\ Free(bridge_channel, Starts(p))
        /\ Waiting(p) /\ Taken(p) = {b} /\ \A c \in Bridges : ~ Printing(c, p)
    BY <1>4, <1>6, <1>8 DEF PrintOnce, Waiting
  <2>2. Taken(p)' = {}
    BY <1>2, <2>1 DEF Taken
  <2>3. \A c \in Bridges : Printing(c, p)' => c = b
    BY <1>2, <2>1 DEF Printing
  <2>4. Free(distributor', Starts(p)) /\ Free(distributor', Parts(p))
    BY <1>1, <1>6, <1>7, <2>1, Passing DEF LinesFollow, Early
  <2>5. /\ Leads(distributor', Starts(p), Starts(p))
        /\ Leads(distributor', {Preamble(p)}, Parts(p))
    BY <1>1, <1>6, <1>7, Passing DEF PrintOnce, LinesFollow
  <2>6. ~ Waiting(p)'
    BY <1>1, <2>1, <2>2, <2>4 DEF Waiting
  <2> QED
    BY <1>1, <1>6, <2>1, <2>2, <2>3, <2>4, <2>5, <2>6
       DEF KeepsPrint, PrintOnce, LinesFollow, Early, Preamble
<1>9. CASE p # q
  <2>1. Taken(p)' \subseteq Taken(p)
    BY <1>2 DEF Taken
  <2>2. \A c \in Bridges : Printing(c, p)' => Printing(c, p) /\ c # b
    BY <1>2, <1>9 DEF Printing, q
  <2>3. Begun(p)' \subseteq Begun(p)
    BY <1>2, <2>2 DEF Begun
  <2>4. PrintOnce(p)' /\ (Waiting(p)' => Waiting(p))
    BY <1>1, <1>6, <1>7, <2>1, <2>2, Passing, StillOnce
  <2> QED
    BY <1>1, <1>6, <1>7, <2>3, <2>4, Passing, StillFollow
<1> QED
  BY <1>8, <1>9

\* ... and sends its M110 N0.
LEMMA PreambleKeepsPrintInv ==
    ASSUME TypeOK, PrintInv, req' = req, NEW b \in Bridges, ListenerSendsPreamble(b)
    PROVE  KeepsPrints
<1> DEFINE q == print_info[b].print
<1>1. /\ listener[b] = "started" /\ print_info[b] \in PrintInfo /\ print_info[b] # None
      /\ bridge_channel' = bridge_channel /\ reader' = reader /\ print_info' = print_info
      /\ next_print' = next_print
      /\ distributor' = Append(distributor, Preamble(q)) /\ distributor \in Seq(EventType)
  BY NoneAssumption DEF ListenerSendsPreamble, Locked, TypeOK, BridgeTypeOK, BusTypeOK, Send,
                        readerVars, Preamble
<1>2. /\ listener' = [listener EXCEPT ![b] = "running"]
      /\ listener \in [Bridges -> ListenerState]
  BY DEF ListenerSendsPreamble, ListenerGoesTo, TypeOK, BridgeTypeOK
<1>3. q \in Prints /\ b \in Begun(q)
  BY <1>1 DEF PrintInfo, Begun, Printing
<1> HIDE DEF q
<1>4. OneHolder'
  BY <1>1, <1>2 DEF PrintInv, OneHolder
<1> SUFFICES ASSUME NEW p \in Prints
             PROVE  KeepsPrint(p)
  BY <1>4 DEF KeepsPrints
<1>5. PrintOnce(p) /\ LinesFollow(p)
  BY DEF PrintInv
<1>6. /\ Taken(p)' \subseteq Taken(p) /\ Begun(p)' \subseteq Begun(p) \ {b}
      /\ \A c \in Bridges : Printing(c, p)' <=> Printing(c, p)
  BY <1>1, <1>2 DEF Taken, Begun, Printing
<1>7. /\ Preamble(q) \in EventType /\ Preamble(q) \notin Starts(p)
      /\ p # q => Preamble(q) \notin Parts(p) /\ Preamble(q) # Preamble(p)
  BY <1>3, PartsOfPrint DEF Parts
<1>8. /\ Free(distributor', Starts(p)) <=> Free(distributor, Starts(p))
      /\ Leads(distributor', Starts(p), Starts(p)) <=> Leads(distributor, Starts(p), Starts(p))
  BY <1>1, <1>7, FreeSent, LeadsSent
<1>9. PrintOnce(p)' /\ (Waiting(p)' => Waiting(p))
  BY <1>1, <1>5, <1>6, <1>8, StillOnce
<1>10. CASE p = q
  <2>1. Free(distributor, Parts(p)) /\ ~ Waiting(p)
    BY <1>3, <1>5, <1>10 DEF LinesFollow, Early, PrintOnce, Begun
  <2>2. Leads(distributor', {Preamble(p)}, Parts(p))
    BY <1>1, <1>5, <1>7, <1>10, <2>1, LeadsSent DEF LinesFollow
  <2>3. Begun(p)' = {}
    BY <1>3, <1>5, <1>6, <1>10 DEF Begun, PrintOnce
  <2> QED
    BY <1>9, <2>1, <2>2, <2>3 DEF KeepsPrint, LinesFollow, Early, Preamble
<1>11. CASE p # q
  <2>1. /\ Free(distributor, Parts(p)) => Free(distributor', Parts(p))
        /\ Leads(distributor, {Preamble(p)}, Parts(p)) =>
              Leads(distributor', {Preamble(p)}, Parts(p))
    BY <1>1, <1>7, <1>11, FreeSent, LeadsSent
  <2> QED
    BY <1>5, <1>6, <1>9, <2>1, StillFollow
<1> QED
  BY <1>9, <1>10, <1>11

LEMMA ListenerKeepsPrintInv ==
    ASSUME TypeOK, PrintInv, req' = req, NEW b \in Bridges, ListenerStep(b)
    PROVE  KeepsPrints
<1>1. CASE /\ ~ ListenerTakesPrintStart(b) /\ ~ ListenerStartsPrint(b)
           /\ ~ ListenerSendsPreamble(b)
  <2> USE DEF ListenerStep, ListenerStarts, ListenerPanics, ListenerKilled, ListenerWrites,
              ListenerTakesPrintEnd, ListenerChecks, ListenerEndsPrint, Takes, busVars,
              listenerVars, readerVars, ListenerGoesTo
  <2>1. /\ next_print' = next_print /\ reader' = reader
        /\ \/ print_info' = print_info
           \/ print_info' = [print_info EXCEPT ![b] = None]
        /\ \/ bridge_channel' = bridge_channel
           \/ bridge_channel # <<>> /\ bridge_channel' = Tail(bridge_channel)
    BY <1>1
  <2>2. Errored \in PlainEvents /\ StateUpdate("CONNECTED", None) \in PlainEvents
    BY Plain DEF BridgeState
  <2>3. AddsPlain
    BY <1>1, <2>2 DEF AddsPlain, PanicHook, Errored
  <2>4. \A c \in Bridges :
           /\ listener'[c] = "started" => listener[c] = "started"
           /\ listener'[c] \in {"startCheck", "start"} => listener[c] \in {"startCheck", "start"}
    BY <1>1 DEF TypeOK, BridgeTypeOK
  <2>5. OneHolder'
    BY <2>1, <2>4 DEF PrintInv, OneHolder
  <2>6. \A p \in Prints : Taken(p)' \subseteq Taken(p)
    BY <2>1, <2>4 DEF Taken
  <2>7. \A c \in Bridges, p \in Prints : Printing(c, p)' => Printing(c, p)
    BY <2>1 DEF Printing, TypeOK, BridgeTypeOK
  <2> HIDE DEF ListenerStep
  <2> QED
    BY <2>1, <2>3, <2>4, <2>5, <2>6, <2>7, PlainKeepsPrintInv
<1> QED
  BY <1>1, TakingKeepsPrintInv, BeginningKeepsPrintInv, PreambleKeepsPrintInv

LEMMA PrintInvHolds == Spec => [](TypeOK /\ PrintInv)
<1>1. Init => PrintInv
  <2> SUFFICES ASSUME Init
               PROVE  PrintInv
    OBVIOUS
  <2>1. \A b \in Bridges : listener[b] = "none" /\ print_info[b] = None
    BY DEF Init, BridgeInit
  <2>2. distributor = <<>> /\ bridge_channel = <<>>
    BY DEF Init, BusInit
  <2>3. \A S, T : /\ Free(distributor, S) /\ Free(bridge_channel, S)
                  /\ Leads(distributor, T, S) /\ Leads(bridge_channel, T, S)
    BY <2>2 DEF Free, Leads
  <2>4. \A p \in Prints : Taken(p) = {} /\ Begun(p) = {} /\ \A b \in Bridges : ~ Printing(b, p)
    BY <2>1 DEF Taken, Begun, Printing
  <2> QED
    BY <2>1, <2>3, <2>4 DEF PrintInv, OneHolder, PrintOnce, LinesFollow
<1>2. TypeOK /\ PrintInv /\ [Next]_vars => PrintInv'
  <2> SUFFICES ASSUME TypeOK, PrintInv, [Next]_vars
               PROVE  PrintInv'
    OBVIOUS
  <2> SUFFICES KeepsPrints
    BY DEF KeepsPrints, KeepsPrint, PrintInv
  <2>1. CASE ManagerNext
    BY <2>1, ManagerKeepsPrintInv
  <2>2. ASSUME NEW b \in Bridges, BridgeNext(b)
        PROVE  KeepsPrints
    <3>1. req' = req
      BY <2>2 DEF BridgeNext, routesVars
    <3> QED
      BY <2>2, <3>1, StartKeepsPrintInv, ListenerKeepsPrintInv, ReaderKeepsPrintInv
         DEF BridgeNext, BridgeStep
  <2>3. ASSUME NEW r \in Requests, RouteNext(r)
        PROVE  KeepsPrints
    BY <2>3, RouteKeepsPrintInv
  <2>4. CASE UNCHANGED vars
    <3>1. UNCHANGED <<distributor, bridge_channel, listener, reader, next_print, print_info, req>>
      BY <2>4 DEF vars, busVars, bridgeVars, routesVars, listenerVars, readerVars
    <3>2. OneHolder'
      BY <3>1 DEF PrintInv, OneHolder
    <3>3. AddsPlain
      BY <3>1 DEF AddsPlain
    <3>4. \A p \in Prints : Taken(p)' \subseteq Taken(p)
      BY <3>1 DEF Taken
    <3>5. \A c \in Bridges, p \in Prints : Printing(c, p)' => Printing(c, p)
      BY <3>1 DEF Printing
    <3> QED
      BY <3>1, <3>2, <3>3, <3>4, <3>5, PlainKeepsPrintInv
  <2> QED
    BY <2>1, <2>2, <2>3, <2>4 DEF Next
<1> QED
  BY <1>1, <1>2, TypeCorrect, PTL DEF Spec

\* No line of a print is queued ahead of the M110 N0 that resets the printer's
\* line counter for it.
THEOREM PreamblesLead == Spec => []PreambleFirst
<1>1. TypeOK /\ PrintInv => PreambleFirst
  <2> SUFFICES ASSUME TypeOK, PrintInv, NEW p \in Prints,
                      NEW i \in 1 .. Len(distributor), NEW j \in 1 .. Len(distributor),
                      IsLineOf(distributor[i], p), distributor[j] = Preamble(p)
               PROVE  j < i
    BY DEF PreambleFirst
  <2>1. distributor \in Seq(EventType) /\ Leads(distributor, {Preamble(p)}, Parts(p))
    BY DEF TypeOK, BusTypeOK, PrintInv, LinesFollow
  <2>2. distributor[i] \in Parts(p)
    BY <2>1 DEF Parts
  <2>3. ~ i < j
    BY <2>1, <2>2 DEF Leads
  <2>4. i # j
    <3>1. Preamble(p).message.command = "M110 N0"
      BY DEF Preamble, OutGoing, Command
    <3> QED
      BY <3>1 DEF IsLineOf
  <2> QED
    BY <2>1, <2>3, <2>4
<1> QED
  BY <1>1, PrintInvHolds, PTL
=============================================================================
