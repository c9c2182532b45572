------------------------- MODULE RegiloVisualProofs -------------------------
(***************************************************************************)
(* Proofs about RegiloVisual: for every set of command lines the threads   *)
(* exclude each other where they have to, the device is used between       *)
(* switching it on and off, and scanning stops at the end of the log.      *)
(***************************************************************************)
EXTENDS RegiloVisual, Integers, TLAPS

GuiAt == {"setLog", "switchOn", "init", "loop", "scanAndShow", "scanning", "post", "drive",
          "driving", "repaint", "drawRadar", "points", "drawPoints", "exit", "join",
          "switchOff", "end", "aborted"}
ScanAt == {"none", "test", "scanAndShow", "scanning", "post", "check", "enter", "wait",
           "ended", "aborted"}
RadarAt == {"none", "test", "turn", "turning", "post", "check", "enter", "wait", "ended",
            "aborted"}

\* Where each thread may be.
Places ==
  /\ pc \in [Thread -> GuiAt \cup ScanAt \cup RadarAt]
  /\ pc["gui"] \in GuiAt
  /\ pc["scan"] \in ScanAt
  /\ pc["radar"] \in RadarAt
  /\ IF cause = "none" THEN \A t \in Thread : pc[t] # "aborted"
                       ELSE \A t \in Thread : pc[t] = "aborted"

\* Who holds a mutex is between its lock() and unlock().
Locks ==
  /\ holder \in [Mutex -> Thread \cup {Nobody}]
  /\ cause = "none" => \A m \in Mutex, t \in Thread : holder[m] = t <=> Holds(t, m)

\* The other threads exist after OnInit and have ended after OnExit.
Phases ==
  /\ pc["gui"] \in {"setLog", "switchOn", "init"} => pc["scan"] = "none" /\ pc["radar"] = "none"
  /\ pc["gui"] \in {"switchOff", "end"} => {pc["scan"], pc["radar"]} \subseteq {"none", "ended"}

\* The LIDAR of a Neato turns from switchOn to switchOff.
Rotation ==
  /\ ~Switched => ~rotating
  /\ Switched /\ pc["gui"] \notin {"setLog", "switchOn", "end", "aborted"} => rotating
  /\ pc["gui"] = "end" => ~rotating
  /\ pc["gui"] \in {"switchOn", "switchOff"} => Switched

\* With automatic scanning only the scan thread scans, and not after an empty scan.
Ending ==
  /\ Automatic => pc["gui"] \notin {"scanAndShow", "scanning", "post"}
  /\ pc["gui"] \in {"setLog", "switchOn", "init"} => data = "none"
  /\ Automatic /\ data = "empty" =>
       ~scanThreadRunning /\ pc["scan"] \notin {"scanAndShow", "scanning"}

IInv == Places /\ Locks /\ Phases /\ Rotation /\ Ending

LEMMA InitIInv == Init => IInv
  BY RegiloVisualAssumption DEF Init, IInv, Places, Locks, Phases, Rotation, Ending, Thread, Mutex,
     GuiAt, ScanAt, RadarAt, Holds, Switched, Automatic

\* main() before and after the event loop.
LEMMA MainIInv == IInv /\ Main => IInv'
<1> SUFFICES ASSUME IInv, Main PROVE IInv'
  OBVIOUS
<1> USE DEF IInv, Places, Locks, Phases, Rotation, Ending, Thread, Mutex, GuiAt, ScanAt, RadarAt,
            Holds, Switched, Automatic, Goto, Move, shown
<1>1. CASE SetLog
  BY <1>1 DEF SetLog, Abort
<1>2. CASE Switch("switchOn", TRUE, "init")
  BY <1>2 DEF Switch
<1>3. CASE OnInit
  BY <1>3 DEF OnInit
<1>4. CASE OnExit
  BY <1>4 DEF OnExit, stopScanThread
<1>5. CASE Join
  BY <1>5 DEF Join
<1>6. CASE Switch("switchOff", FALSE, "end")
  BY <1>6 DEF Switch
<1> QED
  BY <1>1, <1>2, <1>3, <1>4, <1>5, <1>6 DEF Main

\* scanAndShow, on either thread.
LEMMA ScanIInv == ASSUME NEW t \in {"gui", "scan"} PROVE IInv /\ ScanAndShow(t) => IInv'
<1> SUFFICES ASSUME IInv, ScanAndShow(t) PROVE IInv'
  OBVIOUS
<1> USE RegiloVisualAssumption DEF IInv, Places, Locks, Phases, Rotation, Ending, Thread, Mutex, GuiAt,
        ScanAt, RadarAt, Holds, Switched, Automatic, Goto, Move, Unlock
<1>1. CASE Acquire(t, "controllerMutex", "scanAndShow", "scanning")
  BY <1>1 DEF Acquire, shown
<1>2. CASE EndScan(t)
  BY <1>2 DEF EndScan, stopScanThread
<1>3. CASE Throw(t)
  BY <1>3 DEF Throw, Abort
<1>4. CASE Post(t)
  <2>1. CASE Abort("window")
    BY <2>1 DEF Abort
  <2>2. CASE ~Abort("window")
    <3>1. pc[t] = "post" /\ cause = "none"
      BY <1>4 DEF Post
    <3>2. UNCHANGED <<args, holder, rotating, cause, data, scanThreadRunning>>
      BY <1>4, <2>2 DEF Post
    <3>3. /\ t = "gui" => pc' = [pc EXCEPT !["gui"] = "drive"]
                            \/ pc' = [pc EXCEPT !["gui"] = "loop"]
          /\ t = "scan" => pc' = [pc EXCEPT !["scan"] = "check"]
      BY <1>4, <2>2 DEF Post
    <3>4. CASE t = "gui"
      BY <3>1, <3>2, <3>3, <3>4
    <3>5. CASE t = "scan"
      BY <3>1, <3>2, <3>3, <3>5
    <3> QED
      BY <3>4, <3>5
  <2> QED
    BY <2>1, <2>2
<1> QED
  BY <1>1, <1>2, <1>3, <1>4 DEF ScanAndShow

\* The loops of the two other threads.
LEMMA LoopIInv == ASSUME NEW t \in {"scan", "radar"} PROVE IInv /\ Loop(t) => IInv'
<1> SUFFICES ASSUME IInv, Loop(t) PROVE IInv'
  OBVIOUS
<1> USE DEF IInv, Places, Locks, Phases, Rotation, Ending, Thread, Mutex, GuiAt, ScanAt, RadarAt,
            Holds, Switched, Automatic, Goto, Move, shown
<1>1. CASE Test(t)
  BY <1>1 DEF Test
<1>2. CASE Check(t)
  BY <1>2 DEF Check
<1>3. CASE Enter(t)
  BY <1>3 DEF Enter
<1>4. CASE WaitEnds(t)
  BY <1>4 DEF WaitEnds
<1> QED
  BY <1>1, <1>2, <1>3, <1>4 DEF Loop

LEMMA RadarIInv == IInv /\ (TurnRadar \/ Post("radar")) => IInv'
<1> SUFFICES ASSUME IInv, TurnRadar \/ Post("radar") PROVE IInv'
  OBVIOUS
<1> USE RegiloVisualAssumption DEF IInv, Places, Locks, Phases, Rotation, Ending, Thread, Mutex, GuiAt,
        ScanAt, RadarAt, Holds, Switched, Automatic, Goto, Unlock
<1>1. CASE Acquire("radar", "radarMutex", "turn", "turning")
  BY <1>1 DEF Acquire, shown
<1>2. CASE Release("radar", "radarMutex", "turning", "post")
  BY <1>2 DEF Release, shown
<1>3. CASE Post("radar")
  BY <1>3 DEF Post, Abort
<1> QED
  BY <1>1, <1>2, <1>3 DEF TurnRadar

\* The event handlers of the main thread.
LEMMA HandlerIInv == IInv /\ (Event \/ Drive \/ Repaint) => IInv'
<1> SUFFICES ASSUME IInv, Event \/ Drive \/ Repaint PROVE IInv'
  OBVIOUS
<1> USE RegiloVisualAssumption DEF IInv, Places, Locks, Phases, Rotation, Ending, Thread, Mutex, GuiAt,
        ScanAt, RadarAt, Holds, Switched, Automatic, Goto, Move, Unlock
<1>1. CASE Event
  BY <1>1 DEF Event, Arrow, Space, KeyS, Close, shown
<1>2. CASE Drive
  BY <1>2 DEF Drive, Driven, Acquire, Release, shown
<1>3. CASE Repaint
  BY <1>3 DEF Repaint, Acquire, Release, shown
<1> QED
  BY <1>1, <1>2, <1>3

LEMMA NextIInv == IInv /\ [Next]_vars => IInv'
<1> SUFFICES ASSUME IInv, [Next]_vars PROVE IInv'
  OBVIOUS
<1>1. CASE Event
  BY <1>1, HandlerIInv
<1>2. CASE GuiStep
  BY <1>2, MainIInv, ScanIInv, HandlerIInv DEF GuiStep
<1>3. CASE ScanStep
  BY <1>3, LoopIInv, ScanIInv DEF ScanStep
<1>4. CASE RadarStep
  BY <1>4, LoopIInv, RadarIInv DEF RadarStep
<1>5. CASE UNCHANGED vars
  BY <1>5 DEF vars, shown, IInv, Places, Locks, Phases, Rotation, Ending, Holds, Switched, Automatic
<1> QED
  BY <1>1, <1>2, <1>3, <1>4, <1>5 DEF Next

THEOREM Invariant == Spec => []IInv
<1> QED
  BY InitIInv, NextIInv, PTL DEF Spec

\* Exclusive, the use of the controller, the scan and the radar's angle by one thread
\* at a time, for every command line (regilovisual.cpp:393,362,125 and :150).
THEOREM ThreadsExclude == Spec => []Exclusive
<1>1. IInv => Exclusive
  <2> SUFFICES ASSUME IInv, NEW what \in {"device", "data", "radarAngle"},
                      NEW t \in Thread, NEW u \in Thread, Uses(t, what), Uses(u, what)
               PROVE t = u
    BY DEF Exclusive
  <2> QED
    BY DEF IInv, Places, Locks, Phases, Uses, Holds, Thread, Mutex, GuiAt, ScanAt, RadarAt
<1> QED
  BY <1>1, Invariant, PTL

\* ScansWhileRotating: a Neato scans between setLdsRotation(true) and
\* setLdsRotation(false), and main() ends with nobody using the device (main.cpp:105-124).
THEOREM ScansBetweenSwitches == Spec => []ScansWhileRotating
<1>1. ASSUME IInv, Switched, NEW t \in Thread, pc[t] = "scanning" PROVE rotating
  BY <1>1 DEF IInv, Places, Phases, Rotation, Thread, GuiAt, ScanAt, RadarAt
<1>2. ASSUME IInv, pc["gui"] = "end" PROVE ~rotating /\ \A t \in Thread : ~Uses(t, "device")
  BY <1>2 DEF IInv, Phases, Rotation, Uses, Thread
<1>3. IInv => ScansWhileRotating
  BY <1>1, <1>2 DEF ScansWhileRotating
<1> QED
  BY <1>3, Invariant, PTL

\* StopsAtEnd: after an empty scan the scan thread asks for no other one
\* (regilovisual.cpp:395).
THEOREM NoScanAfterEnd == Spec => []StopsAtEnd
<1>1. IInv => StopsAtEnd
  BY DEF IInv, Ending, StopsAtEnd
<1> QED
  BY <1>1, Invariant, PTL
-----------------------------------------------------------------------------
(* Types: a thread in wait_for is one of the two loops, so only they are notified. *)

Types ==
  /\ args \in Arguments
  /\ scanThreadRunning \in BOOLEAN
  /\ drives \in BOOLEAN
  /\ window \in BOOLEAN
  /\ rotating \in BOOLEAN
  /\ notified \subseteq {"scan", "radar"}
  /\ data \in {"none", "scan", "empty"}
  /\ cause \in {"none", "exception", "log", "window"}

LEMMA InitTypes == Init => Types
  BY DEF Init, Types

\* stopScanThread() notifies the threads in wait_for: never the main thread.
LEMMA StopTypes ==
  ASSUME Places, Types, stopScanThread
  PROVE  scanThreadRunning' \in BOOLEAN /\ notified' \subseteq {"scan", "radar"}
<1>1. {t \in Thread : pc[t] = "wait"} \subseteq {"scan", "radar"}
  BY DEF Places, Thread, GuiAt
<1> QED
  BY <1>1 DEF stopScanThread, Types

LEMMA NextTypes == Places /\ Types /\ [Next]_vars => Types'
<1> SUFFICES ASSUME Places, Types, [Next]_vars PROVE Types'
  OBVIOUS
<1> USE DEF Goto, Move, Acquire, Release, Abort, shown
<1>1. CASE Event
  BY <1>1 DEF Types, Event, Arrow, Space, KeyS, Close
<1>2. CASE Main
  <2>1. CASE SetLog
    BY <2>1 DEF Types, SetLog
  <2>2. CASE Switch("switchOn", TRUE, "init") \/ Switch("switchOff", FALSE, "end")
    BY <2>2 DEF Types, Switch
  <2>3. CASE OnInit
    BY <2>3 DEF Types, OnInit, Automatic
  <2>4. CASE OnExit
    BY <2>4, StopTypes DEF Types, OnExit
  <2>5. CASE Join
    BY <2>5 DEF Types, Join
  <2> QED
    BY <1>2, <2>1, <2>2, <2>3, <2>4, <2>5 DEF Main
<1>3. ASSUME NEW t \in Thread, ScanAndShow(t) PROVE Types'
  <2>1. CASE Acquire(t, "controllerMutex", "scanAndShow", "scanning")
    BY <2>1 DEF Types
  <2>2. CASE EndScan(t)
    BY <2>2, StopTypes DEF Types, EndScan
  <2>3. CASE Throw(t)
    BY <2>3 DEF Types, Throw
  <2>4. CASE Post(t)
    BY <2>4 DEF Types, Post
  <2> QED
    BY <1>3, <2>1, <2>2, <2>3, <2>4 DEF ScanAndShow
<1>4. ASSUME NEW t \in Thread, Loop(t) PROVE Types'
  BY <1>4 DEF Types, Loop, Test, Check, Enter, WaitEnds
<1>5. CASE Drive \/ Repaint \/ TurnRadar
  BY <1>5 DEF Types, Drive, Driven, Repaint, TurnRadar
<1>6. CASE Post("radar")
  BY <1>6 DEF Types, Post
<1>7. CASE UNCHANGED vars
  BY <1>7 DEF Types, vars
<1> QED
  BY <1>1, <1>2, <1>3, <1>4, <1>5, <1>6, <1>7 DEF Next, GuiStep, ScanStep, RadarStep, Thread

\* TypeOK: the members of RegiloVisual keep their types, and a mutex is held by the
\* thread between its lock() and unlock() and by no other (regilovisual.hpp:42-71,
\* regilovisual.cpp:123-127,362-367,391-402).
THEOREM TypeCorrect == Spec => []TypeOK
<1>1. IInv /\ Types => TypeOK
  BY DEF IInv, Locks, Types, TypeOK
<1>2. IInv /\ Types /\ [Next]_vars => Types'
  BY NextTypes DEF IInv
<1> QED
  BY <1>1, <1>2, InitTypes, Invariant, PTL DEF Spec
-----------------------------------------------------------------------------
(* How long closing the program can take *)

\* How many steps a thread that is at p takes at most to its end when nobody scans any
\* more.
StepsFrom(p) ==
  CASE p \in {"none", "ended", "aborted"} -> 0
    [] p = "test" -> 1
    [] p \in {"check", "wait"} -> 2
    [] p \in {"enter", "post"} -> 3
    [] p \in {"scanning", "turning"} -> 4
    [] p \in {"scanAndShow", "turn"} -> 5
StepsLeft == StepsFrom(pc["scan"]) + StepsFrom(pc["radar"])
JoinComesNearer == [][pc["gui"] = "join" => pc["gui"]' # "join" \/ StepsLeft' < StepsLeft]_vars

\* After OnExit nothing starts the threads again.
Stopped == pc["gui"] = "join" => ~scanThreadRunning

LEMMA StoppedNext == IInv /\ Stopped /\ [Next]_vars => Stopped'
<1> SUFFICES ASSUME Places, Stopped, [Next]_vars, pc'["gui"] = "join" PROVE ~scanThreadRunning'
  BY DEF IInv, Stopped
<1> USE DEF Places, Stopped, Thread, Goto, Move, stopScanThread, shown
<1>1. CASE Event
  BY <1>1 DEF Event, Arrow, Space, KeyS, Close
<1>2. CASE Main
  BY <1>2 DEF Main, SetLog, Abort, Switch, OnInit, OnExit, Join
<1>3. ASSUME NEW t \in Thread, ScanAndShow(t) PROVE ~scanThreadRunning'
  BY <1>3 DEF ScanAndShow, Acquire, EndScan, Throw, Post, Abort
<1>4. ASSUME NEW t \in Thread, Loop(t) PROVE ~scanThreadRunning'
  BY <1>4 DEF Loop, Test, Check, Enter, WaitEnds
<1>5. CASE Drive \/ Repaint \/ TurnRadar
  BY <1>5 DEF Drive, Driven, Repaint, TurnRadar, Acquire, Release
<1>6. CASE Post("radar")
  BY <1>6 DEF Post, Abort
<1>7. CASE UNCHANGED vars
  BY <1>7 DEF vars
<1> QED
  BY <1>1, <1>2, <1>3, <1>4, <1>5, <1>6, <1>7 DEF Next, GuiStep, ScanStep, RadarStep

\* Where a step takes the scan thread or the radar thread, and that it leaves the other
\* one where it is.
LEMMA ThreadStep ==
  ASSUME Places, ~scanThreadRunning, NEW t \in {"scan", "radar"},
         Loop(t) \/ (t = "scan" /\ ScanAndShow(t)) \/ (t = "radar" /\ (TurnRadar \/ Post(t)))
  PROVE  \/ pc'["gui"] = "aborted"
         \/ \E p \in {<<"test", "ended">>, <<"check", "test">>, <<"enter", "wait">>, <<"wait", "test">>,
                      <<"scanAndShow", "scanning">>, <<"scanning", "post">>, <<"post", "check">>,
                      <<"turn", "turning">>, <<"turning", "post">>} :
              pc[t] = p[1] /\ pc' = [pc EXCEPT ![t] = p[2]]
<1> USE DEF Goto, Move
<1>1. CASE Loop(t)
  BY <1>1 DEF Loop, Test, Check, Enter, WaitEnds
<1>2. CASE t = "scan" /\ ScanAndShow(t)
  BY <1>2 DEF ScanAndShow, Acquire, EndScan, Throw, Post, Abort, Thread
<1>3. CASE t = "radar" /\ (TurnRadar \/ Post(t))
  BY <1>3 DEF TurnRadar, Acquire, Release, Post, Abort, Thread
<1> QED
  BY <1>1, <1>2, <1>3

\* While main() waits for its two threads every step of theirs brings them nearer to
\* their end, whatever they were doing when the window was closed, or ends the program:
\* after ten of them nothing is left to wait for (regilovisual.cpp:105-154,389-404).
THEOREM JoinsInTime == Spec => [](StepsLeft \in 0 .. 10) /\ JoinComesNearer
<1>1. Places => StepsLeft \in 0 .. 10
  <2> SUFFICES ASSUME Places PROVE StepsLeft \in 0 .. 10
    OBVIOUS
  <2>1. StepsFrom(pc["scan"]) \in 0 .. 5
    BY DEF Places, ScanAt, StepsFrom
  <2>2. StepsFrom(pc["radar"]) \in 0 .. 5
    BY DEF Places, RadarAt, StepsFrom
  <2> QED
    BY <2>1, <2>2 DEF StepsLeft
<1>2. Init => Stopped
  BY DEF Init, Stopped, Thread
<1>3. IInv /\ Stopped /\ [Next]_vars
      => [pc["gui"] = "join" => pc["gui"]' # "join" \/ StepsLeft' < StepsLeft]_vars
  <2> SUFFICES ASSUME Places, ~scanThreadRunning, Next, pc["gui"] = "join", pc'["gui"] = "join"
               PROVE  StepsLeft' < StepsLeft
    BY DEF IInv, Stopped
  <2>1. PICK t \in {"scan", "radar"} :
          Loop(t) \/ (t = "scan" /\ ScanAndShow(t)) \/ (t = "radar" /\ (TurnRadar \/ Post(t)))
    <3>1. ~Event
      BY DEF Event, Arrow, Space, KeyS, Close, Goto, Move
    <3>2. ~GuiStep
      <4>1. ~Main
        BY DEF Main, SetLog, Switch, OnInit, OnExit, Join, Abort, Goto, Move, Places, Thread
      <4>2. ~ScanAndShow("gui")
        BY DEF ScanAndShow, Acquire, EndScan, Throw, Post, Goto
      <4>3. ~Drive /\ ~Repaint
        BY DEF Drive, Driven, Repaint, Acquire, Release, Goto
      <4> QED
        BY <4>1, <4>2, <4>3 DEF GuiStep
    <3> QED
      BY <3>1, <3>2 DEF Next, ScanStep, RadarStep
  <2>2. PICK p \in {<<"test", "ended">>, <<"check", "test">>, <<"enter", "wait">>, <<"wait", "test">>,
                    <<"scanAndShow", "scanning">>, <<"scanning", "post">>, <<"post", "check">>,
                    <<"turn", "turning">>, <<"turning", "post">>} :
          pc[t] = p[1] /\ pc' = [pc EXCEPT ![t] = p[2]]
    BY <2>1, ThreadStep
  <2>3. StepsFrom(p[2]) < StepsFrom(p[1])
    BY <2>2 DEF StepsFrom
  <2>4. StepsFrom(pc["scan"]) \in Int /\ StepsFrom(pc["radar"]) \in Int /\ StepsFrom(p[2]) \in Int
    BY <2>2 DEF StepsFrom, Places, ScanAt, RadarAt
  <2>5. CASE t = "scan"
    <3>1. pc'["scan"] = p[2] /\ pc'["radar"] = pc["radar"] /\ pc["scan"] = p[1]
      BY <2>2, <2>5 DEF Places, Thread
    <3> QED
      BY <2>3, <2>4, <3>1 DEF StepsLeft
  <2>6. CASE t = "radar"
    <3>1. pc'["radar"] = p[2] /\ pc'["scan"] = pc["scan"] /\ pc["radar"] = p[1]
      BY <2>2, <2>6 DEF Places, Thread
    <3> QED
      BY <2>3, <2>4, <3>1 DEF StepsLeft
  <2> QED
    BY <2>5, <2>6
<1>4. IInv => Places
  BY DEF IInv
<1> QED
  BY <1>1, <1>2, <1>3, <1>4, StoppedNext, Invariant, PTL DEF Spec, JoinComesNearer
=============================================================================
