---------------------------- MODULE RegiloVisual ----------------------------
(***************************************************************************)
(* examples/regilo-visual: the program that scans, drives and draws with   *)
(* one controller from two threads, next to a third one that turns the     *)
(* radar.  The thread "gui" is the main thread: it prepares the device,    *)
(* runs the event loop of wxWidgets, joins the others and puts the device  *)
(* back to rest.                                                           *)
(*                                                                         *)
(* An exception that leaves a thread ends the program (std::terminate),    *)
(* and so does a call through the null pointer that GetTopWindow() returns *)
(* once the frame is destroyed.                                            *)
(***************************************************************************)
CONSTANTS
  Arguments, \* the command lines: the device and its protocol, -l, -m and -a
  Nobody

CommandLine == [{"neato", "fromDevice", "logPath", "manualScanning", "moveScanning"} -> BOOLEAN]
Thread == {"gui", "scan", "radar"}
Mutex == {"controllerMutex", "radarMutex"}

ASSUME RegiloVisualAssumption ==
  /\ Arguments \subseteq CommandLine
  /\ Nobody \notin Thread

VARIABLES
  pc,
  args,
  scanThreadRunning,
  notified,  \* the threads in wait_for that a notify_one has reached
  holder,    \* who holds each mutex
  drives,    \* has the key handler still to drive?
  data,      \* "none", "scan" or "empty"
  window,    \* does the frame exist?
  rotating,  \* does the LIDAR of a Neato turn?
  cause      \* what ended the program before its time

shown == <<drives, data, window, rotating, cause>>
vars == <<pc, args, scanThreadRunning, notified, holder, shown>>

Switched == args.fromDevice /\ args.neato
Automatic == ~args.manualScanning /\ ~args.moveScanning

\* No constructor sets scanThreadRunning; OnInit does, for automatic scanning only.
Init ==
  /\ args \in Arguments
  /\ pc = [t \in Thread |-> IF t = "gui" THEN "setLog" ELSE "none"]
  /\ scanThreadRunning \in BOOLEAN
  /\ notified = {}
  /\ holder = [m \in Mutex |-> Nobody]
  /\ drives = FALSE
  /\ data = "none"
  /\ window = FALSE
  /\ rotating = FALSE
  /\ cause = "none"

Goto(t, from, to) == pc[t] = from /\ pc' = [pc EXCEPT ![t] = to]
Move(t, from, to) ==
  Goto(t, from, to) /\ UNCHANGED <<args, scanThreadRunning, notified, holder, shown>>

\* Mutant: the mutex is taken from whoever holds it.
AcquireUnguarded(t, m, from, to) ==
  /\ Goto(t, from, to)
  /\ holder' = [holder EXCEPT ![m] = t]
  /\ UNCHANGED <<args, scanThreadRunning, notified, shown>>

Acquire(t, m, from, to) ==
  /\ Goto(t, from, to)
  /\ holder[m] = Nobody
  /\ holder' = [holder EXCEPT ![m] = t]
  /\ UNCHANGED <<args, scanThreadRunning, notified, shown>>

Unlock(m) == holder' = [holder EXCEPT ![m] = Nobody]
Release(t, m, from, to) ==
  Goto(t, from, to) /\ Unlock(m) /\ UNCHANGED <<args, scanThreadRunning, notified, shown>>

Abort(why) ==
  /\ pc' = [t \in Thread |-> "aborted"]
  /\ cause' = why
  /\ UNCHANGED <<args, scanThreadRunning, notified, holder, drives, data, window, rotating>>

\* A command throws when the device is lost or was never there, the parser of a
\* scan when it does not understand a number.
Throw(t) ==
  /\ \/ pc[t] \in {"switchOn", "scanning", "driving", "switchOff"}
     \/ pc[t] = "setLog" /\ args.fromDevice  \* connect()
  /\ Abort("exception")

\* notify_one is called without the mutex: who is about to wait misses it.
stopScanThread ==
  /\ scanThreadRunning' = FALSE
  /\ notified' = IF scanThreadRunning THEN {t \in Thread : pc[t] = "wait"} \cup notified
                 ELSE notified

-----------------------------------------------------------------------------
(* main() around Display, OnInit and OnExit *)

\* With a device and without -l the pointer `log' is not initialised: it may be
\* null, and anything else ends the program.
SetLog ==
  \/ Move("gui", "setLog", IF Switched THEN "switchOn" ELSE "init")
  \/ pc["gui"] = "setLog" /\ args.fromDevice /\ ~args.logPath /\ Abort("log")

\* setTestMode(b) and setLdsRotation(b)
Switch(from, b, to) ==
  /\ Goto("gui", from, to)
  /\ rotating' = b
  /\ UNCHANGED <<args, scanThreadRunning, notified, holder, drives, data, window, cause>>

OnInit ==
  /\ pc["gui"] = "init"
  /\ pc' = [t \in Thread |-> CASE t = "gui" -> "loop"
                               [] t = "scan" -> IF Automatic THEN "test" ELSE "none"
                               [] t = "radar" -> "test"]
  /\ scanThreadRunning' = (Automatic \/ scanThreadRunning)
  /\ window' = TRUE
  /\ UNCHANGED <<args, notified, holder, drives, data, rotating, cause>>

\* The frame is closed, which ends the event loop.
Close ==
  /\ Goto("gui", "loop", "exit")
  /\ window' = FALSE
  /\ UNCHANGED <<args, scanThreadRunning, notified, holder, drives, data, rotating, cause>>

OnExit == Goto("gui", "exit", "join") /\ stopScanThread /\ UNCHANGED <<args, holder, shown>>

\* Mutant: the scan thread is not joined.
JoinRadar ==
  /\ pc["radar"] \in {"none", "ended"}
  /\ Move("gui", "join", IF Switched THEN "switchOff" ELSE "end")

Join ==
  /\ {pc["scan"], pc["radar"]} \subseteq {"none", "ended"}
  /\ Move("gui", "join", IF Switched THEN "switchOff" ELSE "end")

Main == SetLog \/ Switch("switchOn", TRUE, "init") \/ OnInit
        \/ OnExit \/ Join \/ Switch("switchOff", FALSE, "end")

-----------------------------------------------------------------------------
(* scanAndShow, on the scan thread or in a key handler *)

\* Mutant: an empty scan is a scan like any other.
EndScanOnly(t) ==
  /\ Goto(t, "scanning", "post")
  /\ data' \in {"scan", "empty"}
  /\ Unlock("controllerMutex")
  /\ UNCHANGED <<args, scanThreadRunning, notified, drives, window, rotating, cause>>

\* getScan returns a scan, or an empty one when it is refused or the log has ended.
EndScan(t) ==
  /\ Goto(t, "scanning", "post")
  /\ data' \in {"scan", "empty"}
  /\ IF data' = "empty" THEN stopScanThread ELSE UNCHANGED <<scanThreadRunning, notified>>
  /\ Unlock("controllerMutex")
  /\ UNCHANGED <<args, drives, window, rotating, cause>>

\* GetTopWindow()->GetEventHandler()->CallAfter(...)
Post(t) ==
  \/ /\ window
     /\ Goto(t, "post", IF t # "gui" THEN "check" ELSE IF drives THEN "drive" ELSE "loop")
     /\ drives' = IF t = "gui" THEN FALSE ELSE drives
     /\ UNCHANGED <<args, scanThreadRunning, notified, holder, data, window, rotating, cause>>
  \/ pc[t] = "post" /\ ~window /\ Abort("window")

ScanAndShow(t) ==
  Acquire(t, "controllerMutex", "scanAndShow", "scanning") \/ EndScan(t) \/ Throw(t) \/ Post(t)

-----------------------------------------------------------------------------
(* The loops of the scan thread and of the radar thread *)

Test(t) ==
  Move(t, "test", IF ~scanThreadRunning THEN "ended"
                  ELSE IF t = "scan" THEN "scanAndShow" ELSE "turn")

Check(t) == Move(t, "check", IF scanThreadRunning THEN "enter" ELSE "test")

Enter(t) ==
  /\ Goto(t, "enter", "wait")
  /\ notified' = notified \ {t}
  /\ UNCHANGED <<args, scanThreadRunning, holder, shown>>

\* Mutant: wait() instead of wait_for().
WaitEndsNotified(t) == t \in notified /\ Move(t, "wait", "test")

\* wait_for ends when notified, or after 500 ms or 1000/24 ms.
WaitEnds(t) == Move(t, "wait", "test")

TurnRadar ==
  \/ Acquire("radar", "radarMutex", "turn", "turning")
  \/ Release("radar", "radarMutex", "turning", "post")

Loop(t) == Test(t) \/ Check(t) \/ Enter(t) \/ WaitEnds(t)

-----------------------------------------------------------------------------
(* The event handlers of the main thread *)

\* An arrow scans first if -a was given; only a Neato is driven.
Arrow ==
  /\ args.moveScanning \/ args.neato
  /\ Goto("gui", "loop", IF args.moveScanning THEN "scanAndShow" ELSE "drive")
  /\ drives' = (args.neato /\ args.moveScanning)
  /\ UNCHANGED <<args, scanThreadRunning, notified, holder, data, window, rotating, cause>>
Space == args.neato /\ Move("gui", "loop", "drive")
KeyS == args.manualScanning /\ Move("gui", "loop", "scanAndShow")

\* Mutant: the mutex is not unlocked.
DrivenLocked == args.fromDevice /\ Move("gui", "driving", "loop")

\* setMotor() comes back only where there is a device.
Driven == args.fromDevice /\ Release("gui", "controllerMutex", "driving", "loop")

Drive == Acquire("gui", "controllerMutex", "drive", "driving") \/ Driven

Repaint ==
  \/ Acquire("gui", "radarMutex", "repaint", "drawRadar")
  \/ Release("gui", "radarMutex", "drawRadar", "points")
  \/ Acquire("gui", "controllerMutex", "points", "drawPoints")
  \/ Release("gui", "controllerMutex", "drawPoints", "loop")

Event == Arrow \/ Space \/ KeyS \/ Move("gui", "loop", "repaint") \/ Close

-----------------------------------------------------------------------------
GuiStep == Main \/ ScanAndShow("gui") \/ Drive \/ Repaint
ScanStep == Loop("scan") \/ ScanAndShow("scan")
RadarStep == Loop("radar") \/ TurnRadar \/ Post("radar")

Next == Event \/ GuiStep \/ ScanStep \/ RadarStep

Spec == Init /\ [][Next]_vars

\* A thread that finds a mutex free again and again gets it: the scan thread leaves
\* it for 500 ms between two scans and the event loop waits for a user.  A device
\* answers or is lost.  No event has to come.
FairSpec == Spec /\ SF_vars(GuiStep) /\ SF_vars(ScanStep) /\ SF_vars(RadarStep)

-----------------------------------------------------------------------------
\* Types of the members of RegiloVisual (regilovisual.hpp:42-71); a mutex is held
\* by the thread that is between its lock() and unlock() and by no other.
Holds(t, m) ==
  pc[t] \in IF m = "radarMutex" THEN {"turning", "drawRadar"}
            ELSE {"scanning", "driving", "drawPoints"}
TypeOK ==
  /\ args \in Arguments
  /\ {scanThreadRunning, drives, window, rotating} \subseteq BOOLEAN
  /\ notified \subseteq {"scan", "radar"}
  /\ data \in {"none", "scan", "empty"}
  /\ cause \in {"none", "exception", "log", "window"}
  /\ cause = "none" => \A m \in Mutex, t \in Thread : holder[m] = t <=> Holds(t, m)

\* No two threads talk to the device, or use the scan or the angle of the radar,
\* at the same time: under the mutexes while the window is open, by the join before
\* main() talks to the device again (regilovisual.cpp:149-151, main.cpp:115-122).
Uses(t, what) ==
  pc[t] \in CASE what = "device" -> {"switchOn", "scanning", "driving", "switchOff"}
              [] what = "data" -> {"scanning", "drawPoints"}
              [] what = "radarAngle" -> {"turning", "drawRadar"}
Exclusive ==
  \A what \in {"device", "data", "radarAngle"}, t, u \in Thread :
    Uses(t, what) /\ Uses(u, what) => t = u

\* A Neato only scans while its LIDAR turns, and a program that comes to its end
\* leaves it at rest with nobody using the controller that main() deletes
\* (main.cpp:105-124).
ScansWhileRotating ==
  /\ Switched => \A t \in Thread : pc[t] = "scanning" => rotating
  /\ pc["gui"] = "end" => ~rotating /\ \A t \in Thread : ~Uses(t, "device")

\* After an empty scan, which is the end of the log, the scan thread does not ask
\* for another one (regilovisual.cpp:395).
StopsAtEnd == Automatic /\ data = "empty" => pc["scan"] \notin {"scanAndShow", "scanning"}

\* Whatever the other threads do, an event handler returns to the event loop.
Returns == {"loop", "end", "aborted"}
GuiResponds == pc["gui"] \notin Returns ~> pc["gui"] \in Returns

\* A program whose window is closed ends: a notification that comes too early is
\* made up for by the timeout (regilovisual.cpp:114,137,149-151).
Exits == pc["gui"] = "exit" ~> pc["gui"] \in {"end", "aborted"}

\* Automatic scanning goes on until the end of the log or of the program, however
\* often the user drives or the window is drawn ("scan automatically", README.md:171).
KeepsScanning ==
  pc["scan"] = "wait" ~> (pc["scan"] = "scanning" \/ ~scanThreadRunning \/ pc["gui"] = "aborted")
=============================================================================
