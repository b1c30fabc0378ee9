------------------------- MODULE ServerControlProofs -------------------------
(***************************************************************************)
(* Proofs about ServerControl.  The inductive invariant adds one bound to  *)
(* the types, that of the entries of m_sessions: RemoveSession turns       *)
(* entries into NULLs, and neither kind may outgrow the bound by it.       *)
(***************************************************************************)
EXTENDS ServerControl, FiniteSetTheorems, TLAPS

IInv == TypeOK /\ OneAdmin /\ GetSessionCount <= MaxSessions

-----------------------------------------------------------------------------
(* How the count of administrators moves with one stage.                   *)

LoggedIn(st) == {s \in Admins : st[s] = "OK"}

(* One more, where a socket that was not logged in logs in.                *)
LEMMA LogsIn ==
    ASSUME NEW st \in [Admins -> Stages], NEW s \in Admins, st[s] # "OK"
    PROVE  Cardinality(LoggedIn([st EXCEPT ![s] = "OK"]))
             = Cardinality(LoggedIn(st)) + 1
<1>1. LoggedIn([st EXCEPT ![s] = "OK"]) = LoggedIn(st) \union {s}
  BY DEF LoggedIn
<1>2. s \notin LoggedIn(st)
  BY DEF LoggedIn
<1>3. IsFiniteSet(LoggedIn(st))
  BY FS_Subset, AdminsAssumption DEF LoggedIn
<1> QED
  BY <1>1, <1>2, <1>3, FS_AddElement

(* One less, where one that was logged in is deleted.                      *)
LEMMA LogsOut ==
    ASSUME NEW st \in [Admins -> Stages], NEW s \in Admins, st[s] = "OK"
    PROVE  Cardinality(LoggedIn([st EXCEPT ![s] = "absent"]))
             = Cardinality(LoggedIn(st)) - 1
<1>1. LoggedIn([st EXCEPT ![s] = "absent"]) = LoggedIn(st) \ {s}
  BY DEF LoggedIn
<1>2. s \in LoggedIn(st)
  BY DEF LoggedIn
<1>3. IsFiniteSet(LoggedIn(st))
  BY FS_Subset, AdminsAssumption DEF LoggedIn
<1> QED
  BY <1>1, <1>2, <1>3, FS_RemoveElement

(* The same, where the socket is logged in neither before nor after.       *)
LEMMA SameLogins ==
    ASSUME NEW st \in [Admins -> Stages], NEW s \in Admins,
           NEW g \in Stages \ {"OK"}, st[s] # "OK"
    PROVE  LoggedIn([st EXCEPT ![s] = g]) = LoggedIn(st)
BY DEF LoggedIn

LEMMA InitInv == Init => IInv
<1> SUFFICES ASSUME Init PROVE IInv
  OBVIOUS
<1>1. TypeOK
  <2>1. 0 \in Uints /\ 0 \in 0..MaxSessions /\ 0 \in 0..MaxCommands
    BY UintAssumption, BoundAssumption DEF Uints
  <2>2. world \in World /\ NoCommand \in Command
    BY <2>1 DEF Init, World, Command, NoCommand
  <2>3. command \in [Callers -> Command] /\ stage \in [Admins -> Stages]
    BY <2>2 DEF Init, Stages
  <2> QED
    BY <2>1, <2>2, <2>3 DEF Init, TypeOK
<1>2. OneAdmin
  <2>1. {s \in Admins : stage[s] = "OK"} = {}
    BY DEF Init
  <2> QED
    BY <2>1, FS_EmptySet DEF Init, OneAdmin
<1> QED
  BY <1>1, <1>2, BoundAssumption DEF Init, IInv, GetSessionCount

-----------------------------------------------------------------------------
(* The steps that leave the administrators alone.                          *)

LEMMA AdminsKept ==
    ASSUME IInv, TypeOK', GetSessionCount' <= MaxSessions, UNCHANGED admins
    PROVE  IInv'
BY DEF IInv, OneAdmin, admins

(* A command, which writes its own fields and its own place.               *)
LEMMA CommandInv ==
    ASSUME IInv, NEW c \in Callers,
           \/ \E time \in Times, idle \in BOOLEAN : CliShutdown(c, time, idle)
           \/ CliCancel(c) \/ CliExit(c) \/ CommandStep(c)
    PROVE  IInv'
<1> USE DEF IInv, TypeOK
<1>0. /\ 0 \in Uints /\ 1 \in Uints /\ NoCommand \in Command
      /\ Times \subseteq Uints
  BY UintAssumption DEF Uints, NoCommand, Command
<1>1. UNCHANGED <<registry, admins, threads, world>>
  BY DEF CliShutdown, CliCancel, CliExit, CommandStep, SetIdleMode, SetTimer,
         ClearIdleMode, ClearTimer
<1>2. TypeOK'
  <2>1. ASSUME NEW time \in Times, NEW idle \in BOOLEAN,
               CliShutdown(c, time, idle)
        PROVE  TypeOK'
    <3>1. command' \in [Callers -> Command]
      BY <1>0, <2>1 DEF CliShutdown, Command
    <3> QED
      BY <1>1, <2>1, <3>1, BoundAssumption
      DEF CliShutdown, Gives, fields, registry, threads, admins
  <2>2. CASE CliCancel(c)
    <3>1. command' \in [Callers -> Command]
      BY <2>2 DEF CliCancel, Goto, Command
    <3> QED
      BY <1>1, <2>2, <3>1, BoundAssumption
      DEF CliCancel, Gives, fields, registry, threads, admins
  <2>3. CASE CliExit(c)
    BY <1>1, <2>3, BoundAssumption
    DEF CliExit, Gives, fields, registry, threads, admins
  <2>4. CASE SetIdleMode(c)
    <3>1. /\ command' \in [Callers -> Command]
          /\ idleMode' \in BOOLEAN
      BY <2>4 DEF SetIdleMode, Goto, Command
    <3> QED
      BY <1>1, <2>4, <3>1 DEF SetIdleMode, registry, threads, admins
  <2>5. CASE SetTimer(c)
    <3>1. command' \in [Callers -> Command]
      BY <1>0, <2>5 DEF SetTimer, Done
    <3>2. command[c].time \in Uints
      BY DEF Command
    <3>3. timer' \in Uints /\ stopEvent' \in BOOLEAN
      BY <1>0, <2>5, <3>2 DEF SetTimer
    <3> QED
      BY <1>1, <2>5, <3>1, <3>3 DEF SetTimer, registry, threads, admins
  <2>6. CASE ClearIdleMode(c)
    <3>1. command' \in [Callers -> Command]
      BY <2>6 DEF ClearIdleMode, Goto, Command
    <3> QED
      BY <1>1, <2>6, <3>1 DEF ClearIdleMode, registry, threads, admins
  <2>7. CASE ClearTimer(c)
    <3>1. command' \in [Callers -> Command] /\ timer' \in Uints
      BY <1>0, <2>7 DEF ClearTimer, Done
    <3> QED
      BY <1>1, <2>7, <3>1 DEF ClearTimer, registry, threads, admins
  <2> QED
    BY <2>1, <2>2, <2>3, <2>4, <2>5, <2>6, <2>7 DEF CommandStep
<1>3. GetSessionCount' <= MaxSessions
  BY <1>1 DEF registry, GetSessionCount
<1> QED
  BY <1>1, <1>2, <1>3, AdminsKept

(* Sessions that end make room.                                            *)
LEMMA FewerEntries ==
    ASSUME NEW n \in Nat, NEW k \in Nat, NEW m \in 0..k, k + n <= MaxSessions
    PROVE  m \in 0..MaxSessions /\ m + n <= MaxSessions
BY BoundAssumption

(* A step of the world thread.  The timer wraps and stays a uint32.        *)
LEMMA WorldInv ==
    ASSUME IInv, WorldStep
    PROVE  IInv'
<1> USE DEF IInv, TypeOK
<1>0. 0 \in Uints /\ 1 \in Uints /\ Elapses \subseteq Uints
  BY UintAssumption DEF Uints
<1>1. UNCHANGED <<nulls, udp, threads, command, commands, wanted, admins>>
  BY DEF WorldStep, Tick, Compare, Decide, Stop, WaitForIdle, CountDown,
         WriteTimer, UpdateSessions, WorldEnds, WorldOnly, registry
<1>2. TypeOK' /\ GetSessionCount' <= MaxSessions
  <2>1. /\ world' \in World /\ timer' \in Uints
        /\ stopEvent' \in BOOLEAN /\ idleMode' = idleMode
    <3>1. ASSUME NEW elapsed \in Elapses, Tick(elapsed) PROVE <2>1
      BY <1>0, <3>1 DEF Tick, Updated, fields, World
    <3>2. CASE Compare
      BY <1>0, <3>2 DEF Compare, Moves, fields, World
    <3>3. CASE Decide
      BY <3>3 DEF Decide, Moves, fields, World
    <3>4. CASE Stop
      BY <1>0, <3>4 DEF Stop, Updated, World
    <3>5. CASE WaitForIdle
      BY <1>0, <3>5 DEF WaitForIdle, Updated, World
    <3>6. CASE CountDown
      BY <3>6 DEF CountDown, TimerAgain, fields, World
    <3>7. CASE WriteTimer
      <4>1. world.seen \in Int /\ world.elapsed \in Int
        BY DEF World, Uints
      <4>2. (world.seen - world.elapsed) % UintMod \in Uints
        BY <4>1, UintAssumption DEF Uints
      <4> QED
        BY <1>0, <3>7, <4>2 DEF WriteTimer, Updated, World
    <3>8. CASE UpdateSessions
      BY <3>8 DEF UpdateSessions, Moves, fields, World
    <3>9. CASE WorldEnds
      BY <3>9 DEF WorldEnds, Moves, fields, World
    <3> QED
      BY <3>1, <3>2, <3>3, <3>4, <3>5, <3>6, <3>7, <3>8, <3>9 DEF WorldStep
  <2>2. sessions' \in 0..sessions
    <3>1. CASE UpdateSessions
      BY <3>1 DEF UpdateSessions
    <3>2. CASE ~ UpdateSessions
      <4>1. sessions' = sessions
        BY <3>2 DEF WorldStep, Tick, Compare, Decide, Stop, WaitForIdle,
                    CountDown, WriteTimer, WorldEnds, WorldOnly, registry
      <4>2. sessions \in Nat
        OBVIOUS
      <4> QED
        BY <4>1, <4>2
    <3> QED
      BY <3>1, <3>2
  <2>3. sessions' \in 0..MaxSessions /\ GetSessionCount' <= MaxSessions
    BY <1>1, <2>2, FewerEntries DEF GetSessionCount
  <2> QED
    BY <1>1, <2>1, <2>3 DEF threads, admins
<1> QED
  BY <1>1, <1>2, AdminsKept

(* The sessions and the end of the threads.                                *)
LEMMA NetworkInv ==
    ASSUME IInv,
           \/ EndOfFile \/ OnSignal \/ ConsoleEnds \/ Join \/ SocketFails
           \/ MainWaits \/ MainEnds
    PROVE  IInv'
<1> USE DEF IInv, TypeOK
<1> USE UintAssumption, BoundAssumption
<1>1. UNCHANGED admins
  BY DEF EndOfFile, OnSignal, ConsoleEnds, Join, SocketFails, MainWaits,
         MainEnds
<1>2. TypeOK' /\ GetSessionCount' <= MaxSessions
  <2>1. CASE EndOfFile \/ OnSignal
    BY <1>1, <2>1 DEF EndOfFile, OnSignal, registry, threads, admins,
                      GetSessionCount
  <2>2. CASE ConsoleEnds
    BY <1>1, <2>2 DEF ConsoleEnds, fields, registry, admins, GetSessionCount
  <2>3. CASE Join
    BY <1>1, <2>3 DEF Join, NetworkOnly, fields, admins, GetSessionCount
  <2>4. CASE SocketFails
    <3>1. sessions' = 0 /\ nulls' = nulls + sessions /\ udp' = FALSE
      BY <2>4 DEF SocketFails
    <3>2. nulls + sessions <= MaxSessions
      BY DEF GetSessionCount
    <3>3. /\ nulls' \in 0..MaxSessions /\ GetSessionCount' <= MaxSessions
          /\ sessions' \in 0..MaxSessions
      BY <3>1, <3>2, BoundAssumption DEF GetSessionCount
    <3> QED
      BY <1>1, <2>4, <3>1, <3>3 DEF SocketFails, NetworkOnly, fields, admins
  <2>5. CASE MainWaits \/ MainEnds
    BY <1>1, <2>5 DEF MainWaits, MainEnds, NetworkOnly, fields, registry,
                      admins, GetSessionCount
  <2> QED
    BY <2>1, <2>2, <2>3, <2>4, <2>5
<1> QED
  BY <1>1, <1>2, AdminsKept

-----------------------------------------------------------------------------
(* The administrators.  A password is taken from a socket that is half     *)
(* logged in only as long as nobody is: OnRead turns it away otherwise.    *)
LEMMA AdminInv ==
    ASSUME IInv, NEW s \in Admins,
           \/ OnAccept(s) \/ DeleteAdmin(s)
           \/ \E line \in Lines : OnRead(s, line)
    PROVE  IInv'
<1> USE DEF IInv
<1>1. /\ UNCHANGED <<fields, console, world, command, commands, wanted,
                     registry, main>>
      /\ closing' \subseteq Admins
      /\ stage' \in [Admins -> Stages]
  BY DEF OnAccept, DeleteAdmin, OnRead, ReadLine, AdminsOnly, NetworkOnly,
         TypeOK, Stages
<1>2. GetSessionCount' <= MaxSessions
  BY <1>1 DEF registry, GetSessionCount
<1>3. /\ stage \in [Admins -> Stages] /\ iUsers \in Nat
      /\ iUsers = Cardinality(LoggedIn(stage)) /\ iUsers <= 1
  BY DEF TypeOK, OneAdmin, LoggedIn
<1>4. /\ iUsers' = Cardinality(LoggedIn(stage')) /\ iUsers' <= 1
      /\ iUsers' \in Nat
  <2>1. CASE OnAccept(s)
    BY <1>3, <2>1, SameLogins DEF OnAccept, Stages
  <2>2. CASE DeleteAdmin(s) /\ stage[s] = "OK"
    <3>1. Cardinality(LoggedIn(stage')) = iUsers - 1
      BY <1>3, <2>2, LogsOut DEF DeleteAdmin
    <3>2. IsFiniteSet(LoggedIn(stage'))
      BY FS_Subset, AdminsAssumption DEF LoggedIn
    <3> QED
      BY <1>3, <2>2, <3>1, <3>2, FS_CardinalityType DEF DeleteAdmin
  <2>3. CASE DeleteAdmin(s) /\ stage[s] # "OK"
    <3>1. stage' = [stage EXCEPT ![s] = "absent"] /\ iUsers' = iUsers - 0
      BY <2>3 DEF DeleteAdmin
    <3>2. LoggedIn(stage') = LoggedIn(stage)
      BY <1>3, <2>3, <3>1, SameLogins DEF Stages
    <3> QED
      BY <1>3, <3>1, <3>2
  <2>4. ASSUME NEW line \in Lines, OnRead(s, line),
               line = "overflow" \/ Busy(s)
        PROVE  UNCHANGED <<stage, iUsers>>
    BY <2>4 DEF OnRead, ReadLine
  <2>5. ASSUME NEW line \in Lines, OnRead(s, line),
               ~ (line = "overflow" \/ Busy(s))
        PROVE  /\ iUsers' = Cardinality(LoggedIn(stage')) /\ iUsers' <= 1
               /\ iUsers' \in Nat
    <3>1. CASE line = "pass" /\ stage[s] = "LG"
      <4>1. iUsers = 0
        BY <1>3, <2>5, <3>1 DEF Busy
      <4>2. stage' = [stage EXCEPT ![s] = "OK"] /\ iUsers' = iUsers + 1
        BY <2>5, <3>1 DEF OnRead, ReadLine
      <4>3. Cardinality(LoggedIn(stage')) = Cardinality(LoggedIn(stage)) + 1
        BY <1>3, <3>1, <4>2, LogsIn
      <4> QED
        BY <1>3, <4>1, <4>2, <4>3
    <3>2. CASE ~ (line = "pass" /\ stage[s] = "LG")
      <4>1. iUsers' = iUsers
        BY <1>3, <2>5, <3>2 DEF OnRead, ReadLine
      <4>2. LoggedIn(stage') = LoggedIn(stage)
        <5>1. CASE line = "user" /\ stage[s] = "NONE"
          BY <1>3, <2>5, <3>2, <5>1, SameLogins DEF OnRead, ReadLine, Stages
        <5>2. CASE ~ (line = "user" /\ stage[s] = "NONE")
          <6>1. stage' = stage
            BY <1>3, <2>5, <3>2, <5>2 DEF OnRead, ReadLine
          <6> QED
            BY <6>1
        <5> QED
          BY <5>1, <5>2
      <4> QED
        BY <1>3, <4>1, <4>2
    <3> QED
      BY <3>1, <3>2
  <2> QED
    BY <1>3, <2>1, <2>2, <2>3, <2>4, <2>5
<1>5. TypeOK'
  BY <1>1, <1>4 DEF TypeOK, fields, registry
<1>6. OneAdmin'
  BY <1>4 DEF OneAdmin, LoggedIn
<1> QED
  BY <1>2, <1>5, <1>6

LEMMA NextInv == IInv /\ [Next]_vars => IInv'
<1> SUFFICES ASSUME IInv, [Next]_vars PROVE IInv'
  OBVIOUS
<1>1. CASE Next
  BY <1>1, CommandInv, WorldInv, NetworkInv, AdminInv DEF Next
<1>2. CASE UNCHANGED vars
  BY <1>2 DEF vars, fields, threads, registry, admins, IInv, TypeOK, OneAdmin,
              GetSessionCount
<1> QED
  BY <1>1, <1>2

-----------------------------------------------------------------------------
(* Every variable keeps its type: the timer stays below 2^32 when the      *)
(* countdown wraps, and the count of administrators is never negative.     *)
THEOREM TypeCorrect == Spec => []TypeOK
<1>1. IInv => TypeOK
  BY DEF IInv
<1> QED
  BY <1>1, InitInv, NextInv, PTL DEF Spec

(* One administrator at a time, and the count of them is right, for any    *)
(* number of sockets (RASocket::OnRead, ~RASocket).                        *)
THEOREM OneAdminHolds == Spec => []OneAdmin
<1>1. IInv => OneAdmin
  BY DEF IInv
<1> QED
  BY <1>1, InitInv, NextInv, PTL DEF Spec

-----------------------------------------------------------------------------
(* What is never undone, whatever the threads do with the timer.           *)

(* A thread is out of its loop only after a stop, and the process ends     *)
(* only after the world thread has: Master::Run waits for it (t.wait()).   *)
Ends ==
    /\ console = "done" \/ main # "loop" \/ world.pc = "done" => stopEvent
    /\ main = "done" => world.pc = "done"

(* One step neither takes a stop back nor starts an ended thread again.    *)
LEMMA StopKept ==
    ASSUME TypeOK, Ends, [Next]_vars
    PROVE  Ends' /\ (stopEvent => stopEvent')
<1>1. CASE \E c \in Callers :
             \/ \E time \in Times, idle \in BOOLEAN : CliShutdown(c, time, idle)
             \/ CliCancel(c) \/ CliExit(c) \/ CommandStep(c)
  BY <1>1
  DEF CliShutdown, CliCancel, CliExit, CommandStep, SetIdleMode, SetTimer,
      ClearIdleMode, ClearTimer, Ends, fields, threads
<1>2. CASE EndOfFile \/ OnSignal \/ ConsoleEnds
  BY <1>2 DEF EndOfFile, OnSignal, ConsoleEnds, Ends, fields, threads
<1>3. CASE WorldStep
  <2>1. UNCHANGED threads /\ world.pc # "done"
    BY <1>3
    DEF WorldStep, Tick, Compare, Decide, Stop, WaitForIdle, CountDown,
        WriteTimer, UpdateSessions, WorldEnds, WorldOnly
  <2>2. stopEvent => stopEvent'
    BY <1>3
    DEF WorldStep, Tick, Compare, Decide, Stop, WaitForIdle, CountDown,
        WriteTimer, UpdateSessions, WorldEnds, fields
  <2>3. world.pc' = "done" => stopEvent'
    <3>1. CASE WorldEnds
      BY <3>1 DEF WorldEnds, fields
    <3>2. CASE \E elapsed \in Elapses : Tick(elapsed)
      BY <3>2 DEF Tick, Updated
    <3>3. CASE Compare \/ Decide \/ CountDown \/ UpdateSessions
      BY <3>3 DEF Compare, Decide, CountDown, UpdateSessions, Moves, TypeOK,
                  World
    <3>4. CASE Stop \/ WaitForIdle \/ WriteTimer
      BY <3>4 DEF Stop, WaitForIdle, WriteTimer, Updated
    <3> QED
      BY <1>3, <3>1, <3>2, <3>3, <3>4 DEF WorldStep
  <2> QED
    BY <2>1, <2>2, <2>3 DEF Ends, threads
<1>4. CASE MainWaits \/ MainEnds
  BY <1>4 DEF MainWaits, MainEnds, NetworkOnly, Ends, fields
<1>5. CASE Join \/ SocketFails
  BY <1>5 DEF Join, SocketFails, NetworkOnly, Ends, fields
<1>6. CASE \E s \in Admins : \/ OnAccept(s) \/ DeleteAdmin(s)
                             \/ \E line \in Lines : OnRead(s, line)
  BY <1>6 DEF OnAccept, DeleteAdmin, OnRead, ReadLine, AdminsOnly,
              NetworkOnly, Ends, fields
<1>7. CASE UNCHANGED vars
  BY <1>7 DEF vars, fields, threads, Ends
<1> QED
  BY <1>1, <1>2, <1>3, <1>4, <1>5, <1>6, <1>7 DEF Next

LEMMA InitEnds == Init => Ends
BY DEF Init, Ends

(* A thread that is out of its loop was told to stop, and the process does *)
(* not end under the world thread (Master::Run, WorldRunnable::run).       *)
THEOREM EndsInOrder == Spec => []Ends
<1>1. IInv /\ Ends /\ [Next]_vars => Ends'
  BY StopKept DEF IInv
<1> QED
  BY <1>1, InitInv, InitEnds, NextInv, PTL DEF Spec

(* No step takes a stop back: ShutdownCancel writes the timer and the idle *)
(* mode, and m_stopEvent stays as it is.                                   *)
NeverTakenBack == [][stopEvent => stopEvent']_vars

THEOREM NeverTakenBackHolds == Spec => NeverTakenBack
<1>1. IInv /\ Ends /\ [Next]_vars => [stopEvent => stopEvent']_vars
  BY StopKept DEF IInv
<1>2. IInv /\ Ends /\ [Next]_vars => Ends'
  BY StopKept DEF IInv
<1> QED
  BY <1>1, <1>2, InitInv, InitEnds, NextInv, PTL DEF Spec, NeverTakenBack

-----------------------------------------------------------------------------
(* ShutdownCancel does what its comment says where nothing comes between:  *)
(* its write of the timer falls between two counts of the world thread,    *)
(* and no other command is about to write the timer.                       *)
Between == world.pc \in {"head", "sessions", "done"}

CancelAlone ==
    \A c \in Callers :
      ClearTimer(c) => Between /\ \A d \in Callers \ {c} : ~At(d, "timer")

(* With no stop wanted, nothing under way can bring one about.             *)
NotWanted ==
    ~wanted => timer = 0 /\ Between /\ \A c \in Callers : ~At(c, "timer")

LEMMA NotWantedKept ==
    ASSUME TypeOK, NotWanted, [Next]_vars, [CancelAlone]_vars
    PROVE  NotWanted' /\ (~stopEvent /\ stopEvent' => wanted')
<1>1. CASE UNCHANGED vars
  BY <1>1 DEF vars, fields, NotWanted, Between, At
<1>2. ASSUME NEW c \in Callers,
             NEW time \in Times, NEW idle \in BOOLEAN, CliShutdown(c, time, idle)
      PROVE  NotWanted' /\ UNCHANGED stopEvent
  <2>1. \A d \in Callers : At(d, "timer")' => At(d, "timer")
    BY <1>2 DEF CliShutdown, At, TypeOK
  <2> QED
    BY <1>2, <2>1 DEF CliShutdown, fields, NotWanted, Between
<1>3. ASSUME NEW c \in Callers, CliCancel(c) \/ ClearIdleMode(c)
      PROVE  NotWanted' /\ UNCHANGED stopEvent
  <2>1. \A d \in Callers : At(d, "timer")' => At(d, "timer")
    BY <1>3 DEF CliCancel, ClearIdleMode, Goto, At, TypeOK, Command
  <2> QED
    BY <1>3, <2>1 DEF CliCancel, ClearIdleMode, fields, NotWanted, Between
<1>4. ASSUME NEW c \in Callers, CliExit(c) \/ SetIdleMode(c)
      PROVE  wanted'
  BY <1>4 DEF CliExit, SetIdleMode
<1>5. ASSUME NEW c \in Callers, SetTimer(c)
      PROVE  wanted /\ UNCHANGED wanted
  BY <1>5 DEF SetTimer, NotWanted
<1>6. ASSUME NEW c \in Callers, ClearTimer(c), ~UNCHANGED vars
      PROVE  NotWanted' /\ UNCHANGED stopEvent
  <2>1. Between /\ \A d \in Callers \ {c} : ~At(d, "timer")
    BY <1>6 DEF CancelAlone
  <2>2. \A d \in Callers : ~At(d, "timer")'
    BY <1>6, <2>1 DEF ClearTimer, Done, NoCommand, At, TypeOK
  <2> QED
    BY <1>6, <2>1, <2>2 DEF ClearTimer, NotWanted, Between
<1>7. CASE EndOfFile \/ OnSignal
  BY <1>7 DEF EndOfFile, OnSignal, NotWanted
<1>8. CASE WorldStep
  <2>1. UNCHANGED <<wanted, command>>
    BY <1>8 DEF WorldStep, Tick, Compare, Decide, Stop, WaitForIdle, CountDown,
                WriteTimer, UpdateSessions, WorldEnds, WorldOnly
  <2>2. CASE wanted
    BY <2>1, <2>2 DEF NotWanted
  <2>3. ASSUME ~wanted
        PROVE  Between' /\ UNCHANGED <<timer, stopEvent>>
    <3>1. Between /\ timer = 0
      BY <2>3 DEF NotWanted
    <3>2. CASE \E elapsed \in Elapses : Tick(elapsed)
      BY <3>1, <3>2 DEF Tick, Updated, fields, Between
    <3>3. CASE UpdateSessions \/ WorldEnds
      BY <3>3 DEF UpdateSessions, WorldEnds, Moves, fields, Between, TypeOK,
                  World
    <3>4. ~ (Compare \/ Decide \/ Stop \/ WaitForIdle \/ CountDown \/ WriteTimer)
      BY <3>1 DEF Between, Compare, Decide, Stop, WaitForIdle, CountDown,
                  WriteTimer
    <3> QED
      BY <1>8, <3>2, <3>3, <3>4 DEF WorldStep
  <2> QED
    BY <2>1, <2>2, <2>3 DEF NotWanted, At
<1>9. CASE ConsoleEnds \/ Join \/ SocketFails \/ MainWaits \/ MainEnds
  BY <1>9 DEF ConsoleEnds, Join, SocketFails, MainWaits, MainEnds,
              NetworkOnly, fields, NotWanted, Between, At
<1>10. CASE \E s \in Admins : \/ OnAccept(s) \/ DeleteAdmin(s)
                              \/ \E line \in Lines : OnRead(s, line)
  BY <1>10 DEF OnAccept, DeleteAdmin, OnRead, ReadLine, AdminsOnly,
               NetworkOnly, fields, NotWanted, Between, At
<1>11. ASSUME NEW c \in Callers,
              \/ \E time \in Times, idle \in BOOLEAN : CliShutdown(c, time, idle)
              \/ CliCancel(c) \/ CliExit(c) \/ CommandStep(c),
              ~UNCHANGED vars
       PROVE  NotWanted' /\ (~stopEvent /\ stopEvent' => wanted')
  BY <1>2, <1>3, <1>4, <1>5, <1>6, <1>11 DEF CommandStep, NotWanted
<1> QED
  BY <1>1, <1>7, <1>8, <1>9, <1>10, <1>11 DEF Next

(* "Cancel a planned server shutdown" (World.cpp:691) is true of cancels   *)
(* that run alone: nothing but a later request stops the server.  Without  *)
(* the condition it is not: run control_cancel.                            *)
THEOREM CancelledAlone == Spec /\ [][CancelAlone]_vars => CancelledStaysUp
<1>1. Init => NotWanted
  BY DEF Init, NotWanted, Between, NoCommand, At
<1>2. IInv /\ NotWanted /\ [Next]_vars /\ [CancelAlone]_vars => NotWanted'
  BY NotWantedKept DEF IInv
<1>3. IInv /\ NotWanted /\ [Next]_vars /\ [CancelAlone]_vars
        => [~stopEvent /\ stopEvent' => wanted']_vars
  BY NotWantedKept DEF IInv
<1> QED
  BY <1>1, <1>2, <1>3, InitInv, NextInv, PTL DEF Spec, CancelledStaysUp

-----------------------------------------------------------------------------
(* The countdown is exact where the commands write the timer between two   *)
(* counts of it: what the world thread read, compared and writes back is   *)
(* then one value, read again by the compiler's choice or not.             *)
CommandsBetween == \A c \in Callers : SetTimer(c) \/ ClearTimer(c) => Between

Counting ==
    /\ world.pc \in {"due", "count", "write"} =>
         timer = world.seen /\ timer > 0 /\ world.elapsed > 0
    /\ world.pc \in {"overdue", "stop", "rewait"} =>
         timer > 0 /\ timer <= world.elapsed
    /\ world.pc \in {"count", "write"} => timer > world.elapsed

(* The steps that are not the world thread's, for what it knows.           *)
LEMMA CountingAside ==
    ASSUME Counting, UNCHANGED world, Between \/ UNCHANGED timer
    PROVE  Counting'
BY DEF Counting, Between

(* A count takes the time that passed, which is less than what was left,   *)
(* and a stop comes when no more than that was left.                       *)
CountExact ==
    /\ WriteTimer => timer' = timer - world.elapsed /\ 0 < timer' /\ timer' < timer
    /\ Stop => 0 < timer /\ timer <= world.elapsed
    /\ timer' > timer => \E c \in Callers : SetTimer(c)

LEMMA WorldCounts ==
    ASSUME TypeOK, Counting, WorldStep
    PROVE  Counting' /\ CountExact
<1> USE DEF Counting
<1>0. /\ timer \in Nat /\ timer < UintMod /\ UintMod \in Nat
      /\ world.elapsed \in Nat /\ world.seen \in Nat
      /\ world = [pc |-> world.pc, elapsed |-> world.elapsed, seen |-> world.seen]
      /\ Elapses \subseteq Nat
  BY UintAssumption DEF TypeOK, Uints, World
<1>1. CASE WriteTimer
  <2>1. /\ world.seen - world.elapsed \in Nat
        /\ world.seen - world.elapsed < UintMod
    BY <1>0, <1>1 DEF WriteTimer
  <2>2. (world.seen - world.elapsed) % UintMod = world.seen - world.elapsed
    BY <1>0, <2>1
  <2>3. timer' = timer - world.elapsed /\ 0 < timer' /\ timer' < timer
    BY <1>0, <1>1, <2>2 DEF WriteTimer
  <2>4. ~Stop
    BY <1>1 DEF WriteTimer, Stop
  <2>5. Counting'
    BY <1>1 DEF WriteTimer, Updated
  <2> QED
    BY <1>0, <2>3, <2>4, <2>5 DEF CountExact
<1>2. CASE WaitForIdle
  <2>1. Counting' /\ timer' = 1 /\ timer > 0
    BY <1>0, <1>2 DEF WaitForIdle, Updated
  <2> QED
    BY <1>0, <1>2, <2>1 DEF CountExact, WaitForIdle, WriteTimer, Stop
<1>3. CASE ~WriteTimer /\ ~WaitForIdle
  <2>1. UNCHANGED timer
    BY <1>3 DEF WorldStep, Tick, Compare, Decide, Stop, CountDown,
                UpdateSessions, WorldEnds, fields
  <2>2. CountExact
    BY <1>0, <1>3, <2>1 DEF CountExact, Stop
  <2>3. Counting'
    <3>1. ASSUME NEW elapsed \in Elapses, Tick(elapsed) PROVE Counting'
      BY <1>0, <2>1, <3>1 DEF Tick, Updated
    <3>2. CASE Compare
      <4>1. PICK t \in TimerAgain :
              IF t <= world.elapsed
              THEN world' = [world EXCEPT !.pc = "overdue", !.seen = 0]
              ELSE Moves("count")
        BY <3>2 DEF Compare
      <4>2. /\ t = timer /\ timer > 0 /\ world.elapsed > 0
            /\ world.seen = timer
        BY <3>2, <4>1 DEF Compare, TimerAgain
      <4>3. CASE timer <= world.elapsed
        BY <1>0, <2>1, <4>1, <4>2, <4>3
      <4>4. CASE ~(timer <= world.elapsed)
        BY <1>0, <2>1, <4>1, <4>2, <4>4 DEF Moves
      <4> QED
        BY <4>3, <4>4
    <3>3. CASE Decide
      BY <1>0, <2>1, <3>3 DEF Decide, Moves
    <3>4. CASE Stop
      BY <3>4 DEF Stop, Updated
    <3>5. CASE CountDown
      <4>1. PICK t \in TimerAgain :
              world' = [world EXCEPT !.pc = "write", !.seen = t]
        BY <3>5 DEF CountDown
      <4>2. /\ timer > world.elapsed /\ world.elapsed > 0
            /\ world.seen = timer
        BY <3>5 DEF CountDown
      <4> QED
        BY <1>0, <2>1, <4>1, <4>2 DEF TimerAgain
    <3>6. CASE UpdateSessions \/ WorldEnds
      BY <1>0, <3>6 DEF UpdateSessions, WorldEnds, Moves
    <3> QED
      BY <1>3, <3>1, <3>2, <3>3, <3>4, <3>5, <3>6 DEF WorldStep
  <2> QED
    BY <2>2, <2>3
<1> QED
  BY <1>1, <1>2, <1>3

LEMMA CountingKept ==
    ASSUME TypeOK, Counting, [Next]_vars, [CommandsBetween]_vars
    PROVE  Counting' /\ [CountExact]_vars
<1>1. CASE UNCHANGED vars
  BY <1>1 DEF vars, fields, Counting
<1>2. CASE WorldStep
  BY <1>2, WorldCounts
<1>3. ASSUME NEW c \in Callers, CommandStep(c), ~UNCHANGED vars
      PROVE  /\ UNCHANGED world /\ (Between \/ UNCHANGED timer)
             /\ timer' > timer => SetTimer(c)
  <2>1. UNCHANGED world
    BY <1>3 DEF CommandStep, SetIdleMode, SetTimer, ClearIdleMode, ClearTimer
  <2>2. Between \/ UNCHANGED timer
    BY <1>3 DEF CommandStep, SetIdleMode, SetTimer, ClearIdleMode, ClearTimer,
                CommandsBetween
  <2>3. ~SetTimer(c) => timer' = timer \/ timer' = 0
    BY <1>3 DEF CommandStep, SetIdleMode, ClearIdleMode, ClearTimer
  <2>4. timer \in Nat
    BY UintAssumption DEF TypeOK, Uints
  <2> QED
    BY <2>1, <2>2, <2>3, <2>4
<1>4. ASSUME Next, ~WorldStep, \A c \in Callers : ~CommandStep(c)
      PROVE  UNCHANGED <<world, timer>>
  BY <1>4
  DEF Next, CliShutdown, CliCancel, CliExit, EndOfFile, OnSignal, ConsoleEnds,
      Join, SocketFails, MainWaits, MainEnds, OnAccept, DeleteAdmin, OnRead,
      ReadLine, AdminsOnly, NetworkOnly, fields
<1>5. CASE ~WorldStep /\ ~UNCHANGED vars
  <2>1. UNCHANGED world /\ (Between \/ UNCHANGED timer)
    BY <1>3, <1>4, <1>5
  <2>2. Counting'
    BY <2>1, CountingAside
  <2>3. ~WriteTimer /\ ~Stop
    BY <1>5 DEF WorldStep
  <2>4. timer \in Nat
    BY UintAssumption DEF TypeOK, Uints
  <2>5. timer' > timer => \E c \in Callers : SetTimer(c)
    BY <1>3, <1>4, <1>5, <2>4
  <2> QED
    BY <2>2, <2>3, <2>5 DEF CountExact
<1> QED
  BY <1>1, <1>2, <1>5

(* World::_UpdateGameTime counts m_ShutdownTimer down by the seconds that  *)
(* passed, never past zero, raises it by itself never, and stops the       *)
(* server only when no more than they was left: where the commands write   *)
(* the timer between two counts.  Where one falls inside a count, the      *)
(* difference may wrap and the timer start again from 2^32.                *)
CountsDown == [][CountExact]_vars

THEOREM CountsDownBetween == Spec /\ [][CommandsBetween]_vars => CountsDown
<1>1. Init => Counting
  BY DEF Init, Counting
<1>2. IInv /\ Counting /\ [Next]_vars /\ [CommandsBetween]_vars => Counting'
  BY CountingKept DEF IInv
<1>3. IInv /\ Counting /\ [Next]_vars /\ [CommandsBetween]_vars
        => [CountExact]_vars
  BY CountingKept DEF IInv
<1> QED
  BY <1>1, <1>2, <1>3, InitInv, NextInv, PTL DEF Spec, CountsDown
=============================================================================
