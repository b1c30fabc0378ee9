--------------------------- MODULE ServerControl ---------------------------
(***************************************************************************)
(* How the server is told to stop, and stops.                              *)
(*                                                                         *)
(* Three threads share World::m_stopEvent, m_ShutdownTimer and             *)
(* m_ShutdownIdleMode without a lock: the world thread, which counts the   *)
(* timer down in World::_UpdateGameTime; the console thread, which runs    *)
(* the commands typed at it; and the network thread (Master::Run), which   *)
(* runs those of a remote administrator (RASocket).  A signal handler sets *)
(* m_stopEvent besides.  One access to a shared variable is one step.      *)
(*                                                                         *)
(* The three fields are plain integers, and nothing orders one thread's    *)
(* accesses for another: where _UpdateGameTime uses the timer again it may *)
(* read it again or use what it read before, as the compiler chose.        *)
(***************************************************************************)
EXTENDS Integers, FiniteSets

CONSTANTS
    Admins,       \* remote administration sockets
    UintMod,      \* m_ShutdownTimer is a uint32: 2^32
    Times,        \* the delays that commands give
    Elapses,      \* the seconds that may pass between two world ticks
    MaxSessions,  \* bound on the entries of m_sessions
    MaxCommands   \* bound on the commands given in a behaviour

Uints == 0..(UintMod - 1)

ASSUME UintAssumption == /\ UintMod \in Nat \ {0, 1}
                         /\ Times \subseteq Uints
                         /\ Elapses \subseteq Uints
ASSUME BoundAssumption == MaxSessions \in Nat /\ MaxCommands \in Nat
ASSUME AdminsAssumption == IsFiniteSet(Admins)

VARIABLES
    stopEvent,    \* World::m_stopEvent
    idleMode,     \* m_ShutdownIdleMode
    timer,        \* m_ShutdownTimer
    sessions,     \* entries of m_sessions with a session
    nulls,        \* entries of m_sessions with NULL, after RemoveSession
    udp,          \* the game's UDP socket is open
    main,         \* Master::Run: "loop", "wait" (t.wait()), "done"
    console,      \* CliRunnable::run: "loop" or "done"
    world,        \* WorldRunnable::run: where it is, and its locals
    command,      \* the command that each of the two threads is running
    commands,     \* how many commands there have been
    wanted,       \* history: a stop was asked for, and not called off
    stage,        \* RASocket::stage of each socket
    closing,      \* sockets with SetCloseAndDelete
    iUsers        \* active administrators

fields    == <<stopEvent, idleMode, timer>>
threads   == <<main, console>>
registry  == <<sessions, nulls, udp>>
admins    == <<stage, closing, iUsers>>
vars == <<fields, registry, threads, world, command, commands, wanted, admins>>

Callers == {"console", "network"}
Command == [pc : {"none", "serv", "timer", "idle", "clear"},
            time : Uints, idle : BOOLEAN]
World   == [pc : {"head", "due", "overdue", "stop", "rewait", "count",
                  "write", "sessions", "done"},
            elapsed : Uints, seen : Uints]
Stages  == {"absent", "NONE", "LG", "OK"}
Lines   == {"overflow", "user", "nouser", "pass", "nopass"}

NoCommand == [pc |-> "none", time |-> 0, idle |-> FALSE]

TypeOK ==
    /\ stopEvent \in BOOLEAN /\ idleMode \in BOOLEAN /\ timer \in Uints
    /\ sessions \in 0..MaxSessions /\ nulls \in 0..MaxSessions
    /\ udp \in BOOLEAN
    /\ main \in {"loop", "wait", "done"} /\ console \in {"loop", "done"}
    /\ world \in World
    /\ command \in [Callers -> Command]
    /\ commands \in 0..MaxCommands
    /\ wanted \in BOOLEAN
    /\ stage \in [Admins -> Stages] /\ closing \subseteq Admins
    /\ iUsers \in Nat

Init ==
    /\ stopEvent = FALSE /\ idleMode = FALSE /\ timer = 0
    /\ sessions = 0 /\ nulls = 0 /\ udp = TRUE
    /\ main = "loop" /\ console = "loop"
    /\ world = [pc |-> "head", elapsed |-> 0, seen |-> 0]
    /\ command = [c \in Callers |-> NoCommand]
    /\ commands = 0
    /\ wanted = FALSE
    /\ stage = [s \in Admins |-> "absent"] /\ closing = {} /\ iUsers = 0

(* World::GetSessionCount: the entries, whatever they point to.            *)
GetSessionCount == sessions + nulls

-----------------------------------------------------------------------------
(* Commands, given at the console or by a logged-in administrator.         *)

(* The thread is at its prompt, and its loop has seen no stop.             *)
Ready(c) ==
    /\ command[c].pc = "none"
    /\ IF c = "console" THEN console = "loop"
       ELSE main = "loop" /\ \E s \in Admins \ closing : stage[s] = "OK"

Gives(c) ==
    /\ Ready(c)
    /\ commands < MaxCommands
    /\ commands' = commands + 1

At(c, pc) == command[c].pc = pc
Goto(c, pc) == command' = [command EXCEPT ![c].pc = pc]
Done(c) == command' = [command EXCEPT ![c] = NoCommand]

(* ShutdownServ begins with the idle mode.                                 *)
CliShutdown(c, time, idle) ==
    /\ Gives(c)
    /\ command' = [command EXCEPT
                     ![c] = [pc |-> "serv", time |-> time, idle |-> idle]]
    /\ UNCHANGED <<fields, registry, threads, world, wanted, admins>>

SetIdleMode(c) ==
    /\ At(c, "serv")
    /\ idleMode' = command[c].idle
    /\ wanted' = TRUE
    /\ Goto(c, "timer")
    /\ UNCHANGED <<stopEvent, timer, registry, threads, world, commands,
                   admins>>

(* A delay of 0 stops the server now, if there is no one to wait for.      *)
SetTimer(c) ==
    /\ At(c, "timer")
    /\ LET time == command[c].time
           now  == time = 0 /\ (~command[c].idle \/ GetSessionCount = 0)
       IN  IF now THEN stopEvent' = TRUE /\ UNCHANGED timer
           ELSE /\ timer' = IF time = 0 THEN 1 ELSE time
                /\ UNCHANGED stopEvent
    /\ Done(c)
    /\ UNCHANGED <<idleMode, registry, threads, world, commands, wanted,
                   admins>>

(* ShutdownCancel: nothing to cancel, or the idle mode and then the timer. *)
CliCancel(c) ==
    /\ Gives(c)
    /\ IF timer = 0 THEN UNCHANGED command ELSE Goto(c, "idle")
    /\ UNCHANGED <<fields, registry, threads, world, wanted, admins>>

ClearIdleMode(c) ==
    /\ At(c, "idle")
    /\ idleMode' = FALSE
    /\ Goto(c, "clear")
    /\ UNCHANGED <<stopEvent, timer, registry, threads, world, commands,
                   wanted, admins>>

ClearTimer(c) ==
    /\ At(c, "clear")
    /\ timer' = 0
    /\ wanted' = FALSE
    /\ Done(c)
    /\ UNCHANGED <<stopEvent, idleMode, registry, threads, world, commands,
                   admins>>

CliExit(c) ==
    /\ Gives(c)
    /\ stopEvent' = TRUE
    /\ wanted' = TRUE
    /\ UNCHANGED <<idleMode, timer, registry, threads, world, command, admins>>

(* The console's end of file, and Master::_OnSignal.                       *)
EndOfFile ==
    /\ Ready("console")
    /\ stopEvent' = TRUE
    /\ wanted' = TRUE
    /\ UNCHANGED <<idleMode, timer, registry, threads, world, command,
                   commands, admins>>

OnSignal ==
    /\ main = "loop"
    /\ stopEvent' = TRUE
    /\ wanted' = TRUE
    /\ UNCHANGED <<idleMode, timer, registry, threads, world, command,
                   commands, admins>>

(* The console sees the stop when it is back at its prompt, and not before *)
(* the line it is waiting for: nobody waits for it.                        *)
ConsoleEnds ==
    /\ Ready("console")
    /\ stopEvent
    /\ console' = "done"
    /\ UNCHANGED <<fields, registry, main, world, command, commands, wanted,
                   admins>>

-----------------------------------------------------------------------------
(* The world thread.                                                       *)

Moves(pc) == world' = [world EXCEPT !.pc = pc]
Updated == world' = [pc |-> "sessions", elapsed |-> 0, seen |-> 0]
WorldOnly == UNCHANGED <<registry, threads, command, commands, wanted, admins>>

(* What the timer is taken to be when it is used again.                    *)
TimerAgain == {world.seen, timer}

(* The head of the loop, the time, and the first look at the timer.        *)
Tick(elapsed) ==
    /\ world.pc = "head"
    /\ ~stopEvent
    /\ IF timer > 0 /\ elapsed > 0
       THEN world' = [pc |-> "due", elapsed |-> elapsed, seen |-> timer]
       ELSE Updated
    /\ UNCHANGED fields
    /\ WorldOnly

Compare ==
    /\ world.pc = "due"
    /\ \E t \in TimerAgain :
         IF t <= world.elapsed
         THEN world' = [world EXCEPT !.pc = "overdue", !.seen = 0]
         ELSE Moves("count")
    /\ UNCHANGED fields
    /\ WorldOnly

(* Mutant: the idle mode is not asked.                                     *)
DecideAtOnce ==
    /\ world.pc = "overdue"
    /\ Moves(IF GetSessionCount = 0 THEN "stop" ELSE "rewait")
    /\ UNCHANGED fields
    /\ WorldOnly
Decide ==
    /\ world.pc = "overdue"
    /\ Moves(IF ~idleMode \/ GetSessionCount = 0 THEN "stop" ELSE "rewait")
    /\ UNCHANGED fields
    /\ WorldOnly

Stop ==
    /\ world.pc = "stop"
    /\ stopEvent' = TRUE
    /\ Updated
    /\ UNCHANGED <<idleMode, timer>>
    /\ WorldOnly

(* The least delay, to look again at the next tick.                        *)
WaitForIdle ==
    /\ world.pc = "rewait"
    /\ timer' = 1
    /\ Updated
    /\ UNCHANGED <<stopEvent, idleMode>>
    /\ WorldOnly

CountDown ==
    /\ world.pc = "count"
    /\ \E t \in TimerAgain : world' = [world EXCEPT !.pc = "write", !.seen = t]
    /\ UNCHANGED fields
    /\ WorldOnly

(* Mutant: the difference does not wrap.                                   *)
WriteTimerWide ==
    /\ world.pc = "write"
    /\ timer' = world.seen - world.elapsed
    /\ Updated
    /\ UNCHANGED <<stopEvent, idleMode>>
    /\ WorldOnly
WriteTimer ==
    /\ world.pc = "write"
    /\ timer' = (world.seen - world.elapsed) % UintMod
    /\ Updated
    /\ UNCHANGED <<stopEvent, idleMode>>
    /\ WorldOnly

(* The rest of World::Update: some of the sessions may end.                *)
UpdateSessions ==
    /\ world.pc = "sessions"
    /\ sessions' \in 0..sessions
    /\ Moves("head")
    /\ UNCHANGED <<fields, nulls, udp, threads, command, commands, wanted,
                   admins>>

(* Mutant: the thread waits for the timer to be served.                    *)
WorldEndsUnplanned ==
    /\ world.pc = "head"
    /\ stopEvent
    /\ timer = 0
    /\ Moves("done")
    /\ UNCHANGED fields
    /\ WorldOnly
WorldEnds ==
    /\ world.pc = "head"
    /\ stopEvent
    /\ Moves("done")
    /\ UNCHANGED fields
    /\ WorldOnly

-----------------------------------------------------------------------------
(* The network thread: the game's socket, the administrators, and the end. *)

Serving == main = "loop" /\ command["network"].pc = "none"
NetworkOnly == UNCHANGED <<fields, console, world, command, commands, wanted>>

(* _HandleJoin: AddSession.                                                *)
Join ==
    /\ Serving
    /\ udp
    /\ GetSessionCount < MaxSessions
    /\ sessions' = sessions + 1
    /\ NetworkOnly
    /\ UNCHANGED <<nulls, udp, main, admins>>

(* WorldSocket::OnDelete: World::RemoveSession of every session leaves its *)
(* entry, with NULL for a pointer.                                         *)
SocketFails ==
    /\ Serving
    /\ udp
    /\ udp' = FALSE
    /\ sessions' = 0
    /\ nulls' = nulls + sessions
    /\ NetworkOnly
    /\ UNCHANGED <<main, admins>>

AdminsOnly == NetworkOnly /\ UNCHANGED <<registry, main>>

(* RASocket::OnAccept, and the constructor.                                *)
OnAccept(s) ==
    /\ Serving
    /\ stage[s] = "absent"
    /\ stage' = [stage EXCEPT ![s] = "NONE"]
    /\ closing' = IF iUsers > 0 THEN closing \union {s} ELSE closing
    /\ UNCHANGED iUsers
    /\ AdminsOnly

(* RASocket::OnRead of one line, but for the commands.  A name or password *)
(* that is refused closes the socket if bSecure is set.                    *)
Busy(s) == stage[s] # "OK" /\ iUsers > 0
Refused(s, line) ==
    \/ line = "nouser" /\ stage[s] = "NONE"
    \/ line = "nopass" /\ stage[s] = "LG"

ReadLine(s, line, away) ==
    /\ Serving
    /\ stage[s] # "absent" /\ s \notin closing
    /\ IF away
       THEN /\ closing' = closing \union {s}
            /\ UNCHANGED <<stage, iUsers>>
       ELSE LET passed == line = "pass" /\ stage[s] = "LG"
            IN  /\ stage' = [stage EXCEPT ![s] =
                               IF line = "user" /\ @ = "NONE" THEN "LG"
                               ELSE IF passed THEN "OK" ELSE @]
                /\ iUsers' = iUsers + (IF passed THEN 1 ELSE 0)
                /\ \/ UNCHANGED closing
                   \/ Refused(s, line) /\ closing' = closing \union {s}
    /\ AdminsOnly

(* Mutant: a socket that is half logged in is not turned away.             *)
OnReadUnguarded(s, line) ==
    ReadLine(s, line, line = "overflow" \/ (Busy(s) /\ stage[s] # "LG"))
OnRead(s, line) == ReadLine(s, line, line = "overflow" \/ Busy(s))

(* The socket handler deletes a socket that is closing, or whose peer left. *)
DeleteAdmin(s) ==
    /\ Serving
    /\ stage[s] # "absent"
    /\ iUsers' = iUsers - (IF stage[s] = "OK" THEN 1 ELSE 0)
    /\ stage' = [stage EXCEPT ![s] = "absent"]
    /\ closing' = closing \ {s}
    /\ AdminsOnly

(* Master::Run: out of the loop, and then t.wait() for the world thread.   *)
MainWaits ==
    /\ Serving
    /\ stopEvent
    /\ main' = "wait"
    /\ NetworkOnly
    /\ UNCHANGED <<registry, admins>>

MainEnds ==
    /\ main = "wait"
    /\ world.pc = "done"
    /\ main' = "done"
    /\ NetworkOnly
    /\ UNCHANGED <<registry, admins>>

-----------------------------------------------------------------------------
CommandStep(c) ==
    \/ SetIdleMode(c) \/ SetTimer(c) \/ ClearIdleMode(c) \/ ClearTimer(c)

WorldStep ==
    \/ \E elapsed \in Elapses : Tick(elapsed)
    \/ Compare \/ Decide \/ Stop \/ WaitForIdle \/ CountDown \/ WriteTimer
    \/ UpdateSessions \/ WorldEnds

Next ==
    \/ \E c \in Callers :
         \/ \E time \in Times, idle \in BOOLEAN : CliShutdown(c, time, idle)
         \/ CliCancel(c)
         \/ CliExit(c)
         \/ CommandStep(c)
    \/ EndOfFile
    \/ OnSignal
    \/ ConsoleEnds
    \/ WorldStep
    \/ Join
    \/ SocketFails
    \/ \E s \in Admins : \/ OnAccept(s)
                         \/ \E line \in Lines : OnRead(s, line)
                         \/ DeleteAdmin(s)
    \/ MainWaits
    \/ MainEnds

Spec == Init /\ [][Next]_vars

(* Every thread goes on with what it is doing, and time passes for the     *)
(* world thread.  The main loop tests m_stopEvent after every round, so no *)
(* stream of joins and administrators keeps it from MainWaits for ever.    *)
FairSpec ==
    /\ Spec
    /\ \A c \in Callers : WF_vars(CommandStep(c))
    /\ WF_vars(WorldStep)
    /\ SF_vars(\E elapsed \in Elapses \ {0} : Tick(elapsed))
    /\ WF_vars(MainWaits)
    /\ WF_vars(MainEnds)

-----------------------------------------------------------------------------
(* Properties.                                                             *)

(* One administrator at a time, and the count of them is right through     *)
(* logins, refusals, overflows and closed sockets: the global socket that  *)
(* answers go to (RASocket.cpp:36) relies on it.                           *)
OneAdmin ==
    /\ iUsers = Cardinality({s \in Admins : stage[s] = "OK"})
    /\ iUsers <= 1

(* A shutdown that is the only command given stops the server: if it does  *)
(* not wait for the sessions, or they are gone, entries and all            *)
(* (ShutdownServ, _UpdateGameTime).                                        *)
ShutdownStops ==
    [](commands <= 1) /\ ([](~idleMode) \/ <>[](GetSessionCount = 0))
      => (timer > 0 ~> stopEvent)

(* Once m_stopEvent is set every thread but the console's ends, whatever   *)
(* was going on (Master::Run, WorldRunnable::run).                         *)
StopEndsServer == stopEvent ~> main = "done"

-----------------------------------------------------------------------------
(* What the code's comments say of it, and it does not do.                 *)

(* "Cancel a planned server shutdown" (World.cpp:691): after ShutdownCancel *)
(* the server does not stop until it is asked to again.                    *)
CancelledStaysUp == [][~stopEvent /\ stopEvent' => wanted']_vars

(* "Shutdown the server (with some delay) as soon as no active connections *)
(* remain on the server" (CliRunnable.cpp:80).                             *)
IdleShutdownStops ==
    [](commands <= 1) /\ <>[](sessions = 0) => (timer > 0 ~> stopEvent)
=============================================================================
