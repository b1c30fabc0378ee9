---------------------------- MODULE SessionLife ----------------------------
(***************************************************************************)
(* What a client with an account id of its own may rely on, whatever the   *)
(* two threads do to its session at the same time: the session is made     *)
(* once; its player enters the world in the session's turn and stays as    *)
(* long as the session; each pass over the sessions gives it at most one   *)
(* turn, and exactly one if it was there when the pass began and is not    *)
(* kicked before; and it ends in its own turn, because it lost its socket, *)
(* or asked to leave or fell silent and is not loading, or between two     *)
(* passes, if it was kicked.  What has ended never comes back.             *)
(***************************************************************************)
CONSTANTS Sessions, None

VARIABLES
    conn,      \* of each session: unmade, open, cut, kicked or gone
    loading,   \* those that load the map
    leaving,   \* those that asked to leave, or fell silent
    inWorld,   \* those whose player is in the world
    pass,      \* a pass over the sessions is on
    due,       \* those that have their turn in this pass before them
    turn       \* the one that has it now

vars == <<conn, loading, leaving, inWorld, pass, due, turn>>

Init ==
    /\ conn = [s \in Sessions |-> "unmade"]
    /\ loading = {} /\ leaving = {} /\ inWorld = {}
    /\ pass = FALSE /\ due = {} /\ turn = None

In(C) == {s \in Sessions : conn[s] \in C}
Becomes(s, c) == conn' = [conn EXCEPT ![s] = c]

(* One that is made during a pass may have a turn in it, or not.           *)
Open(s) ==
    /\ conn[s] = "unmade"
    /\ Becomes(s, "open")
    /\ due' = due \/ (pass /\ due' = due \union {s})
    /\ UNCHANGED <<loading, leaving, inWorld, pass, turn>>

Cut(s) ==
    /\ conn[s] = "open"
    /\ Becomes(s, "cut")
    /\ UNCHANGED <<loading, leaving, inWorld, pass, due, turn>>

Kick(s) ==
    /\ conn[s] \in {"open", "cut"}
    /\ s \notin loading
    /\ Becomes(s, "kicked")
    /\ due' = due \ {s}
    /\ UNCHANGED <<loading, leaving, inWorld, pass, turn>>

(* The kicked go, and everybody else is due.                               *)
BeginPass ==
    /\ ~pass
    /\ conn' = [s \in Sessions |-> IF conn[s] = "kicked" THEN "gone"
                                   ELSE conn[s]]
    /\ inWorld' = inWorld \ In({"kicked"})
    /\ due' = In({"open", "cut"})
    /\ pass' = TRUE
    /\ UNCHANGED <<loading, leaving, turn>>

(* It may turn out to have been silent for too long.                       *)
BeginTurn(s) ==
    /\ turn = None /\ s \in due
    /\ turn' = s
    /\ due' = due \ {s}
    /\ leaving' = leaving \/ leaving' = leaving \union {s}
    /\ UNCHANGED <<conn, loading, inWorld, pass>>

HasTurn(s) == turn = s /\ conn[s] = "open"

Enter(s) ==
    /\ HasTurn(s)
    /\ inWorld' = inWorld \union {s} /\ loading' = loading \union {s}
    /\ UNCHANGED <<conn, leaving, pass, due, turn>>

Ready(s) ==
    /\ HasTurn(s)
    /\ loading' = loading \ {s}
    /\ UNCHANGED <<conn, leaving, inWorld, pass, due, turn>>

AskToLeave(s) ==
    /\ HasTurn(s)
    /\ leaving' = leaving \union {s}
    /\ UNCHANGED <<conn, loading, inWorld, pass, due, turn>>

(* One that is kicked in its turn leaves the world and goes later.         *)
Ends(s) == conn[s] # "open" \/ s \in leaving \ loading

EndTurn(s) ==
    /\ turn = s /\ s # None
    /\ turn' = None
    /\ IF Ends(s) THEN /\ inWorld' = inWorld \ {s}
                       /\ IF conn[s] = "kicked" THEN UNCHANGED conn
                          ELSE Becomes(s, "gone")
       ELSE UNCHANGED <<inWorld, conn>>
    /\ UNCHANGED <<loading, leaving, pass, due>>

EndPass ==
    /\ pass /\ turn = None /\ due = {}
    /\ pass' = FALSE
    /\ UNCHANGED <<conn, loading, leaving, inWorld, due, turn>>

Next ==
    \/ \E s \in Sessions :
         \/ Open(s) \/ Cut(s) \/ Kick(s)
         \/ BeginTurn(s) \/ Enter(s) \/ Ready(s) \/ AskToLeave(s) \/ EndTurn(s)
    \/ BeginPass \/ EndPass

Spec == Init /\ [][Next]_vars
=============================================================================
