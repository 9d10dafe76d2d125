--------------------------- MODULE ControlSocket ---------------------------
(***************************************************************************)
(* The path of the control socket, which every daemon of the user binds    *)
(* and removes, and the aymm commands that connect to it.  A daemon is one *)
(* run of the program: it starts, binds, serves, and returns from main or  *)
(* is killed.  What is said over a connection is the subject of RunLoop.   *)
(***************************************************************************)
EXTENDS Naturals, FiniteSets

CONSTANT Daemons   \* the runs of the program, in any order

VARIABLES
    daemon,        \* where each daemon is in bind_listen and in its life
    bound,         \* bound_path_ is not empty
    path,          \* the file at default_path(): whose socket it is, if any
    overlapped,    \* history: there have been two daemons at a time
    refused        \* history: socket, bind or listen has failed for want of
                   \* resources, or for too long a path

vars == <<daemon, bound, path, overlapped, refused>>

Nobody == "nobody"

\* deaf: up, but bind_listen() failed.
Alive == {"removing", "binding", "listening", "up", "deaf"}
Up    == {"up", "deaf"}
Where == Alive \cup {"new", "over"}

Init ==
    /\ daemon = [d \in Daemons |-> "new"]
    /\ bound = [d \in Daemons |-> FALSE]
    /\ path = Nobody
    /\ overlapped = FALSE /\ refused = FALSE

----------------------------------------------------------------------------
Goes(d, from, to) == daemon[d] = from /\ daemon' = [daemon EXCEPT ![d] = to]

StartUp(d) ==
    /\ Goes(d, "new", "removing")
    /\ overlapped' = (overlapped \/ \E e \in Daemons \ {d} : daemon[e] \in Alive)
    /\ UNCHANGED <<bound, path, refused>>

\* Faulty: it tidies up as if it had been serving.
NoOverlayTidying(d) ==
    /\ Goes(d, "new", "over") /\ path' = Nobody
    /\ UNCHANGED <<bound, overlapped, refused>>

\* overlay_.connect() fails: run() returns before the socket is touched.
NoOverlay(d) ==
    /\ Goes(d, "new", "over")
    /\ UNCHANGED <<bound, path, overlapped, refused>>

\* Faulty: the file of a daemon that was killed is left where it is.
RemoveNothing(d) ==
    /\ Goes(d, "removing", "binding")
    /\ UNCHANGED <<bound, path, overlapped, refused>>

\* "Stale socket cleanup."
RemoveStale(d) ==
    /\ Goes(d, "removing", "binding")
    /\ path' = Nobody
    /\ UNCHANGED <<bound, overlapped, refused>>

\* Faulty: the path is noted as bound before it is.
BindNotedEarly(d) ==
    /\ daemon[d] = "binding"
    /\ bound' = [bound EXCEPT ![d] = TRUE]
    /\ IF path = Nobody THEN Goes(d, "binding", "listening") /\ path' = d
       ELSE Goes(d, "binding", "deaf") /\ UNCHANGED path
    /\ UNCHANGED <<overlapped, refused>>

\* Faulty: a path that is taken is waited for.
BindWaits(d) ==
    /\ path = Nobody /\ Goes(d, "binding", "listening") /\ path' = d
    /\ UNCHANGED <<bound, overlapped, refused>>

\* bind() fails if another daemon has been faster since the path was removed.
Bind(d) ==
    /\ daemon[d] = "binding"
    /\ IF path = Nobody THEN Goes(d, "binding", "listening") /\ path' = d
       ELSE Goes(d, "binding", "deaf") /\ UNCHANGED path
    /\ UNCHANGED <<bound, overlapped, refused>>

Listen(d) ==
    /\ Goes(d, "listening", "up")
    /\ bound' = [bound EXCEPT ![d] = TRUE]
    /\ UNCHANGED <<path, overlapped, refused>>

\* A system call fails: close_server() closes the socket and, with bound_path_
\* still empty, leaves the file that bind() may have made.
Refused(d) ==
    /\ \E from \in {"binding", "listening"} : Goes(d, from, "deaf")
    /\ refused' = TRUE
    /\ UNCHANGED <<bound, path, overlapped>>

\* run() returns and close_server() removes the path it has bound, whoever's
\* socket is there by now.
Leave(d) ==
    /\ \E from \in Up : Goes(d, from, "over")
    /\ IF bound[d] THEN path' = Nobody ELSE UNCHANGED path
    /\ bound' = [bound EXCEPT ![d] = FALSE]
    /\ UNCHANGED <<overlapped, refused>>

\* Killed by a signal at any point: no destructor runs, the file stays.
Killed(d) ==
    /\ \E from \in Alive : Goes(d, from, "over")
    /\ bound' = [bound EXCEPT ![d] = FALSE]
    /\ UNCHANGED <<path, overlapped, refused>>

Binds(d) == RemoveStale(d) \/ Bind(d) \/ Listen(d)
Next == \E d \in Daemons : StartUp(d) \/ NoOverlay(d) \/ Binds(d)
                           \/ Refused(d) \/ Leave(d) \/ Killed(d)

Spec == Init /\ [][Next]_vars

----------------------------------------------------------------------------
(* Properties.                                                             *)

\* send_request reaches d: connect() finds a socket that is being listened on.
Reaches(d) == path = d /\ daemon[d] = "up"

TypeOK ==
    /\ daemon \in [Daemons -> Where] /\ bound \in [Daemons -> BOOLEAN]
    /\ path \in Daemons \cup {Nobody}
    /\ overlapped \in BOOLEAN /\ refused \in BOOLEAN
    /\ \A d \in Daemons : bound[d] <=> daemon[d] = "up"

(* A daemon that never had the socket leaves it to the one that has: when  *)
(* two start together and one bind() fails, or when a second one finds no  *)
(* output to show itself on, its end does not cut off the other.           *)
UnservedLeavesSocket ==
    [][ \A d \in Daemons :
          daemon[d] \in {"new", "deaf"} /\ daemon'[d] = "over" => path' = path ]_vars

(* Crash and restart: whatever a killed daemon has left at the path, the   *)
(* next one takes it over and can be reached for as long as it runs.  With *)
(* one daemon at a time none is cut off, nor deaf but for a failed call.   *)
AloneIsReachable ==
    ~overlapped => \A d \in Daemons :
        /\ daemon[d] = "deaf" => refused
        /\ daemon[d] = "up" => Reaches(d)

============================================================================
