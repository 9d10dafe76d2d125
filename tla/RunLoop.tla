------------------------------ MODULE RunLoop ------------------------------
(***************************************************************************)
(* App::run: one thread that polls the compositor, the tick timer and the  *)
(* control socket, and the aymm processes that talk to it.  What the tick  *)
(* and the requests do to the cat is the subject of App.                   *)
(***************************************************************************)
EXTENDS Integers, Sequences, FiniteSets

CONSTANTS
    Clients,   \* the aymm processes on the other side of the socket
    Requests,  \* what they send; "pet:quit" is the one that matters here
    Backlog,   \* how many connections may wait to be accepted
    PollHz     \* cfg_.cursor_poll_hz, which nothing checks

ASSUME BacklogAssumption == Backlog \in Nat \ {0}
ASSUME PollHzAssumption == PollHz \in Int

VARIABLES
    loop,        \* where run() is: poll, one of the fds, a recv, exited
    revents,     \* the fds that poll() reported
    wl,          \* what the compositor has sent that is not dispatched
    due,         \* the timerfd has expired since it was last read
    listening,   \* bind_listen() succeeded
    queue,       \* connections to accept
    served,      \* the connection accept_one() reads from
    client,      \* what each client is doing
    request,     \* what each client sends
    sleeping,    \* a detached quit thread sleeps its two seconds
    shouldQuit,  \* OverlaySurface::should_quit_
    overtaken    \* history: clients served since the tick became due

loopVars == <<loop, revents, served>>
peers    == <<listening, queue, client, request>>
quitVars == <<sleeping, shouldQuit>>
vars     == <<loopVars, peers, quitVars, wl, due, overtaken>>

Nobody == "nobody"

ASSUME ClientsAssumption == Nobody \notin Clients

\* A client that is connected waits with or without having sent its request,
\* and may have hung up either way.
Waiting == {"silent", "asked", "hungup", "left"}

----------------------------------------------------------------------------
Init ==
    /\ loop = "poll" /\ revents = {} /\ served = Nobody
    /\ wl = "quiet" /\ due = FALSE
    /\ listening \in BOOLEAN /\ queue = <<>>
    /\ client = [c \in Clients |-> "out"]
    /\ request \in [Clients -> Requests]
    /\ sleeping = FALSE /\ shouldQuit = FALSE
    /\ overtaken = 0

----------------------------------------------------------------------------
(* The daemon.                                                             *)

Ready == (IF wl # "quiet" THEN {"wl"} ELSE {})
         \cup (IF due THEN {"timer"} ELSE {})
         \cup (IF listening /\ queue # <<>> THEN {"ctl"} ELSE {})

Poll ==
    /\ loop = "poll" /\ Ready # {}
    /\ revents' = Ready /\ loop' = "wl"
    /\ UNCHANGED <<peers, quitVars, wl, due, served, overtaken>>

\* The events are handled; layer_closed asks to quit, by setting the flag.
DispatchPending ==
    /\ loop = "wl" /\ loop' = "timer"
    /\ "wl" \in revents => wl # "lost"
    /\ IF "wl" \in revents
       THEN wl' = "quiet" /\ shouldQuit' = (shouldQuit \/ wl = "closed")
       ELSE UNCHANGED <<wl, shouldQuit>>
    /\ UNCHANGED <<peers, due, revents, served, sleeping, overtaken>>

\* The compositor is gone: run() returns, the sockets are closed, and send_request
\* returns an empty reply to whoever was connected.
Exit ==
    /\ loop = "wl" /\ "wl" \in revents /\ wl = "lost"
    /\ loop' = "exited" /\ queue' = <<>> /\ listening' = FALSE
    /\ client' = [c \in Clients |-> IF client[c] \in {"silent", "asked"}
                                    THEN "unanswered"
                                    ELSE IF client[c] \in Waiting THEN "out"
                                    ELSE client[c]]
    /\ UNCHANGED <<request, quitVars, wl, due, revents, served, overtaken>>

\* One read() takes all the expirations there were.  A tick that chases asks for
\* the cursor: under Hyprland over a socket, with no more of a timeout.
RunTick ==
    /\ loop = "timer"
    /\ IF "timer" \in revents
       THEN loop' \in {"ctl", "cursor"} /\ due' = FALSE /\ overtaken' = 0
       ELSE loop' = "ctl" /\ UNCHANGED <<due, overtaken>>
    /\ UNCHANGED <<peers, quitVars, wl, revents, served>>

\* Faulty: the socket is looked at only when there was no tick to run.
AcceptIdle ==
    /\ loop = "ctl"
    /\ IF revents = {"ctl"}
       THEN served' = Head(queue) /\ queue' = Tail(queue) /\ loop' = "recv"
       ELSE loop' = "poll" /\ UNCHANGED <<queue, served>>
    /\ UNCHANGED <<quitVars, wl, due, revents, listening, client, request, overtaken>>

\* Faulty: who has connected last is served first.
AcceptNewest ==
    /\ loop = "ctl"
    /\ IF "ctl" \in revents
       THEN /\ served' = queue[Len(queue)] /\ queue' = SubSeq(queue, 1, Len(queue) - 1)
            /\ loop' = "recv"
       ELSE loop' = "poll" /\ UNCHANGED <<queue, served>>
    /\ UNCHANGED <<quitVars, wl, due, revents, listening, client, request, overtaken>>

\* accept4() fails only without a file descriptor left, which is not modelled.
Accept ==
    /\ loop = "ctl"
    /\ IF "ctl" \in revents
       THEN served' = Head(queue) /\ queue' = Tail(queue) /\ loop' = "recv"
       ELSE loop' = "poll" /\ UNCHANGED <<queue, served>>
    /\ UNCHANGED <<quitVars, wl, due, revents, listening, client, request, overtaken>>

\* recv() has no timeout: it returns when the client has sent or hung up.
Heard == served # Nobody /\ client[served] # "silent"

\* One more client was served; more than two are as bad as two.
Overtaken(n) == IF n < 2 THEN n + 1 ELSE n

\* Faulty: the connections that wait are all served before the next poll().
HandleDraining ==
    /\ loop = "recv" /\ Heard
    /\ client' = [client EXCEPT ![served] =
                      IF @ = "asked" THEN "answered" ELSE "out"]
    /\ sleeping' = (sleeping \/ (request[served] = "pet:quit"
                                 /\ client[served] # "hungup"))
    /\ overtaken' = IF due THEN Overtaken(overtaken) ELSE 0
    /\ IF queue = <<>> THEN loop' = "poll" /\ served' = Nobody /\ UNCHANGED queue
       ELSE served' = Head(queue) /\ queue' = Tail(queue) /\ UNCHANGED loop
    /\ UNCHANGED <<wl, due, revents, listening, request, shouldQuit>>

\* Faulty: a client that sent nothing is left connected.
HandleLeaking ==
    /\ loop = "recv" /\ Heard
    /\ client' = [client EXCEPT ![served] =
                      CASE @ = "asked"  -> "answered"
                        [] @ = "hungup" -> "hungup"
                        [] OTHER        -> "out"]
    /\ sleeping' = (sleeping \/ (request[served] = "pet:quit"
                                 /\ client[served] # "hungup"))
    /\ overtaken' = IF due THEN Overtaken(overtaken) ELSE 0
    /\ loop' = "poll" /\ served' = Nobody
    /\ UNCHANGED <<wl, due, revents, listening, queue, request, shouldQuit>>

\* The request is handled, answered, and the connection closed; a client that
\* hung up without a word is answered "unknown request" all the same.
Handle ==
    /\ loop = "recv" /\ Heard
    /\ client' = [client EXCEPT ![served] =
                      IF @ = "asked" THEN "answered" ELSE "out"]
    /\ sleeping' = (sleeping \/ (request[served] = "pet:quit"
                                 /\ client[served] # "hungup"))
    /\ overtaken' = IF due THEN Overtaken(overtaken) ELSE 0
    /\ loop' = "poll" /\ served' = Nobody
    /\ UNCHANGED <<wl, due, revents, listening, queue, request, shouldQuit>>

\* overlay_.quit(), two seconds after the request.  Nothing joins the thread: it
\* may still run while main() returns.
QuitThread ==
    /\ sleeping /\ sleeping' = FALSE /\ shouldQuit' = TRUE
    /\ UNCHANGED <<loopVars, peers, wl, due, overtaken>>

Loop == Poll \/ DispatchPending \/ Exit \/ RunTick \/ Accept \/ Handle

----------------------------------------------------------------------------
(* The kernel and the compositor.                                          *)

\* The period given to timerfd_settime, in nanoseconds.
NsPerTick == 1000000000 \div (IF PollHz > 1 THEN PollHz ELSE 1)

\* It takes less than a second, or refuses; and none disarms.
Armed == 1 <= NsPerTick /\ NsPerTick <= 999999999

TimerFires ==
    /\ Armed
    /\ ~due /\ due' = TRUE
    /\ UNCHANGED <<loopVars, peers, quitVars, wl, overtaken>>

\* A frame callback or an input event, the end of the layer surface, or that
\* of the compositor.
CompositorSends ==
    /\ wl # "lost"
    /\ wl' \in (IF wl = "quiet" THEN {"event", "closed", "lost"} ELSE {"lost"})
    /\ UNCHANGED <<loopVars, peers, quitVars, due, overtaken>>

\* Hyprland answers "cursorpos", or closes the connection.
CursorAnswered ==
    /\ loop = "cursor" /\ loop' = "ctl"
    /\ UNCHANGED <<peers, quitVars, wl, due, revents, served, overtaken>>

----------------------------------------------------------------------------
(* send_request, in another process.                                       *)

Becomes(c, from, to) == client[c] \in from /\ client' = [client EXCEPT ![c] = to]

Connect(c) ==
    /\ listening /\ Len(queue) < Backlog
    /\ Becomes(c, {"out", "answered"}, "silent")
    /\ request' \in {[request EXCEPT ![c] = r] : r \in Requests}
    /\ queue' = Append(queue, c)
    /\ UNCHANGED <<loopVars, quitVars, wl, due, listening, overtaken>>

Send(c) ==
    /\ Becomes(c, {"silent"}, "asked")
    /\ UNCHANGED <<loopVars, quitVars, wl, due, listening, queue, request, overtaken>>

\* Killed, before or after it has sent.
HangUp(c) ==
    /\ Becomes(c, {"silent"}, "hungup") \/ Becomes(c, {"asked"}, "left")
    /\ UNCHANGED <<loopVars, quitVars, wl, due, listening, queue, request, overtaken>>

Peer == \E c \in Clients : Connect(c) \/ Send(c) \/ HangUp(c)

----------------------------------------------------------------------------
Next == Loop \/ QuitThread \/ TimerFires \/ CompositorSends
        \/ CursorAnswered \/ Peer

Spec == Init /\ [][Next]_vars

\* The thread is scheduled, the timerfd is periodic and sleep_for() ends; neither
\* a client nor the compositor is bound to go on.
FairSpec == Spec /\ WF_vars(Loop) /\ WF_vars(TimerFires) /\ WF_vars(QuitThread)

----------------------------------------------------------------------------
(* Properties.                                                             *)

Queued == {queue[i] : i \in DOMAIN queue}

(* Types, and that nobody is lost: a client is connected exactly while its *)
(* connection is queued, once, or being read by accept_one().              *)
TypeOK ==
    /\ loop \in {"poll", "wl", "timer", "cursor", "ctl", "recv", "exited"}
    /\ revents \subseteq {"wl", "timer", "ctl"}
    /\ wl \in {"quiet", "event", "closed", "lost"}
    /\ {due, listening, sleeping, shouldQuit} \subseteq BOOLEAN
    /\ request \in [Clients -> Requests]
    /\ client \in [Clients -> Waiting \cup {"out", "answered", "unanswered"}]
    /\ served \in Clients \cup {Nobody} /\ (served = Nobody <=> loop # "recv")
    /\ Cardinality(Queued) = Len(queue) /\ served \notin Queued
    /\ {c \in Clients : client[c] \in Waiting} = Queued \cup ({served} \ {Nobody})

(* The cat does not freeze while scripts ask for the status: a tick that   *)
(* is due waits for one client at most, however many are connected.        *)
TickWaitsForOneClient == overtaken <= 1

\* Nobody keeps the other end of a recv() waiting for good.
NobodyKeepsSilent ==
    []<>(loop # "cursor") /\ \A c \in Clients : []<>(client[c] # "silent")

(* The whole of it: to its clients and to the cat the loop is a server     *)
(* that answers in the order of arrival, each request once, and that ticks *)
(* in between.  Whatever clients, timer and compositor do, every step is   *)
(* one of TickingServer, or none that anybody can tell.                    *)

Line == IF served = Nobody THEN queue ELSE <<served>> \o queue
Talk == [c \in Clients |-> CASE client[c] = "out"                -> "away"
                             [] client[c] \in {"hungup", "left"} -> "gone"
                             [] OTHER                            -> client[c]]
Owed == IF ~due THEN "none" ELSE IF overtaken = 0 THEN "due" ELSE "late"

Server == INSTANCE TickingServer
          WITH open <- listening, line <- Line, talk <- Talk, tick <- Owed

ServesInTurn == Server!Spec

(* And the other way round, ticks and frames never keep a client waiting   *)
(* for good: as long as nobody stays connected without a word, every       *)
(* request that is sent gets an answer, or the end of the daemon.          *)
EveryoneIsAnswered ==
    NobodyKeepsSilent =>
        \A c \in Clients : client[c] = "asked" ~> client[c] # "asked"

(* One thread and two recv() without timeout: once the timerfd is armed,   *)
(* the only things that ever stop the ticks of a daemon are a client that  *)
(* says nothing, and a compositor that does not say where the cursor is.   *)
StallsOnlyOnSilence ==
    \/ []<>(loop = "timer" /\ "timer" \in revents)
    \/ <>[](loop = "exited")
    \/ <>[](loop = "recv" /\ ~Heard)
    \/ <>[](loop = "cursor")

(* docs/architecture.md: "a timerfd ticking at cursor_poll_hz".  With one  *)
(* tick per second, or any lower setting, the period is a full second in   *)
(* tv_nsec, which timerfd_settime refuses: the cat never moves.            *)
TicksAtPollHz ==
    NobodyKeepsSilent =>
        []<>(loop = "timer" /\ "timer" \in revents) \/ <>[](loop = "exited")

(* README: "aymm quit: Tell the running daemon to exit."  It does not:     *)
(* quit() sets should_quit_, which App::run never reads.                   *)
QuitExits == NobodyKeepsSilent => (sleeping ~> loop = "exited")
============================================================================
