----------------------------- MODULE RunLoopProofs -----------------------------
(***************************************************************************)
(* Proofs about RunLoop, for any number of clients, any backlog and any    *)
(* tick rate.                                                              *)
(***************************************************************************)
EXTENDS RunLoop, FiniteSetTheorems, SequenceTheorems, TLAPS

----------------------------------------------------------------------------
(* Queues of connections.                                                  *)

Members(q) == {q[i] : i \in DOMAIN q}
Once(q)    == \A i, j \in DOMAIN q : q[i] = q[j] => i = j

(* A queue that nobody is in twice is as long as it has members.           *)
LEMMA OnceCounts ==
    ASSUME NEW q \in Seq(Clients), Once(q)
    PROVE  Cardinality(Members(q)) = Len(q)
<1>1. Len(q) \in Nat /\ DOMAIN q = 1..Len(q) /\ q \in [1..Len(q) -> Members(q)]
  BY LenProperties DEF Members
<1>2. q \in Surjection(1..Len(q), Members(q)) /\ q \in Injection(1..Len(q), Members(q))
  BY <1>1 DEF Surjection, Injection, IsInjective, Members, Once
<1>3. IsFiniteSet(1..Len(q)) /\ Cardinality(1..Len(q)) = Len(q)
  BY <1>1, FS_Interval
<1>4. QED
  BY <1>2, <1>3, FS_Surjection

(* Connecting adds a member at the end ...                                 *)
LEMMA AppendMembers ==
    ASSUME NEW q \in Seq(Clients), NEW c \in Clients
    PROVE  /\ Append(q, c) \in Seq(Clients) /\ Append(q, c) # <<>>
           /\ Members(Append(q, c)) = Members(q) \cup {c}
           /\ Once(q) /\ c \notin Members(q) => Once(Append(q, c))
<1> DEFINE r == Append(q, c)
<1>1. /\ r \in Seq(Clients) /\ r # <<>> /\ Len(r) = Len(q) + 1
      /\ \A i \in 1..Len(q) : r[i] = q[i]
      /\ r[Len(q) + 1] = c
  BY AppendProperties
<1>2. Len(q) \in Nat /\ DOMAIN q = 1..Len(q) /\ DOMAIN r = 1..(Len(q) + 1)
  BY <1>1, LenProperties
<1> HIDE DEF r
<1>3. Members(r) = Members(q) \cup {c}
  BY <1>1, <1>2 DEF Members
<1>4. Once(q) /\ c \notin Members(q) => Once(r)
  BY <1>1, <1>2 DEF Members, Once
<1>5. QED
  BY <1>1, <1>3, <1>4 DEF r

(* ... and accepting takes the first one away.                             *)
LEMMA TailMembers ==
    ASSUME NEW q \in Seq(Clients), q # <<>>, Once(q)
    PROVE  /\ Head(q) \in Members(q) /\ Head(q) \in Clients
           /\ Tail(q) \in Seq(Clients) /\ Once(Tail(q))
           /\ Members(Tail(q)) = Members(q) \ {Head(q)}
<1> DEFINE r == Tail(q)
<1>1. /\ Head(q) = q[1] /\ Head(q) \in Clients
      /\ r \in Seq(Clients) /\ Len(r) = Len(q) - 1
      /\ \A i \in 1..Len(r) : r[i] = q[i + 1]
  BY HeadTailProperties
<1>2. Len(q) \in Nat \ {0} /\ DOMAIN q = 1..Len(q) /\ DOMAIN r = 1..(Len(q) - 1)
  BY <1>1, LenProperties, EmptySeq
<1> HIDE DEF r
<1>3. Once(r)
  <2>1. SUFFICES ASSUME NEW i \in DOMAIN r, NEW j \in DOMAIN r, r[i] = r[j]
                 PROVE  i = j
    BY DEF Once
  <2>2. i \in Nat /\ j \in Nat /\ i + 1 \in DOMAIN q /\ j + 1 \in DOMAIN q
    BY <1>1, <1>2
  <2>3. q[i + 1] = q[j + 1]
    BY <1>1, <1>2, <2>1
  <2>4. QED
    BY <2>2, <2>3 DEF Once
<1>4. ASSUME NEW i \in DOMAIN q, i # 1
      PROVE  i - 1 \in DOMAIN r /\ q[i] = r[i - 1]
  <2>1. i - 1 \in 1..Len(r) /\ (i - 1) + 1 = i
    BY <1>1, <1>2, <1>4
  <2>2. r[i - 1] = q[(i - 1) + 1]
    BY <1>1, <2>1
  <2>3. QED
    BY <1>1, <1>2, <2>1, <2>2
<1>5. \A i \in DOMAIN r : i + 1 \in DOMAIN q /\ r[i] = q[i + 1] /\ i + 1 # 1
  BY <1>1, <1>2
<1>6. Members(r) = Members(q) \ {q[1]}
  <2>1. ASSUME NEW i \in DOMAIN r PROVE r[i] \in Members(q) /\ r[i] # q[1]
    BY <1>2, <1>5, <2>1 DEF Members, Once
  <2>2. ASSUME NEW i \in DOMAIN q, q[i] # q[1] PROVE q[i] \in Members(r)
    BY <1>4, <2>2 DEF Members
  <2>3. Members(r) \subseteq Members(q) \ {q[1]}
    BY <2>1 DEF Members
  <2>4. Members(q) \ {q[1]} \subseteq Members(r)
    BY <2>2 DEF Members
  <2>5. QED
    BY <2>3, <2>4
<1>7. Head(q) \in Members(q)
  BY <1>1, <1>2 DEF Members
<1>8. QED
  BY <1>1, <1>3, <1>6, <1>7 DEF r

----------------------------------------------------------------------------
(* The order of service.                                                   *)

\* A client can only overtake a tick that became due after poll() returned:
\* the next poll() reports the timer, and the tick is run before anybody else
\* is accepted.
TickIsNext ==
    /\ overtaken \in {0, 1}
    /\ loop = "poll" /\ overtaken = 1 => due
    /\ loop \in {"wl", "timer"} /\ overtaken = 1 => "timer" \in revents
    /\ loop \in {"cursor", "ctl", "recv"} => overtaken = 0

LEMMA OneAtATime == Spec => []TickIsNext
<1>1. Init => TickIsNext
  BY DEF Init, TickIsNext
<1>2. TickIsNext /\ [Next]_vars => TickIsNext'
  <2> SUFFICES ASSUME TickIsNext, [Next]_vars PROVE TickIsNext'
    OBVIOUS
  <2> USE DEF TickIsNext
  <2>1. CASE Poll
    BY <2>1 DEF Poll, Ready
  <2>2. CASE DispatchPending
    BY <2>2 DEF DispatchPending
  <2>3. CASE Exit
    BY <2>3 DEF Exit
  <2>4. CASE RunTick
    BY <2>4 DEF RunTick
  <2>5. CASE Accept
    BY <2>5 DEF Accept
  <2>6. CASE Handle
    BY <2>6 DEF Handle, Overtaken
  <2>7. CASE QuitThread
    BY <2>7 DEF QuitThread, loopVars
  <2>8. CASE TimerFires
    BY <2>8 DEF TimerFires, loopVars
  <2>9. CASE CompositorSends
    BY <2>9 DEF CompositorSends, loopVars
  <2>10. CASE CursorAnswered
    BY <2>10 DEF CursorAnswered
  <2>11. CASE Peer
    BY <2>11 DEF Peer, Connect, Send, HangUp, loopVars
  <2>12. CASE UNCHANGED vars
    BY <2>12 DEF vars, loopVars
  <2>13. QED
    BY <2>1, <2>2, <2>3, <2>4, <2>5, <2>6, <2>7, <2>8, <2>9, <2>10, <2>11, <2>12
       DEF Next, Loop
<1>3. QED
  BY <1>1, <1>2, PTL DEF Spec

(* Whoever connects, whatever the others do: a tick that is due waits for  *)
(* one client at most (the order of the file descriptors in App::run).     *)
THEOREM OneClientBeforeATick == Spec => []TickWaitsForOneClient
<1>1. TickIsNext => TickWaitsForOneClient
  BY DEF TickIsNext, TickWaitsForOneClient
<1>2. QED
  BY <1>1, OneAtATime, PTL

----------------------------------------------------------------------------
(* The connections.                                                        *)

ClientState == Waiting \cup {"out", "answered", "unanswered"}

LoopTypes ==
    /\ loop \in {"poll", "wl", "timer", "cursor", "ctl", "recv", "exited"}
    /\ revents \subseteq {"wl", "timer", "ctl"}
    /\ wl \in {"quiet", "event", "closed", "lost"}
    /\ {due, listening, sleeping, shouldQuit} \subseteq BOOLEAN
    /\ request \in [Clients -> Requests]
    /\ client \in [Clients -> ClientState]
    /\ served \in Clients \cup {Nobody} /\ (served = Nobody <=> loop # "recv")

\* Everybody who waits is in the queue, once, or is the one being served; and
\* poll() reports the socket only if somebody can be accepted, who stays.
Connections ==
    /\ queue \in Seq(Clients) /\ Once(queue)
    /\ served \notin Members(queue)
    /\ \A c \in Clients : client[c] \in Waiting <=> c \in Members(queue) \/ c = served
    /\ "ctl" \in revents /\ loop \in {"wl", "timer", "cursor", "ctl"} => queue # <<>>

LoopInv == LoopTypes /\ Connections

LEMMA EmptyQueue == <<>> \in Seq(Clients) /\ Once(<<>>) /\ Members(<<>>) = {}
BY EmptySeq DEF Once, Members

LEMMA LoopInit == Init => LoopInv
BY EmptyQueue, ClientsAssumption
   DEF Init, LoopInv, LoopTypes, Connections, ClientState, Waiting, Nobody

(* Nobody's connection changes hands but when the thread accepts or        *)
(* answers, or the daemon ends.                                            *)
LEMMA LoopStep == LoopInv /\ Loop => LoopInv'
<1> SUFFICES ASSUME LoopInv, Loop PROVE LoopInv'
  OBVIOUS
<1> USE DEF LoopInv, LoopTypes
<1>1. CASE Poll
  <2>1. "ctl" \in Ready => queue # <<>>
    BY DEF Ready
  <2>2. Ready \subseteq {"wl", "timer", "ctl"}
    BY DEF Ready
  <2>3. QED
    BY <1>1, <2>1, <2>2 DEF Poll, Connections, peers, quitVars
<1>2. CASE DispatchPending
  BY <1>2 DEF DispatchPending, Connections, peers
<1>3. CASE Exit
  <2>1. client' \in [Clients -> ClientState] /\ (\A c \in Clients : client'[c] \notin Waiting)
    BY <1>3 DEF Exit, ClientState, Waiting
  <2>2. served' = Nobody /\ UNCHANGED request
    BY <1>3 DEF Exit, peers
  <2>3. QED
    BY <1>3, <2>1, <2>2, EmptyQueue, ClientsAssumption DEF Exit, Connections, quitVars
<1>4. CASE RunTick
  BY <1>4 DEF RunTick, Connections, peers, quitVars
<1>5. CASE Accept
  <2>1. CASE "ctl" \in revents
    <3>1. /\ Head(queue) \in Members(queue) /\ Head(queue) \in Clients
          /\ queue' \in Seq(Clients) /\ Once(queue')
          /\ Members(queue') = Members(queue) \ {Head(queue)}
          /\ served' = Head(queue) /\ loop' = "recv" /\ UNCHANGED client
      BY <1>5, <2>1, TailMembers DEF Accept, Connections
    <3>2. served = Nobody
      BY <1>5 DEF Accept
    <3>3. Connections'
      BY <3>1, <3>2, ClientsAssumption DEF Connections
    <3>4. QED
      BY <1>5, <3>1, <3>3, ClientsAssumption DEF Accept, quitVars
  <2>2. CASE "ctl" \notin revents
    BY <1>5, <2>2 DEF Accept, Connections, quitVars
  <2>3. QED
    BY <2>1, <2>2
<1>6. CASE Handle
  <2>1. served \in Clients /\ served' = Nobody /\ UNCHANGED <<queue, request>>
    BY <1>6 DEF Handle, Heard
  <2>2. /\ client'[served] \in {"answered", "out"}
        /\ \A c \in Clients \ {served} : client'[c] = client[c]
        /\ client' \in [Clients -> ClientState]
    BY <1>6, <2>1 DEF Handle, ClientState
  <2>3. \A c \in Clients : client'[c] \in Waiting <=> c \in Members(queue)
    <3>1. client'[served] \notin Waiting /\ served \notin Members(queue)
      BY <2>2 DEF Connections, Waiting
    <3>2. QED
      BY <2>2, <3>1 DEF Connections
  <2>4. Nobody \notin Members(queue)
    BY LenProperties, ClientsAssumption DEF Connections, Members
  <2>5. Connections'
    BY <1>6, <2>1, <2>3, <2>4, ClientsAssumption DEF Handle, Connections
  <2>6. QED
    BY <1>6, <2>1, <2>2, <2>5 DEF Handle
<1>7. QED
  BY <1>1, <1>2, <1>3, <1>4, <1>5, <1>6 DEF Loop

(* The other processes only ever join the end of the queue.                *)
LEMMA PeerStep == LoopInv /\ Peer => LoopInv'
<1> SUFFICES ASSUME LoopInv, NEW c \in Clients, Connect(c) \/ Send(c) \/ HangUp(c)
             PROVE  LoopInv'
  BY DEF Peer
<1> USE DEF LoopInv, LoopTypes, loopVars, quitVars
<1>1. CASE Connect(c)
  <2>1. /\ client[c] \in {"out", "answered"} /\ client' = [client EXCEPT ![c] = "silent"]
        /\ queue' = Append(queue, c)
    BY <1>1 DEF Connect, Becomes
  <2>2. c \notin Members(queue) /\ c # served
    BY <2>1 DEF Connections, Waiting
  <2>3. /\ queue' \in Seq(Clients) /\ queue' # <<>> /\ Once(queue')
        /\ Members(queue') = Members(queue) \cup {c}
    BY <2>1, <2>2, AppendMembers DEF Connections
  <2>4. client' \in [Clients -> ClientState]
    BY <2>1 DEF ClientState, Waiting
  <2>5. Connections'
    BY <1>1, <2>1, <2>2, <2>3 DEF Connect, Connections, Waiting
  <2>6. request' \in [Clients -> Requests]
    BY <1>1 DEF Connect
  <2>7. QED
    BY <1>1, <2>4, <2>5, <2>6 DEF Connect
<1>2. CASE Send(c) \/ HangUp(c)
  <2>1. /\ client[c] \in Waiting
        /\ \E s \in Waiting : client' = [client EXCEPT ![c] = s]
        /\ UNCHANGED <<loopVars, quitVars, wl, due, listening, queue, request>>
    BY <1>2 DEF Send, HangUp, Becomes, Waiting
  <2>2. /\ client' \in [Clients -> ClientState]
        /\ \A d \in Clients : client'[d] \in Waiting <=> client[d] \in Waiting
    BY <2>1 DEF ClientState
  <2>3. QED
    BY <2>1, <2>2 DEF Connections
<1>3. QED
  BY <1>1, <1>2

(* Every connection is in the hands of exactly one: of the queue, or of    *)
(* the accept_one() that reads from it.                                    *)
THEOREM LoopInvariant == Spec => []LoopInv
<1>1. LoopInv /\ [Next]_vars => LoopInv'
  <2> SUFFICES ASSUME LoopInv, [Next]_vars PROVE LoopInv'
    OBVIOUS
  <2>1. CASE QuitThread \/ TimerFires \/ CompositorSends \/ CursorAnswered
    BY <2>1 DEF QuitThread, TimerFires, CompositorSends, CursorAnswered, LoopInv, LoopTypes,
                Connections, loopVars, peers, quitVars
  <2>2. CASE UNCHANGED vars
    BY <2>2 DEF vars, LoopInv, LoopTypes, Connections, loopVars, peers, quitVars
  <2>3. QED
    BY <2>1, <2>2, LoopStep, PeerStep DEF Next
<1>2. QED
  BY LoopInit, <1>1, PTL DEF Spec

(* Nobody is lost and nobody is served twice, whoever connects, hangs up   *)
(* or dies when (ControlSocket::accept_one, App::run).                     *)
THEOREM NobodyIsLost == Spec => []TypeOK
<1>1. LoopInv => TypeOK
  <2> SUFFICES ASSUME LoopInv PROVE TypeOK
    OBVIOUS
  <2>1. Queued = Members(queue)
    BY DEF Queued, Members
  <2>2. Cardinality(Queued) = Len(queue)
    BY <2>1, OnceCounts DEF LoopInv, Connections
  <2>3. {c \in Clients : client[c] \in Waiting} = Members(queue) \cup ({served} \ {Nobody})
    <3>1. Members(queue) \subseteq Clients
      BY LenProperties DEF Members, LoopInv, Connections
    <3>2. QED
      BY <3>1, ClientsAssumption DEF LoopInv, LoopTypes, Connections
  <2>4. QED
    BY <2>1, <2>2, <2>3 DEF TypeOK, LoopInv, LoopTypes, Connections, ClientState
<1>2. QED
  BY <1>1, LoopInvariant, PTL

----------------------------------------------------------------------------
(* The server that the loop amounts to.                                    *)

\* A line is joined at its end and left at its front, wherever it begins.
LEMMA LineOfOne ==
    ASSUME NEW q \in Seq(Clients), NEW s \in Clients
    PROVE  /\ <<s>> \o q # <<>> /\ Head(<<s>> \o q) = s /\ Tail(<<s>> \o q) = q
           /\ \A c \in Clients : <<s>> \o Append(q, c) = Append(<<s>> \o q, c)
           /\ q # <<>> => <<Head(q)>> \o Tail(q) = q
OBVIOUS

\* Nobody has overtaken a tick that is not due.
OnTime == ~due => overtaken = 0

LEMMA OnlyWhatIsDue == Spec => []OnTime
<1>1. Init => OnTime
  BY DEF Init, OnTime
<1>2. OnTime /\ [Next]_vars => OnTime'
  BY DEF OnTime, Next, Loop, Poll, DispatchPending, Exit, RunTick, Accept, Handle, QuitThread,
         TimerFires, CompositorSends, CursorAnswered, Peer, Connect, Send, HangUp, vars
<1>3. QED
  BY <1>1, <1>2, PTL DEF Spec

Seen == LoopInv /\ TickIsNext /\ OnTime

LEMMA SeenTypes ==
    ASSUME Seen
    PROVE  /\ queue \in Seq(Clients) /\ served \in Clients \cup {Nobody}
           /\ client \in [Clients -> ClientState] /\ due \in BOOLEAN
           /\ (served = Nobody <=> loop # "recv")
BY DEF Seen, LoopInv, LoopTypes, Connections

\* What the outside cannot tell.
LEMMA Unnoticed ==
    ASSUME UNCHANGED <<listening, queue, served, client, due, overtaken>>
    PROVE  UNCHANGED Server!vars
BY DEF Server!vars, Line, Talk, Owed

LEMMA AcceptUnnoticed ==
    ASSUME Seen, Accept
    PROVE  UNCHANGED Server!vars
<1>1. UNCHANGED <<listening, client, due, overtaken>>
  BY DEF Accept
<1>2. Line' = Line
  <2>1. CASE "ctl" \in revents
    <3>1. served = Nobody /\ queue # <<>> /\ queue \in Seq(Clients)
      BY <2>1 DEF Seen, LoopInv, LoopTypes, Connections, Accept
    <3>2. served' = Head(queue) /\ queue' = Tail(queue) /\ Head(queue) \in Clients
      BY <2>1, <3>1 DEF Accept
    <3>3. Line = queue /\ Line' = <<Head(queue)>> \o Tail(queue)
      BY <3>1, <3>2, ClientsAssumption DEF Line
    <3>4. QED
      BY <3>1, <3>2, <3>3, LineOfOne
  <2>2. CASE "ctl" \notin revents
    BY <2>2 DEF Accept, Line
  <2>3. QED
    BY <2>1, <2>2
<1>3. QED
  BY <1>1, <1>2 DEF Server!vars, Talk, Owed

LEMMA RunTickTicks ==
    ASSUME Seen, RunTick
    PROVE  Server!Tick \/ UNCHANGED Server!vars
<1>1. UNCHANGED <<listening, queue, served, client>>
  BY DEF RunTick, peers
<1>2. UNCHANGED <<listening, Line, Talk>>
  BY <1>1 DEF Line, Talk
<1>3. Owed' = "none" \/ Owed' = Owed
  BY DEF RunTick, Owed
<1>4. QED
  BY <1>2, <1>3 DEF Server!Tick, Server!vars

LEMMA TimerOwes ==
    ASSUME Seen, TimerFires
    PROVE  Server!TickDue
<1>1. UNCHANGED <<listening, Line, Talk>>
  BY DEF TimerFires, loopVars, peers, Line, Talk
<1>2. Owed = "none" /\ Owed' = "due"
  BY DEF Seen, OnTime, TimerFires, Owed
<1>3. QED
  BY <1>1, <1>2 DEF Server!TickDue

LEMMA HandleAnswers ==
    ASSUME Seen, Handle
    PROVE  Server!Answer
<1>1. served \in Clients /\ served' = Nobody /\ UNCHANGED <<queue, listening, due>>
  BY SeenTypes DEF Handle, Heard
<1>2. Line = <<served>> \o queue /\ Line' = queue
  BY <1>1, ClientsAssumption DEF Line
<1>3. Line # <<>> /\ Head(Line) = served /\ Line' = Tail(Line)
  BY <1>1, <1>2, SeenTypes, LineOfOne
<1>4. client[served] \in {"asked", "hungup", "left"}
  BY <1>1, SeenTypes DEF Handle, Heard, Seen, LoopInv, Connections, Waiting
<1>5. Talk[served] = IF client[served] = "asked" THEN "asked" ELSE "gone"
  BY <1>1, <1>4 DEF Talk
<1>6. Talk' = [Talk EXCEPT ![served] = IF Talk[served] = "asked" THEN "answered" ELSE "away"]
  <2>1. client' = [client EXCEPT ![served] = IF client[served] = "asked" THEN "answered"
                                             ELSE "out"]
    BY DEF Handle
  <2>2. ASSUME NEW c \in Clients \ {served} PROVE Talk'[c] = Talk[c]
    BY <2>1, SeenTypes DEF Talk
  <2>3. Talk'[served] = IF Talk[served] = "asked" THEN "answered" ELSE "away"
    BY <1>1, <1>5, <2>1, SeenTypes DEF Talk
  <2>4. QED
    BY <1>1, <2>2, <2>3 DEF Talk
<1>7. Owed # "late" /\ Owed' = IF Owed = "due" THEN "late" ELSE Owed
  <2>1. overtaken = 0
    BY DEF Seen, TickIsNext, Handle
  <2>2. QED
    BY <1>1, <2>1, SeenTypes DEF Handle, Overtaken, Owed
<1>8. QED
  BY <1>1, <1>3, <1>5, <1>6, <1>7 DEF Server!Answer

LEMMA ExitCloses ==
    ASSUME Seen, Exit
    PROVE  Server!Close
<1>1. listening' = FALSE /\ queue' = <<>> /\ served' = Nobody /\ UNCHANGED <<due, overtaken>>
  BY SeenTypes DEF Exit
<1>2. Line' = <<>> /\ Owed' = Owed
  BY <1>1 DEF Line, Owed
<1>3. Talk' = [c \in Clients |-> CASE Talk[c] \in {"silent", "asked"} -> "unanswered"
                                   [] Talk[c] = "gone"                -> "away"
                                   [] OTHER                           -> Talk[c]]
  <2>1. ASSUME NEW c \in Clients
        PROVE  Talk'[c] = CASE Talk[c] \in {"silent", "asked"} -> "unanswered"
                            [] Talk[c] = "gone"                -> "away"
                            [] OTHER                           -> Talk[c]
    <3>1. client[c] \in ClientState
      BY SeenTypes
    <3>2. client'[c] = IF client[c] \in {"silent", "asked"} THEN "unanswered"
                       ELSE IF client[c] \in Waiting THEN "out" ELSE client[c]
      BY DEF Exit
    <3>3. QED
      BY <3>1, <3>2 DEF Talk, ClientState, Waiting
  <2>2. QED
    BY <2>1 DEF Talk
<1>4. QED
  BY <1>1, <1>2, <1>3 DEF Server!Close

LEMMA PeerTalks ==
    ASSUME Seen, NEW c \in Clients, Connect(c) \/ Send(c) \/ HangUp(c)
    PROVE  Server!Arrive(c) \/ Server!Ask(c) \/ Server!GiveUp(c)
<1>0. ASSUME NEW from, NEW to, Becomes(c, from, to),
             from \subseteq ClientState, to \in ClientState
      PROVE  Talk' = [Talk EXCEPT ![c] = CASE to = "out" -> "away"
                                           [] to \in {"hungup", "left"} -> "gone"
                                           [] OTHER -> to]
  BY <1>0, SeenTypes DEF Becomes, Talk
<1>1. CASE Connect(c)
  <2>1. /\ listening /\ UNCHANGED <<listening, served, due, overtaken>>
        /\ queue' = Append(queue, c) /\ Becomes(c, {"out", "answered"}, "silent")
    BY <1>1 DEF Connect, loopVars
  <2>2. Line' = Append(Line, c)
    BY <2>1, SeenTypes, LineOfOne DEF Line
  <2>3. Talk' = [Talk EXCEPT ![c] = "silent"]
    BY <1>0, <2>1 DEF ClientState, Waiting
  <2>4. Talk[c] \in {"away", "answered"}
    BY <2>1 DEF Becomes, Talk
  <2>5. QED
    BY <2>1, <2>2, <2>3, <2>4 DEF Server!Arrive, Owed
<1>2. CASE Send(c)
  <2>1. /\ UNCHANGED <<listening, queue, served, due, overtaken>>
        /\ Becomes(c, {"silent"}, "asked")
    BY <1>2 DEF Send, loopVars
  <2>2. Talk' = [Talk EXCEPT ![c] = "asked"] /\ Talk[c] = "silent"
    BY <1>0, <2>1 DEF ClientState, Waiting, Becomes, Talk
  <2>3. QED
    BY <2>1, <2>2 DEF Server!Ask, Line, Owed
<1>3. CASE HangUp(c)
  <2>1. /\ UNCHANGED <<listening, queue, served, due, overtaken>>
        /\ Becomes(c, {"silent"}, "hungup") \/ Becomes(c, {"asked"}, "left")
    BY <1>3 DEF HangUp, loopVars
  <2>2. Talk' = [Talk EXCEPT ![c] = "gone"] /\ Talk[c] \in {"silent", "asked"}
    BY <1>0, <2>1 DEF ClientState, Waiting, Becomes, Talk
  <2>3. QED
    BY <2>1, <2>2 DEF Server!GiveUp, Line, Owed
<1>4. QED
  BY <1>1, <1>2, <1>3

(* To its clients and to the cat, App::run is the server of TickingServer: *)
(* first come first served, and one answer at most before a tick.          *)
THEOREM LoopImplementsServer == Spec => ServesInTurn
<1>1. Init => Server!Init
  BY ClientsAssumption DEF Init, Server!Init, Line, Talk, Owed
<1>2. Seen /\ [Next]_vars => [Server!Next]_(Server!vars)
  <2> SUFFICES ASSUME Seen, [Next]_vars PROVE [Server!Next]_(Server!vars)
    OBVIOUS
  <2>1. CASE Poll \/ DispatchPending \/ QuitThread \/ CompositorSends \/ CursorAnswered
    BY <2>1, Unnoticed DEF Poll, DispatchPending, QuitThread, CompositorSends,
          CursorAnswered, peers, loopVars
  <2>2. CASE UNCHANGED vars
    BY <2>2, Unnoticed DEF vars, peers, loopVars
  <2>3. CASE Accept
    BY <2>3, AcceptUnnoticed
  <2>4. CASE RunTick
    BY <2>4, RunTickTicks DEF Server!Next
  <2>5. CASE TimerFires
    BY <2>5, TimerOwes DEF Server!Next
  <2>6. CASE Handle
    BY <2>6, HandleAnswers DEF Server!Next
  <2>7. CASE Exit
    BY <2>7, ExitCloses DEF Server!Next
  <2>8. CASE Peer
    BY <2>8, PeerTalks DEF Peer, Server!Next
  <2>9. QED
    BY <2>1, <2>2, <2>3, <2>4, <2>5, <2>6, <2>7, <2>8 DEF Next, Loop
<1>3. Spec => []Seen
  BY LoopInvariant, OneAtATime, OnlyWhatIsDue, PTL DEF Seen
<1>4. QED
  BY <1>1, <1>2, <1>3, PTL DEF Spec, ServesInTurn, Server!Spec
============================================================================
