---------------------------- MODULE TickingServer ----------------------------
(***************************************************************************)
(* What App::run promises to the commands that ask it and to the cat, with *)
(* no descriptors, threads or program counter: requests are answered one   *)
(* at a time and in the order in which their clients have connected, and   *)
(* between a tick becoming due and the tick it answers one at most.        *)
(***************************************************************************)
EXTENDS Sequences

CONSTANT Clients

VARIABLES
    open,          \* whether one may connect
    line,          \* who is connected, in the order of arrival
    talk,          \* how far each client has come
    tick           \* none, due, or late: due, and a client has been answered since

vars == <<open, line, talk, tick>>

Init ==
    /\ open \in BOOLEAN
    /\ line = <<>>
    /\ talk = [c \in Clients |-> "away"]
    /\ tick = "none"

Arrive(c) ==
    /\ open /\ talk[c] \in {"away", "answered"}
    /\ line' = Append(line, c)
    /\ talk' = [talk EXCEPT ![c] = "silent"]
    /\ UNCHANGED <<open, tick>>

Ask(c) ==
    /\ talk[c] = "silent" /\ talk' = [talk EXCEPT ![c] = "asked"]
    /\ UNCHANGED <<open, line, tick>>

\* Whoever is killed keeps its place in the line.
GiveUp(c) ==
    /\ talk[c] \in {"silent", "asked"} /\ talk' = [talk EXCEPT ![c] = "gone"]
    /\ UNCHANGED <<open, line, tick>>

\* Only the first in the line, and only when it has asked or is gone.
Answer ==
    /\ line # <<>> /\ tick # "late"
    /\ talk[Head(line)] \in {"asked", "gone"}
    /\ talk' = [talk EXCEPT ![Head(line)] = IF @ = "asked" THEN "answered" ELSE "away"]
    /\ line' = Tail(line)
    /\ tick' = IF tick = "due" THEN "late" ELSE tick
    /\ UNCHANGED open

TickDue ==
    /\ tick = "none" /\ tick' = "due"
    /\ UNCHANGED <<open, line, talk>>

Tick ==
    /\ tick # "none" /\ tick' = "none"
    /\ UNCHANGED <<open, line, talk>>

\* The end of the daemon: whoever is in the line learns that there is no answer.
Close ==
    /\ open' = FALSE /\ line' = <<>>
    /\ talk' = [c \in Clients |-> CASE talk[c] \in {"silent", "asked"} -> "unanswered"
                                    [] talk[c] = "gone"                -> "away"
                                    [] OTHER                           -> talk[c]]
    /\ UNCHANGED tick

Next == \/ \E c \in Clients : Arrive(c) \/ Ask(c) \/ GiveUp(c)
        \/ Answer \/ TickDue \/ Tick \/ Close

Spec == Init /\ [][Next]_vars
============================================================================
