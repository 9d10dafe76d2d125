--------------------------------- MODULE Cli ---------------------------------
(***************************************************************************)
(* parse_cli: what a command line asks for.  An argument is a pair of a    *)
(* name and of what follows its "=", or None.                              *)
(***************************************************************************)
EXTENDS Integers, SequencesExt

CONSTANT MaxNumeral   \* bound: the numbers that are written on a line

ASSUME NumeralAssumption == MaxNumeral \in Nat \ {0}

None == "(none)"
Word(w) == <<w, None>>

\* std::atoi: a text that is no number is 0.
Atoi(text) ==
    LET Written == {n \in -1..MaxNumeral : ToString(n) = text}
    IN  IF Written = {} THEN 0 ELSE CHOOSE n \in Written : TRUE

NumberFlags == {"--study-minutes", "--break-minutes", "--long-break-minutes",
                "--sessions-before-long-break"}
PathFlags   == {"--config", "-c"}
ValueFlags  == NumberFlags \cup PathFlags \cup {"--focus-corner"}

\* Arguments that begin with a dash; --unknown stands for any other of them.
Dashed == ValueFlags \cup {"-h", "--help", "--version", "--pomodoro", "--unknown", "-1"}

\* What each verb makes of the action and of the request.
VerbAction ==
    [v \in {"run", "toggle", "quit", "status", "waybar-status"} |->
        CASE v = "run"           -> "RunDaemon"
          [] v = "waybar-status" -> "PrintWaybarStatus"
          [] OTHER               -> "ForwardToDaemon"]
VerbRequest == [toggle |-> "pet:toggle", quit |-> "pet:quit", status |-> "pet:status"]

NewCliResult ==
    [action |-> "RunDaemon", request |-> "", path |-> "", autostart |-> FALSE,
     number |-> [f \in NumberFlags |-> -1], corner |-> ""]

Text(arg) == IF arg[2] = None THEN arg[1] ELSE arg[1] \o "=" \o arg[2]

Store(r, flag, text) ==
    CASE flag \in PathFlags        -> [r EXCEPT !.path = text]
      [] flag = "--focus-corner"   -> [r EXCEPT !.corner = text]
      [] flag \in NumberFlags      -> [r EXCEPT !.number[flag] = Atoi(text)]

Verb(r, v) ==
    [r EXCEPT !.action = VerbAction[v],
              !.request = IF v \in DOMAIN VerbRequest THEN VerbRequest[v] ELSE @]

Autostart(r) == [r EXCEPT !.action = "RunDaemon", !.autostart = TRUE]

\* Faulty: pomodoro takes an option for its command.
HasSubAnything(next) == next # <<>>

\* pomodoro is followed by a command, unless an option, an empty argument or
\* nothing comes next.
HasSub(next) == next # <<>> /\ Head(next) # Word("") /\ Head(next)[1] \notin Dashed

\* One turn of the loop, on what is left to read and what it makes so far.
Turn(s) ==
    LET a    == Head(s.args)
        next == Tail(s.args)
        r    == s.result
        Goes(rest, result) == [args |-> rest, result |-> result]
        Ends(action)       == Goes(<<>>, [r EXCEPT !.action = action])
    IN  IF s.args = <<>> THEN s
        ELSE
        CASE a \in {Word("-h"), Word("--help")} -> Ends("PrintHelp")
          [] a = Word("--version") -> Ends("PrintVersion")
          [] a[1] \in ValueFlags /\ a[2] # None -> Goes(next, Store(r, a[1], a[2]))
          [] a[1] \in ValueFlags /\ a[2] = None ->
                 IF next = <<>> THEN Ends("Error")
                 ELSE Goes(Tail(next), Store(r, a[1], Text(Head(next))))
          [] a = Word("pomodoro") /\ HasSub(next) ->
                 Goes(Tail(next), [r EXCEPT !.action = "ForwardToDaemon",
                                            !.request = "pomodoro:" \o Text(Head(next))])
          [] a = Word("--pomodoro") \/ (a = Word("pomodoro") /\ ~HasSub(next)) ->
                 Goes(next, Autostart(r))
          [] a[1] \in DOMAIN VerbAction /\ a[2] = None -> Goes(next, Verb(r, a[1]))
          [] OTHER -> Ends("Error")

\* What each turn leaves of args; none reads less than an argument, so that
\* there are enough of them.
Turns(args) ==
    LET after[n \in 0..Len(args)] ==
            IF n = 0 THEN [args |-> args, result |-> NewCliResult]
            ELSE Turn(after[n - 1])
    IN  after

ParseCli(args) == Turns(args)[Len(args)].result
============================================================================
