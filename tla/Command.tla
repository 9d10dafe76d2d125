------------------------------- MODULE Command -------------------------------
(***************************************************************************)
(* main: every run of aymm reads its command line and becomes a daemon, a  *)
(* command to the daemon that owns the socket, or neither.  Composes the   *)
(* command line and the configuration with the daemons of ControlSocket,   *)
(* of which as much is added as a command can tell: the kind of its phase, *)
(* and the division that may end it.                                       *)
(***************************************************************************)
EXTENDS Config, FiniteSets

CONSTANTS
    Daemons, Clients,  \* the runs that turn out to be daemons, and the others
    CommandLines,      \* what is typed
    Files,             \* the configuration files there are, by path
    Screens,           \* what a compositor may offer
    Arguments, Lines,  \* alphabets, and
    MaxArguments, MaxLines    \* bounds, of what LaunchesAsMeant ranges over

ASSUME TextAssumption ==
    /\ CommandLines \subseteq Seq(STRING \X STRING)
    /\ \A p \in DOMAIN Files : Files[p] \in Seq(STRING \X STRING)
    /\ Arguments \subseteq STRING \X STRING /\ Lines \subseteq STRING \X STRING

VARIABLES
    daemon, bound, path, overlapped, refused,    \* as in ControlSocket
    sessions,      \* of each daemon: cfg_.pomodoro_sessions_before_long_break
    phase,         \* of each daemon: the phase of its timer, running or paused
    client         \* the other runs of aymm

socketVars == <<daemon, bound, path, overlapped, refused>>
vars == <<daemon, bound, path, overlapped, refused, sessions, phase, client>>

Socket == INSTANCE ControlSocket

ASSUME NobodyAssumption == Socket!Nobody \notin Daemons

----------------------------------------------------------------------------
(* From the arguments to what main does.                                   *)

NumberFlag ==
    [pomodoro_study_minutes |-> "--study-minutes",
     pomodoro_break_minutes |-> "--break-minutes",
     pomodoro_long_break_minutes |-> "--long-break-minutes",
     pomodoro_sessions_before_long_break |-> "--sessions-before-long-break"]

Corners == Known["pomodoro_focus_corner"] \cup {"bottom-right"}

\* A number that is not positive leaves the value of the file alone.
Override(cfg, cli) ==
    [k \in DOMAIN cfg |->
        IF k \in DOMAIN NumberFlag /\ cli.number[NumberFlag[k]] > 0
        THEN cli.number[NumberFlag[k]]
        ELSE IF k = "pomodoro_focus_corner" /\ cli.corner # "" THEN cli.corner
        ELSE cfg[k]]

FileAt(files, p) == IF p \in DOMAIN files THEN files[p] ELSE <<>>

Exits(code)      == [does |-> "exits", code |-> code]
Asks(bar, r)     == [does |-> "asks", bar |-> bar, request |-> r]
Serves(cfg, now) == [does |-> "serves", config |-> cfg, autostart |-> now]

Main(args, files) ==
    LET cli == ParseCli(args)
        cfg == Override(ConfigLoad(FileAt(files, cli.path)), cli)
    IN  CASE cli.action \in {"PrintHelp", "PrintVersion"} -> Exits(0)
          [] cli.action = "Error"             -> Exits(2)
          [] cli.action = "ForwardToDaemon"   -> Asks(FALSE, cli.request)
          [] cli.action = "PrintWaybarStatus" -> Asks(TRUE, "waybar-status")
          [] cli.action = "RunDaemon"         ->
                 IF cli.corner \notin Corners \cup {""} THEN Exits(2)
                 ELSE Serves(cfg, cli.autostart \/ ( /\ cfg.enable_pomodoro
                                                     /\ cfg.pomodoro_auto_start ))

Typed == {Main(args, Files) : args \in CommandLines}

\* OverlaySurface::connect, on what a compositor offers.
Connects(cfg, screen) ==
    /\ screen.display /\ screen.globals
    /\ screen.outputs # {}
    /\ cfg.monitor # "auto" => cfg.monitor \in screen.outputs

----------------------------------------------------------------------------
NewClient == [at |-> "new", bar |-> FALSE, request |-> "", to |-> Socket!Nobody,
              code |-> 0, printed |-> "", heard |-> FALSE]

Init ==
    /\ Socket!Init
    /\ sessions = [d \in Daemons |-> 1]
    /\ phase = [d \in Daemons |-> "Stopped"]
    /\ client = [c \in Clients |-> NewClient]

(* A daemon, as far as commands can tell.                                  *)

Launch(d) ==
    \E main \in Typed, screen \in Screens :
        /\ main.does = "serves"
        /\ IF Connects(main.config, screen) THEN Socket!StartUp(d) ELSE Socket!NoOverlay(d)
        /\ sessions' = [sessions EXCEPT ![d] = main.config.pomodoro_sessions_before_long_break]
        /\ phase' = [phase EXCEPT ![d] = IF main.autostart THEN "Focus" ELSE @]
        /\ UNCHANGED client

\* PomodoroTimer::tick divides by the number of sessions: a signal ends the
\* process there.
EndPhase(d) ==
    /\ phase[d] # "Stopped"
    /\ IF phase[d] = "Focus" /\ sessions[d] = 0
       THEN Socket!Killed(d) /\ UNCHANGED phase
       ELSE /\ phase' = [phase EXCEPT ![d] = IF @ = "Focus" THEN "Break" ELSE "Focus"]
            /\ UNCHANGED socketVars

Tick(d) == daemon[d] \in Socket!Up /\ EndPhase(d) /\ UNCHANGED <<sessions, client>>

\* handle_request, up to its reply, which is never empty.
Handle(d, r) ==
    \/ r = "pomodoro:skip" /\ EndPhase(d)
    \/ /\ r = "pomodoro:skip" => phase[d] = "Stopped"
       /\ phase' = [phase EXCEPT ![d] =
                      CASE r \in {"pomodoro:start", "pomodoro:toggle"} /\ @ = "Stopped" -> "Focus"
                        [] r = "pomodoro:stop" -> "Stopped"
                        [] OTHER -> @]
       /\ UNCHANGED socketVars

Ends(d) ==
    /\ \/ Socket!Refused(d) \/ Socket!Leave(d) \/ Socket!Killed(d)
    /\ UNCHANGED <<sessions, phase, client>>

Binds(d) == Socket!Binds(d) /\ UNCHANGED <<sessions, phase, client>>

----------------------------------------------------------------------------
(* The other runs.                                                         *)

\* Faulty: an empty reply is a failure.
ExitCodeOfReply(reply, err) == IF reply = "" THEN 1 ELSE 0

\* An empty reply without an error is a success.
ExitCode(reply, err) == IF reply = "" /\ err THEN 1 ELSE 0

\* What main does with the answer of send_request.
Code(c, reply, err) == IF c.bar THEN 0 ELSE ExitCode(reply, err)

Printed(c, reply, err) ==
    CASE reply # ""           -> "reply"
      [] reply = "" /\ c.bar  -> "stopped"
      [] reply = "" /\ ~c.bar -> IF err THEN "error" ELSE "nothing"

Answered(c, reply, err) ==
    [c EXCEPT !.at = "over", !.code = Code(c, reply, err),
              !.printed = Printed(c, reply, err)]

\* connect() finds a socket that is listened on, unless a call fails.
Ask(c) ==
    \E main \in Typed, fails \in BOOLEAN :
        LET asker == [client[c] EXCEPT !.bar = main.bar, !.request = main.request]
        IN  /\ client[c].at = "new" /\ main.does = "asks"
            /\ client' = [client EXCEPT ![c] =
                 IF ~fails /\ \E d \in Daemons : Socket!Reaches(d)
                 THEN [asker EXCEPT !.at = "asked", !.to = path]
                 ELSE Answered(asker, "", TRUE)]
            /\ UNCHANGED <<daemon, bound, path, overlapped, refused, sessions, phase>>

Reject(c) ==
    \E main \in Typed :
        /\ client[c].at = "new" /\ main.does = "exits"
        /\ client' = [client EXCEPT ![c].at = "over", ![c].code = main.code]
        /\ UNCHANGED <<daemon, bound, path, overlapped, refused, sessions, phase>>

\* accept_one: the daemon may die of the request before it replies.
Serve(d) ==
    \E c \in Clients :
        LET heard == [client[c] EXCEPT !.heard = TRUE]
        IN  /\ daemon[d] = "up" /\ client[c].at = "asked" /\ client[c].to = d
            /\ ~client[c].heard
            /\ Handle(d, client[c].request)
            /\ client' = [client EXCEPT ![c] = IF daemon'[d] = "up" THEN Answered(heard, "reply", FALSE)
                                               ELSE heard]
            /\ UNCHANGED sessions

\* The daemon ends, and the kernel closes the connection: recv() returns 0.
HungUp(c) ==
    /\ client[c].at = "asked" /\ daemon[client[c].to] = "over"
    /\ client' = [client EXCEPT ![c] = Answered(@, "", FALSE)]
    /\ UNCHANGED <<daemon, bound, path, overlapped, refused, sessions, phase>>

----------------------------------------------------------------------------
Next ==
    \/ \E d \in Daemons : Launch(d) \/ Binds(d) \/ Tick(d) \/ Serve(d) \/ Ends(d)
    \/ \E c \in Clients : Ask(c) \/ Reject(c) \/ HungUp(c)

\* A daemon that starts gets on with it, and one that is up serves those who
\* have asked; the kernel tells a command when its daemon has ended.
FairSpec ==
    /\ Init /\ [][Next]_vars
    /\ \A d \in Daemons : WF_vars(Binds(d)) /\ WF_vars(Serve(d))
    /\ \A c \in Clients : WF_vars(HungUp(c))

----------------------------------------------------------------------------
(* Properties.                                                             *)

TypeOK ==
    /\ Socket!TypeOK
    /\ sessions \in [Daemons -> Int]
    /\ phase \in [Daemons -> {"Stopped", "Focus", "Break"}]
    /\ \A c \in Clients :
        /\ client[c].at \in {"new", "asked", "over"} /\ client[c].code \in 0..2
        /\ client[c].to \in Daemons \cup {Socket!Nobody}
        /\ client[c].printed \in {"", "reply", "stopped", "error", "nothing"}
        /\ client[c].at = "asked" => client[c].to # Socket!Nobody

(* What the command line makes of main, said of the whole line at once.    *)

Is(arg, names) == arg[1] \in names /\ arg[2] = None

\* An option takes the argument after it, pomodoro takes it unless it is an
\* option or empty; the others are read.
Takes(args, i) ==
    \/ Is(args[i], ValueFlags)
    \/ /\ args[i] = Word("pomodoro") /\ i < Len(args)
       /\ args[i + 1][1] \notin Dashed /\ args[i + 1] # Word("")

IsRead(args, read) ==
    \A i \in DOMAIN args :
        i \in read <=> \/ i = 1
                       \/ i - 1 \in read /\ ~Takes(args, i - 1)
                       \/ i - 2 \in read /\ Takes(args, i - 2)

Read(args) == CHOOSE read \in SUBSET DOMAIN args : IsRead(args, read)

\* What does not end the reading, and what of it decides what main does.
Good(args, i) ==
    \/ Is(args[i], DOMAIN VerbAction \cup {"pomodoro", "--pomodoro"})
    \/ Is(args[i], ValueFlags) /\ i < Len(args)
    \/ args[i][1] \in ValueFlags /\ args[i][2] # None

Verbs(args, read)     == {i \in read : args[i][1] \notin ValueFlags}
Starts(args, i)       == Is(args[i], {"--pomodoro", "pomodoro"}) /\ ~Takes(args, i)
Given(args, read, names) == {i \in read : args[i][1] \in names}

LastOf(args, read, names, default) ==
    LET i == Max(Given(args, read, names))
    IN  IF Given(args, read, names) = {} THEN default
        ELSE IF args[i][2] = None THEN Text(args[i + 1]) ELSE args[i][2]

\* The last line for a key decides, or the default.
InFile(lines, k) ==
    LET at == {n \in DOMAIN lines : lines[n][1] = k}
    IN  IF at = {} THEN Defaults[k] ELSE Meaning(k, lines[Max(at)][2])

\* A number counts if the last one given is positive, over that of the file.
MeantConfig(args, read, files) ==
    LET lines  == FileAt(files, LastOf(args, read, PathFlags, ""))
        corner == LastOf(args, read, {"--focus-corner"}, "")
    IN  [k \in DOMAIN Defaults |->
            IF /\ k \in DOMAIN NumberFlag /\ Given(args, read, {NumberFlag[k]}) # {}
               /\ Atoi(LastOf(args, read, {NumberFlag[k]}, "")) > 0
            THEN Atoi(LastOf(args, read, {NumberFlag[k]}, ""))
            ELSE IF k = "pomodoro_focus_corner" /\ corner # "" THEN corner
            ELSE InFile(lines, k)]

\* The first thing that stops the reading decides, or else the last verb.
Meant(args, files) ==
    LET read   == Read(args)
        ends   == {i \in read : ~Good(args, i)}
        verbs  == Verbs(args, read)
        v      == Max(verbs)
        last   == IF verbs = {} THEN "run" ELSE args[v][1]
        corner == LastOf(args, read, {"--focus-corner"}, "")
        config == MeantConfig(args, read, files)
    IN  IF ends # {}
        THEN Exits(IF Is(args[Min(ends)], {"-h", "--help", "--version"}) THEN 0 ELSE 2)
        ELSE IF last \in DOMAIN VerbRequest THEN Asks(FALSE, VerbRequest[last])
        ELSE IF last = "waybar-status" THEN Asks(TRUE, last)
        ELSE IF last = "pomodoro" /\ Takes(args, v)
             THEN Asks(FALSE, "pomodoro:" \o Text(args[v + 1]))
        ELSE IF corner \notin Corners \cup {""} THEN Exits(2)
        ELSE Serves(config, \/ \E i \in verbs : Starts(args, i)
                            \/ config.enable_pomodoro /\ config.pomodoro_auto_start)

(* parse_cli, Config::load and the overrides of main, one argument and one *)
(* line at a time, come to the same, for every short line and file: flags  *)
(* that swallow a verb, a verb after another, "pomodoro" before an option, *)
(* numbers that are none.  No later state can change it.                   *)
LaunchesAsMeant ==
    (\A d \in Daemons : daemon[d] = "new") /\ (\A c \in Clients : client[c].at = "new") =>
        \A args \in BoundedSeq(Arguments, MaxArguments), lines \in BoundedSeq(Lines, MaxLines) :
            LET files == [p \in {"", "named"} |-> IF p = "" THEN lines ELSE <<>>]
            IN  Main(args, files) = Meant(args, files)

\* The socket keeps its promises below the commands and the crashes that
\* they cause: see ControlSocket.
AloneIsReachable == Socket!AloneIsReachable
UnservedLeavesSocket == Socket!UnservedLeavesSocket

(* A command can be read from its end.  Exit code 1: no daemon has heard   *)
(* it, and it may be given again.  A reply: the daemon it reached has      *)
(* heard it.  An empty line: that daemon has ended since, with or without  *)
(* having heard it, which a command whose crash it causes (skip with       *)
(* sessions_before_long_break=0) shares with one that came too late.  And  *)
(* waybar-status succeeds in any case.                                     *)
ExitTellsTheTruth ==
    \A c \in Clients : client[c].at = "over" =>
        /\ client[c].code = 1 => ~client[c].heard
        /\ client[c].printed = "reply" => client[c].heard
        /\ client[c].printed = "nothing" => daemon[client[c].to] = "over"
        /\ client[c].bar => client[c].code = 0
        /\ client[c].printed = "stopped" /\ client[c].to # Socket!Nobody =>
               daemon[client[c].to] = "over"

(* A daemon that starts ends up serving, or knows that its commands will   *)
(* not reach it, or has been killed; a command that has found a daemon     *)
(* comes back, though others and the crash of that daemon may be first.    *)
GetsOn ==
    /\ \A d \in Daemons : daemon[d] = "removing" ~> daemon[d] \in {"up", "deaf", "over"}
    /\ \A c \in Clients : client[c].at = "asked" ~> client[c].at = "over"
============================================================================
