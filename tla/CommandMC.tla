----------------------------- MODULE CommandMC -----------------------------
(* Command for TLC: what is typed at two daemons and a command or two, a   *)
(* file that asks for the division by zero, and an output or none.         *)
EXTENDS Command

W(names) == [i \in DOMAIN names |-> Word(names[i])]

TypedLines ==
    { <<>>, W(<<"run", "-c", "zero", "--pomodoro">>), W(<<"--help">>),
      W(<<"pomodoro", "skip">>), W(<<"pomodoro", "start">>), W(<<"waybar-status">>), W(<<"quit">>) }

TwoFiles == "" :> <<<<"monitor", "DP-1">>>> @@
            "zero" :> <<<<"pomodoro_sessions_before_long_break", "0">>>>

TwoScreens ==
    {[display |-> TRUE, globals |-> TRUE, outputs |-> o] : o \in {{}, {"DP-1"}, {"HDMI-1"}}}

MixedArguments ==
    { Word("--study-minutes"), <<"--study-minutes", "2">>, Word("-1"), Word("pomodoro"),
      Word("--pomodoro"), Word("toggle"), Word("waybar-status"), Word("--help"), Word(""),
      <<"--config", "named">>, <<"--focus-corner", "upstairs">>, Word("--unknown") }

MixedLines ==
    { <<"pomodoro_study_minutes", "2">>, <<"pomodoro_study_minutes", "often">>,
      <<"enable_pomodoro", "on">>, <<"pomodoro_auto_start", "1">>, <<"behavior", "sit">>,
      <<"# key", "1">> }
============================================================================
