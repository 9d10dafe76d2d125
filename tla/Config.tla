-------------------------------- MODULE Config --------------------------------
(***************************************************************************)
(* Config::load.  The file is a sequence of lines, each a pair of a key    *)
(* and a value; a comment, and a line without "=", has a key nobody knows. *)
(* A file that is not there is the empty one: both give the defaults.      *)
(* animation_name and overlay_opacity, which nothing reads, are left out.  *)
(***************************************************************************)
EXTENDS Cli

Defaults ==
    [behavior |-> "cursor_chase", cursor_source |-> "auto", cursor_poll_hz |-> 30,
     movement_speed |-> 8, idle_distance |-> 24, overlay_layer |-> "overlay",
     sprite_dir |-> "", monitor |-> "auto", surface_size |-> 256,
     enable_waybar_status |-> TRUE, enable_pomodoro |-> FALSE,
     pomodoro_study_minutes |-> 25, pomodoro_break_minutes |-> 5,
     pomodoro_long_break_minutes |-> 15,
     pomodoro_sessions_before_long_break |-> 4, pomodoro_auto_start |-> FALSE,
     pomodoro_show_notifications |-> TRUE,
     pomodoro_focus_corner |-> "bottom-right", pomodoro_focus_padding |-> 100]

Truths   == {"1", "true", "yes", "on"}
BoolKeys == {"enable_waybar_status", "enable_pomodoro", "pomodoro_auto_start",
             "pomodoro_show_notifications"}
TextKeys == {"sprite_dir", "monitor"}

\* The values a key understands, and what it makes of any other.
Known ==
    [behavior |-> {"cursor_chase"},
     cursor_source |-> {"auto", "hyprland", "wlroots", "evdev"},
     overlay_layer |-> {"background", "bottom", "top"},
     pomodoro_focus_corner |-> {"none", "bottom-left", "top-right", "top-left", "center"}]
Otherwise ==
    [behavior |-> "idle", cursor_source |-> "null", overlay_layer |-> "overlay",
     pomodoro_focus_corner |-> "bottom-right"]

Meaning(k, text) ==
    CASE k \in DOMAIN Known -> IF text \in Known[k] THEN text ELSE Otherwise[k]
      [] k \in BoolKeys       -> text \in Truths
      [] k \in TextKeys       -> text
      [] OTHER                -> Atoi(text)

Apply(c, line) ==
    IF line[1] \in DOMAIN Defaults
    THEN [c EXCEPT ![line[1]] = Meaning(line[1], line[2])] ELSE c

\* The configuration after each line.
Loaded(lines) ==
    LET after[n \in 0..Len(lines)] ==
            IF n = 0 THEN Defaults ELSE Apply(after[n - 1], lines[n])
    IN  after

ConfigLoad(lines) == Loaded(lines)[Len(lines)]
============================================================================
