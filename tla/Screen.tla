------------------------------- MODULE Screen -------------------------------
(***************************************************************************)
(* App::draw: what the daemon shows of its state whenever an output asks   *)
(* for a frame.  Drawing changes nothing, so a picture is a function of    *)
(* the state; of the paint, what a reader of the picture can tell is kept. *)
(***************************************************************************)
EXTENDS App, Sequences

LOCAL INSTANCE SequencesExt

CONSTANT Manifests    \* what there may be in sprite_dir

Nothing == [shows |-> "nothing"]

----------------------------------------------------------------------------
(* SpriteSheet.  A manifest is the lines of sheet.conf, each a key and a   *)
(* value, without the "anim." of a key; it is empty if there is no file.   *)
(* The value of an animation is its tokens: tiles, "mirror", and junk.     *)

Tiles(value) == SelectSeq(value, LAMBDA token : token \notin {"mirror", "junk"})

Animation(key, value) ==
    [shows |-> key, frames |-> Len(Tiles(value)), mirrored |-> Contains(value, "mirror")]

Keys(manifest) == {manifest[i].key : i \in DOMAIN manifest}

\* A later line of a key overrides an earlier one.
Value(manifest, key) ==
    manifest[Max({i \in DOMAIN manifest : manifest[i].key = key})].value

Sheet(manifest) ==
    [image |-> IF "image" \in Keys(manifest) THEN Value(manifest, "image") ELSE "",
     animations |-> [name \in Keys(manifest) \ {"image"} |->
                        Animation(name, Value(manifest, name))]]

\* Nothing when there is no manifest, no image in it, or no such image.
Load(manifest) ==
    IF Sheet(manifest).image \in {"", "missing.png"} THEN Nothing ELSE Sheet(manifest)

\* The heading is part of the name.
RunName ==
    [None |-> "run_none", E |-> "run_e", NE |-> "run_ne", N |-> "run_n", NW |-> "run_nw",
     W |-> "run_w", SW |-> "run_sw", S |-> "run_s", SE |-> "run_se"]

\* AnimationResolver::resolve: the names it tries, in their order.
Names(m) ==
    CASE m.state = "Sleep"           -> <<"sleep">>
      [] m.state = "Wake"            -> <<"wake">>
      [] m.state = "Idle"            -> <<"idle">>
      [] m.state = "DirectionChange" -> <<"direction_change", "idle">>
      [] m.state = "Run"             -> <<RunName[m.dir], "idle">>

\* The first of them that the sheet has.
Resolve(sheet, m) ==
    LET found == {i \in DOMAIN Names(m) : Names(m)[i] \in DOMAIN sheet.animations}
        first == CHOOSE i \in found : \A j \in found : i <= j
    IN  IF found = {} THEN Nothing ELSE sheet.animations[Names(m)[first]]

\* The sheet has been loaded.  An animation without frames is not drawn.
SheetCat(sheet, m) ==
    LET a == Resolve(sheet, m)
    IN  IF a = Nothing \/ a.frames = 0 THEN Nothing ELSE a

----------------------------------------------------------------------------
(* The procedural cat, east being where its head is unless it is mirrored. *)

FacesWest(dir) == dir \in {"W", "NW", "SW"}

Eyes(s) == IF s = "Wake" THEN "wide" ELSE "open"
Legs(s) == IF s = "Run" THEN "striding" ELSE "standing"

ProceduralCat(m) ==
    IF m.state = "Sleep" THEN [shows |-> "basket", mirrored |-> FacesWest(m.dir)]
    ELSE [shows |-> "cat", mirrored |-> FacesWest(m.dir),
          eyes |-> Eyes(m.state), legs |-> Legs(m.state)]

----------------------------------------------------------------------------
(* What App::draw draws, back to front.                                    *)

Cat(manifest, p) ==
    IF Load(manifest) = Nothing THEN ProceduralCat(p.fsm)
    ELSE SheetCat(Load(manifest), p.fsm)

\* draw_action: the ball, the bowl and the post at their place, and hearts
\* above the cat.
Prop(a, p) ==
    CASE a.current = "None" -> Nothing
      [] a.current = "Purr" -> [shows |-> "hearts", at |-> p.pos]
      [] OTHER -> [shows |-> a.current, at |-> a.prop, beside |-> a.beside]

\* SpeechBubble::draw: beside the cat with a tail, or above it without.
Balloon(b, p) ==
    IF ~Speaking(b) THEN Nothing
    ELSE [shows |-> b.text, tail |-> b.style = "Speech", over |-> p.pos]

Picture(manifest) ==
    IF ~visible THEN <<>>
    ELSE <<Cat(manifest, pet), Prop(action, pet), Balloon(bubble, pet)>>

----------------------------------------------------------------------------
(* Properties.                                                             *)

(* From the click to the end of the effect, neither a step the click       *)
(* interrupted, nor a command, nor a change of phase moves the cat away    *)
(* from the bowl or the post, or turns the head that is drawn: they stay   *)
(* in front of it, or, if the cat was running due north or due south, on   *)
(* its other side.  For such a cat the callback takes west and the drawing *)
(* east, and the bowl is behind, where ActionState promises "not behind".  *)
PropBesideHead ==
    LET prop  == Prop(action, pet)
        head  == IF ProceduralCat(pet.fsm).mirrored THEN -1 ELSE 1
        front == IF pet.fsm.dir \in {"N", "S"} THEN -head ELSE head
    IN  /\ prop.shows = "Food" => prop.at = pet.pos /\ prop.beside = front * BowlOffset
        /\ prop.shows = "Scratch" => prop.at = pet.pos /\ prop.beside = front * PostOffset

\* The run that a cat has to be shown in to go from pos to pos2.
RunThere(axis, pos, pos2) ==
    IF axis = "horizontal" THEN IF pos2 < pos THEN "run_w" ELSE "run_e"
                           ELSE IF pos2 < pos THEN "run_n" ELSE "run_s"

(* Who sees the cat move sees it run that way: a stride is only taken by a *)
(* cat that was already drawn running and looking there, so that a turn    *)
(* always shows the wiggle first.  Without a sheet there is no run to the  *)
(* north or to the south, and the cat looks east.  A sheet without such a  *)
(* run shows the cat idle, or, if its run has no frame, nothing.           *)
LooksWhereItGoes ==
    [][ pet'.pos # pet.pos =>
          \A manifest \in Manifests :
              LET seen == Cat(manifest, pet)
                  run  == RunThere(pet.axis, pet.pos, pet'.pos)
              IN  IF Load(manifest) = Nothing
                  THEN seen.legs = "striding" /\ (seen.mirrored <=> run = "run_w")
                  ELSE seen.shows \in {"idle", "nothing", run} ]_vars

(* "A speech bubble would imply it's talking while curled up in the        *)
(* basket": from the first tick of a focus on, however the timer got there *)
(* and whatever was being said, the cat says nothing but goodbye.          *)
QuietInFocus ==
    lastPhase = "Focus" /\ visible =>
        LET balloon == Picture(<<>>)[3]
        IN  balloon # Nothing /\ balloon.tail => balloon.shows = "Goodbye"

(* "The cat sits to eat", "the cat sits in place and small pink hearts     *)
(* float up around it": while the effect lasts, from the first tick after  *)
(* the click, the cat is drawn sitting, and not asleep in its basket.      *)
SitsToEat ==
    action.current \in {"Food", "Purr"} /\ action.age > 0 /\ visible =>
        Picture(<<>>)[1].shows = "cat"
============================================================================
