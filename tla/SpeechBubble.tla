---------------------------- MODULE SpeechBubble ----------------------------
(***************************************************************************)
(* The class SpeechBubble: the text it shows, in which style, and for how  *)
(* long still (expires_at_ minus now).  The wording is abstracted to what  *)
(* the text is about.                                                      *)
(***************************************************************************)
EXTENDS Integers

CONSTANTS
    SayTime,       \* the usual 4.5 s
    GoodbyeTime    \* 2.5 s

ASSUME BubbleAssumption == SayTime \in Nat \ {0} /\ GoodbyeTime \in Nat \ {0}

Topic == {"Focus", "Break", "LongBreak", "Hello", "Goodbye", "nothing"}
Style == {"Speech", "Status"}

BubbleTimeCap == IF SayTime > GoodbyeTime THEN SayTime ELSE GoodbyeTime

BubbleRecord == [text : Topic, style : Style, left : 0..BubbleTimeCap]

Say(text, time, style) == [text |-> text, style |-> style, left |-> time]

\* active
Speaking(b) == b.left > 0

\* One clock unit goes by.  A text that has expired is not shown again, so it
\* is forgotten here; the class keeps it until the next say.
BubbleElapse(b) == IF b.left > 1 THEN [b EXCEPT !.left = @ - 1]
                   ELSE Say("nothing", 0, "Status")
============================================================================
