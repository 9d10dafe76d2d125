------------------------------ MODULE ScreenMC ------------------------------
(* Screen for TLC: no sheet, one that has each run, one in which the cat   *)
(* runs east only, one with an empty run, one whose picture is missing.    *)
EXTENDS Screen

Entry(key, value) == [key |-> key, value |-> value]
Still == Entry("idle", <<"0,0">>)
RunE  == Entry("run_e", <<"0,1", "1,1">>)
RunN  == Entry("run_n", <<"0,2">>)
RunS  == Entry("run_s", <<"1,2">>)
RunW  == Entry("run_w", <<"0,1", "junk", "mirror">>)
Png   == Entry("image", "cat.png")

SomeManifests ==
    { <<>>, <<Png, Still, RunE, RunN, RunW, RunS>>, <<Png, Still, RunE>>,
      <<Png, RunE, RunW, Entry("run_e", <<"mirror">>)>>, <<Still>>,
      <<Png, Still, Entry("image", "missing.png")>> }
============================================================================
