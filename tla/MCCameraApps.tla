---------------------------- MODULE MCCameraApps ----------------------------
EXTENDS CameraApps, TLC

O(name)  == [kind |-> "opt", name |-> name, val |-> 0]
N(value) == [kind |-> "num", name |-> "", val |-> value]
W(word)  == [kind |-> "word", name |-> word, val |-> 0]
M(mode)  == [kind |-> "mode", name |-> "mode", val |-> mode]
P(v)     == [kind |-> "pair", name |-> "pair", val |-> v]

\* Complete command lines: captures with and without a preview and a timeout, to stdout,
\* without a file, the demo, camera settings, and lines that are refused.
MCCommandLines ==
  { << >>, <<O("help")>>, <<W("x")>>, <<O("op"), W("x")>>, <<O("t"), W("x")>>,
    <<O("o"), W("f"), O("n")>>,
    <<O("o"), W("f"), O("t"), N(0), O("v")>>,
    <<O("o"), W("-"), O("w"), N(320), O("d")>>,
    <<O("n"), O("rot"), N(180), O("co"), N(50), O("sh"), N(200)>>,
    <<O("f"), O("cfx"), P(200), O("ex"), M(3), O("awb"), W("x"), O("o"), W("f")>>,
    <<O("p"), W("x"), O("hf"), O("vf"), O("vs"), O("ISO"), N(100), O("op"), N(9)>>,
    <<O("d"), N(250), O("n")>>,
    <<O("d"), O("f"), O("o"), W("f"), O("t"), N(0)>> }
MCRefusals == { {}, {"imagefx"} }

\* A rotation to the left.
MCLeft == { <<O("rot"), N(-90), O("n")>> }
=============================================================================
