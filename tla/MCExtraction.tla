----------------------------- MODULE MCExtraction -----------------------------
EXTENDS Extraction
CONSTANTS a, b

Say(t, conf, range, worthy) ==
    [topic |-> t, confidence |-> conf, range |-> range, worthy |-> worthy]

\* One topic with better and worse confidence, with either verdict or none, and ranges
\* that grow, are none, reach or begin behind the window; another topic; a blank one.
MCCandidates ==
    {Say(a, 2, <<1, 2>>, "nil"), Say(a, 3, <<2, 9>>, "yes"), Say(a, 2, <<3, 3>>, "no"),
     Say(b, 2, <<0, 0>>, "no"), Say(b, 1, <<1, 1>>, "yes"), Say(NoTopic, 2, <<2, 1>>, "nil")}
=============================================================================
