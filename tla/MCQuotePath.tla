----------------------------- MODULE MCQuotePath -----------------------------
(***************************************************************************)
(* Deployments of QuotePath for TLC.                                       *)
(***************************************************************************)
EXTENDS QuotePath

\* Two receivers that encode differently, quotes around one of a type only
\* the receivers know, two producers, no monitor.
MCFeed == [encoding |-> <<"gob", "pb">>, stream |-> <<"trade", "kline", "inc">>,
           producers |-> <<"zmq", "kafka">>, mon |-> FALSE, maxCuts |-> 1, maxFails |-> 1]

\* One receiver, up to four messages, a producer of every kind.
MCSend == [encoding |-> <<"gob">>, stream |-> <<"trade", "inc", "snap", "trade">>,
           producers |-> <<"zmq", "bare", "kafka">>, mon |-> FALSE,
           maxCuts |-> 0, maxFails |-> 3]

\* One quote, no producer, a monitor.
MCWarn == [encoding |-> <<"gob">>, stream |-> <<"snap">>, producers |-> <<>>, mon |-> TRUE,
           maxCuts |-> 0, maxFails |-> 0]

MCDeployments == {MCFeed, MCSend, MCWarn}
=============================================================================
