---------------------------- MODULE MCCommandLog ----------------------------
(* Small instances of CommandLog.                                          *)
EXTENDS CommandLog, TLC

CONSTANTS open, again, retry, broken, k1, k2, programs, runs

\* again has open's effect under another key and bars it, as open bars again;
\* retry is open's key with another body, which needs again; broken is invalid.
TheRequests == {open, again, retry, broken}
KeyMap   == open :> k1 @@ retry :> k1 @@ again :> k2 @@ broken :> k2
NeedMap  == [r \in TheRequests |-> IF r = retry THEN {again} ELSE {}]
BarMap   == [r \in TheRequests |-> IF r = again THEN {open} ELSE IF r = open THEN {again} ELSE {}]
WriteMap ==
  open :> <<programs, runs, programs>> @@ again :> <<programs>> @@ retry :> <<runs, programs>>
    @@ broken :> <<runs>>

Reading == <<runs, programs>>
=============================================================================
