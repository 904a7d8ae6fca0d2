----------------------------- MODULE MCHeartbeat -----------------------------
(* One price, limits of five and six slots, and settings that fit in one of    *)
(* them, in neither, or cannot be read; the heartbeat outlasts a lost          *)
(* transaction by as much as NeverExpires asks for, exactly.                   *)
EXTENDS Heartbeat

MCQuotes == {<<99, 101>>}
MCDefault == [threshold |-> 50, heartbeat |-> 4, budget |-> 1, silence |-> 3]
MCEnv == [vault |-> 1, threshold |-> Absent, heartbeat |-> Absent, budget |-> Absent,
          silence |-> Absent]
MCEnvs == {MCEnv, [MCEnv EXCEPT !.heartbeat = 5], [MCEnv EXCEPT !.vault = Absent],
           [MCEnv EXCEPT !.silence = Junk], [MCEnv EXCEPT !.threshold = Placeholder]}
==============================================================================
