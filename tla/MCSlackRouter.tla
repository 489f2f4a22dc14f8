---- MODULE MCSlackRouter ----
EXTENDS SlackRouter, TLC

CONSTANTS dm, chat, C1, D1, U1, team, own

MCEvents == {chat, dm}

\* A message in a team's channel and a direct message to an agent.
MCPayload ==
  (chat :> [filtered |-> FALSE, dm |-> FALSE, channel |-> C1, user |-> U1]) @@
  (dm   :> [filtered |-> FALSE, dm |-> TRUE,  channel |-> D1, user |-> U1])

\* Both agents bound, and the team's agent paused.
Both   == [channels |-> C1 :> team, members |-> U1 :> own]
Paused == [channels |-> <<>>, members |-> U1 :> own]
MCTexts == {Both, Paused}
====
