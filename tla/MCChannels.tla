------------------------------ MODULE MCChannels -------------------------------
(* Instances of Channels for TLC. *)
EXTENDS Channels, TLC

AllProviders == {"local", "remote", "aws"}

\* a running agent without a channel and a paused one bound to Telegram: the others come about by
\* BindChannel and UnbindChannel.  Hermes takes both platforms; on AWS, whose records have no
\* runtime, both agents are OpenClaw's, which refuses Telegram.
SomeLaunches == {<<"hermes", FALSE, {}>>, <<"hermes", TRUE, {"telegram"}>>}

\* no definition of Channels tells one agent from another
AgentSymmetry == Permutations(Agents)
================================================================================
