----------------------------- MODULE MCAgentLoop -----------------------------
(***************************************************************************)
(* AgentLoop for TLC.  Ann writes on Telegram and on Discord (hello, hi),  *)
(* in a Telegram group whose id differs from hers only in its kind (all),  *)
(* and a command (show); the heartbeat and a cron job use the chat of her  *)
(* direct messages.  work is a second agent.  And what comments of the     *)
(* repository say of a message that the message tool has answered.         *)
(***************************************************************************)
EXTENDS AgentLoop, TLC

CONSTANTS c1, c2, c3, hello, hi, all, show, note, job

Of(chat, command, channel, kind, peer) ==
    [chat |-> chat, command |-> command, channel |-> channel, account |-> "default",
     peer |-> IF peer = "" THEN NoPeer ELSE [kind |-> kind, id |-> <<peer>>],
     parent |-> NoPeer, guild |-> IF channel = "discord" THEN "g" ELSE "", team |-> ""]

MCInput == hello :> Of(c1, FALSE, "telegram", "direct", "7")
        @@ hi    :> Of(c2, FALSE, "discord", "direct", "U9")
        @@ all   :> Of(c3, FALSE, "telegram", "group", "7")
        @@ show  :> Of(c1, TRUE, "telegram", "direct", "7")
        @@ note  :> Of(c1, FALSE, "internal", "direct", "")
        @@ job   :> Of(c1, FALSE, "telegram", "direct", "")

Binding(agent, channel, account, peer, guild) ==
    [agent |-> agent, channel |-> channel, account |-> account, peer |-> peer, guild |-> guild,
     team |-> ""]

Bound == <<Binding("work", "telegram", "*", NoPeer, ""),
           Binding("main", "telegram", "", [kind |-> "direct", id |-> <<"7">>], ""),
           Binding("gone", "discord", "", NoPeer, "g")>>

Config(bindings, scope) ==
    [bindings |-> bindings, agents |-> <<"main", "work">>, standard |-> {}, scope |-> scope,
     links |-> "ann" :> {<<"telegram", "7">>, <<"u9">>}]

MCConfigs == {Config(<<>>, "main"), Config(<<>>, "per-peer"), Config(Bound, "per-channel-peer")}
MCCalls   == "run" :> 2 @@ "cron" :> 1 @@ "heartbeat" :> 1 @@ "spawn" :> 1
MCLower   == "U9" :> "u9"

\* pkg/agent/loop.go:480: the reply is skipped if "the message tool already sent a response
\* during this round"; pkg/tools/message.go:98: the "user already received the message
\* directly".  Even so the user may have received nothing, if the call named another chat.
AnsweredInChat == latest # Nothing /\ latest.sound => latest.reply \/ "here" \in latest.told

\* The configurations are among those of the theorem that the sessions are kept apart.
ASSUME SessionsAssumption == Named /\ \A c \in Configs : Unambiguous(c)
=============================================================================
