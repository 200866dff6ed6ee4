----------------------------- MODULE ReplyPromise -----------------------------
(***************************************************************************)
(* What the senders of messages rely on when AgentLoop's Run is done with  *)
(* them, said of the outcome alone: that they get one answer, and that the *)
(* talk it is an answer to is theirs.                                      *)
(***************************************************************************)
EXTENDS Routing

CONSTANTS Nothing,
          Messages, \* what the channels receive
          Input     \* Input[m]: its chat, command (it is one of handleCommand) and the
                    \* fields of RouteInput

VARIABLES
    config,  \* the configuration; it does not change
    done,    \* history: the agent and the session of the messages that Run is done with
    latest   \* history: how the latest message of Run was answered: by a reply that Run
             \* published (reply); by what message tools have sent in its round, to its
             \* chat ("here") or another ("elsewhere") (told); with what outcome of the
             \* last call of its agent's message tool (last): "sent" to the chat the tool
             \* remembers, or to one that the call itself names ("named"), "failed" or
             \* "none"; sound if the message was for the default agent and no other round
             \* and no spawn has used the agent's message tool

Done == DOMAIN done

\* A message for the default agent that no other round disturbs is answered one way or
\* the other: its response is published exactly if the last call of the message tool in
\* this very round, not in an earlier one, has not sent anything; and what the tool has
\* sent instead has gone to the sender's chat, unless that call itself named another.
Answered ==
    latest # Nothing /\ latest.sound =>
        /\ latest.reply <=> latest.last \notin {"sent", "named"}
        /\ latest.last = "sent" => "here" \in latest.told

\* Every message that Run is done with has got a reply, unless a message tool has sent
\* something in its round.
NoReplyLost == latest # Nothing => latest.reply \/ latest.told # {}

-----------------------------------------------------------------------------
\* The messages that have a session.
Talks == {m \in Messages : ~Input[m].command}

\* What the session keys are to tell apart: groups, and direct messages by the DM scope
\* and by person.
SamePerson(x, y) ==
    LET names(m) == LinkedTo(config, m.channel, m.peer.id)
    IN  \/ names(x) \cap names(y) # {}
        \/ names(x) = {} /\ names(y) = {} /\ LoweredId(x.peer.id) = LoweredId(y.peer.id)

SameTalk(x, y) ==
    IF x.peer.kind = "direct" /\ y.peer.kind = "direct"
    THEN \/ config.scope = "main"
         \/ /\ SamePerson(x, y)
            /\ config.scope # "per-peer" => x.channel = y.channel
            /\ config.scope = "per-account-channel-peer" => x.account = y.account
    ELSE /\ x.peer.kind = y.peer.kind /\ x.channel = y.channel
         /\ LoweredId(x.peer.id) = LoweredId(y.peer.id)

\* Two messages are processed in one session exactly if they are for one agent and of
\* one talk, whichever bindings, links and scope are configured.
SessionsApart ==
    \A x, y \in Done \cap Talks :
        done[x].key = done[y].key <=> done[x].agent = done[y].agent /\ SameTalk(Input[x], Input[y])

\* What SessionsApart asks of a configuration, unless all direct messages share a session.
\* A peer is an id of at most one name of identity_links; no two names are the same in
\* lower case; and no name is the id of a peer that is linked to none.  Nothing in the
\* code sees to it.
Unambiguous(c) ==
    LET names(m) == LinkedTo(c, Input[m].channel, Input[m].peer.id)
    IN  /\ c.scope \in {"main", "per-peer", "per-channel-peer", "per-account-channel-peer"}
        /\ c.scope # "main" =>
              /\ DOMAIN c.links \subseteq STRING
              /\ \A n1, n2 \in DOMAIN c.links : Lowered(n1) = Lowered(n2) => n1 = n2
              /\ \A m \in {x \in Talks : Input[x].peer.kind = "direct"} :
                    /\ \A n1, n2 \in names(m) : n1 = n2
                    /\ names(m) = {} =>
                          \A n \in DOMAIN c.links : LoweredId(Input[m].peer.id) # <<Lowered(n)>>

\* The channels name the peer of every message, and no channel or account is called like
\* the part of a key that tells what kind of peer follows.
Named ==
    /\ \A x \in DOMAIN Lower : Lower[x] \in STRING
    /\ \A m \in Talks :
          /\ Input[m].peer # NoPeer
          /\ Input[m].peer.id \in Seq(STRING) \ {<<>>}
          /\ {Input[m].peer.kind, Input[m].channel, Input[m].account} \subseteq STRING
          /\ Input[m].channel # "direct"
          /\ \A x \in Talks : Input[m].account # Input[x].peer.kind
=============================================================================
