------------------------------ MODULE Routing ------------------------------
(***************************************************************************)
(* Which agent processes a message, and in which session (pkg/routing).    *)
(*                                                                         *)
(* A configuration is a record: bindings, a sequence; agents, the list of  *)
(* agents; standard, those marked as default; scope, the DM scope; links,  *)
(* the ids of each name of identity_links.  All its names are trimmed.  An *)
(* id is the sequence of its parts between colons, so that keys which are  *)
(* the same string are the same sequence.  "" and <<>> stand for nothing.  *)
(***************************************************************************)
EXTENDS Naturals, Sequences, SequencesExt, FiniteSetsExt

CONSTANTS Lower,  \* the lower case of the names that are not in lower case
          NoPeer

Lowered(name)  == IF name \in DOMAIN Lower THEN Lower[name] ELSE name
LoweredId(id)  == [i \in DOMAIN id |-> Lowered(id[i])]

\* matchesAccountID; NormalizeAccountID has made account "default" if it was empty.
ForAccount(b, account) ==
    \/ b.account = "*"
    \/ b.account = "" /\ account = "default"
    \/ Lowered(b.account) = account

\* filterBindings.
Bindings(config, m) ==
    SelectSeq(config.bindings, LAMBDA b : b.channel = m.channel /\ ForAccount(b, m.account))

\* findPeerMatch: the kind in any case, the id to the letter.
ForPeer(b, peer) == /\ peer # NoPeer /\ peer.id # <<>> /\ b.peer # NoPeer
                    /\ b.peer.kind = peer.kind /\ b.peer.id = peer.id

\* A binding without peer, guild and team.
Plain(b) == b.peer = NoPeer /\ b.guild = "" /\ b.team = ""

Cascade == <<"peer", "parent", "guild", "team", "account", "channel">>

\* The find...Match of a level.  The levels below that of the peer do not look at what
\* else a binding asks for.
Matches(level, b, m) ==
    \/ level = "peer"    /\ ForPeer(b, m.peer)
    \/ level = "parent"  /\ ForPeer(b, m.parent)
    \/ level = "guild"   /\ m.guild # "" /\ b.guild = m.guild
    \/ level = "team"    /\ m.team # "" /\ b.team = m.team
    \/ level = "account" /\ b.account # "*" /\ Plain(b)
    \/ level = "channel" /\ b.account = "*" /\ Plain(b)

\* resolveDefaultAgentID.
DefaultRoute(config) ==
    LET marked == SelectSeq(config.agents, LAMBDA a : a \in config.standard)
    IN  IF config.agents = <<>> THEN "main"
        ELSE IF marked # <<>> THEN Head(marked)
        ELSE Head(config.agents)

\* pickAgentID.
PickAgent(config, agent) ==
    IF agent # "" /\ (config.agents = <<>> \/ agent \in ToSet(config.agents))
    THEN agent ELSE DefaultRoute(config)

\* ResolveRoute: the agent of the first binding on the first level that has one.
RoutedTo(config, m) ==
    LET bindings == Bindings(config, m)
        hits == {h \in (DOMAIN Cascade) \X (DOMAIN bindings) :
                    Matches(Cascade[h[1]], bindings[h[2]], m)}
        level == Min({h[1] : h \in hits})
        first == Min({h[2] : h \in {x \in hits : x[1] = level}})
    IN  IF hits = {} THEN DefaultRoute(config)
        ELSE PickAgent(config, bindings[first].agent)

\* resolveLinkedPeerID: the names one of whose ids is the peer's, is the peer's with the
\* channel before it, or is the peer's without what is before its first colon.  The
\* code takes the first it meets in the random order of a map.
LinkedTo(config, channel, id) ==
    LET wanted == {LoweredId(id), <<channel>> \o LoweredId(id)}
                    \cup (IF Len(id) > 1 THEN {Tail(LoweredId(id))} ELSE {})
    IN  {name \in DOMAIN config.links :
            \E l \in config.links[name] : LoweredId(l) \in wanted}

MainKey(agent) == <<"agent", agent, "main">>

\* Mutant of DirectKey: the channel is missing.
DirectKeyNoChannel(config, agent, m, id) ==
    IF id = <<>> \/ config.scope = "main" THEN MainKey(agent)
    ELSE <<"agent", agent, "direct">> \o id

\* BuildAgentPeerSessionKey of a direct peer, once its links are resolved to id.
DirectKey(config, agent, m, id) ==
    IF id = <<>> THEN MainKey(agent)
    ELSE CASE config.scope = "per-account-channel-peer" ->
                  <<"agent", agent, m.channel, m.account, "direct">> \o id
           [] config.scope = "per-channel-peer" -> <<"agent", agent, m.channel, "direct">> \o id
           [] config.scope = "per-peer" -> <<"agent", agent, "direct">> \o id
           [] OTHER -> MainKey(agent)

\* BuildAgentPeerSessionKey: more than one key only if the peer has several names.
SessionKeys(config, agent, m) ==
    LET peer  == IF m.peer = NoPeer THEN [kind |-> "direct", id |-> <<>>] ELSE m.peer
        names == IF config.scope = "main" \/ peer.id = <<>> THEN {}
                 ELSE LinkedTo(config, m.channel, peer.id)
    IN  IF peer.kind # "direct"
        THEN {<<"agent", agent, m.channel, peer.kind>> \o
                 (IF peer.id = <<>> THEN <<"unknown">> ELSE LoweredId(peer.id))}
        ELSE {DirectKey(config, agent, m, id) :
                 id \in IF names = {} THEN {LoweredId(peer.id)} ELSE {<<Lowered(n)>> : n \in names}}
=============================================================================
