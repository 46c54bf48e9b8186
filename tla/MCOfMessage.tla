----------------------------- MODULE MCOfMessage -----------------------------
(***************************************************************************)
(* Messages for the model checker: for every type the bodies that decide   *)
(* one of its checks, with the right length and with lengths around it.    *)
(***************************************************************************)
EXTENDS OfMessage, FiniteSets

\* On both sides of every limit of a port number.
MCPorts == {0, 1, OFPP_MAX, OFPP_MAX + 1, OFPP_IN_PORT, OFPP_LOCAL, OFPP_NONE}

MCMatch ==
  [wildcards |-> {0}, dl_vlan |-> 1, dl_vlan_pcp |-> 7, nw_tos |-> 252]

MCMatches ==
  {MCMatch, [MCMatch EXCEPT !.wildcards = {}],
   [MCMatch EXCEPT !.wildcards = {22}], [MCMatch EXCEPT !.dl_vlan = USHRT_MAX],
   [MCMatch EXCEPT !.dl_vlan = 4096], [MCMatch EXCEPT !.dl_vlan_pcp = 8],
   [MCMatch EXCEPT !.nw_tos = 1]}

MCPort == [port_no |-> 1, config |-> {0}, state |-> {8}, features |-> {11}]

MCPhyPorts ==
  {MCPort, [MCPort EXCEPT !.port_no = 0], [MCPort EXCEPT !.config = {7}],
   [MCPort EXCEPT !.state = {1}], [MCPort EXCEPT !.features = {12}]}

Action(type, len, arg) == [type |-> type, len |-> len, arg |-> arg]

MCActions ==
  {Action("OUTPUT", 8, p) : p \in {0, 1}}
  \union {Action("ENQUEUE", 16, OFPP_NONE), Action("ENQUEUE", 8, 1),
          Action("SET_VLAN_VID", 8, 4096), Action("SET_VLAN_PCP", 8, 8),
          Action("SET_NW_TOS", 8, 1), Action("SET_DL_SRC", 24, 0),
          Action("STRIP_VLAN", 4, 0), Action("VENDOR", 12, 0),
          Action("SET_TP_DST", 16, 0), Action("LAST", 8, 0)}

Lists(S) ==
  {<<>>} \union {<<x>> : x \in S} \union {<<x, y>> : x \in S, y \in S}

MCFlow(actions, short) ==
  [len |-> FlowStatsSize + Bytes(actions, Len(actions)) - short,
   match |-> MCMatch, priority |-> 1, actions |-> actions]

MCFlows ==
  {MCFlow(a, d) : a \in {<<>>, <<Action("OUTPUT", 8, 1)>>,
                         <<Action("OUTPUT", 8, 0)>>}, d \in {0, 8}}
  \union {[MCFlow(<<>>, 0) EXCEPT !.match = m] : m \in MCMatches}

Property(p, len) == [property |-> p, len |-> len]

MCQueue(properties, short) ==
  [len |-> QueueSize + Bytes(properties, Len(properties)) - short,
   properties |-> properties]

MCQueues ==
  {MCQueue(p, d) : p \in {<<Property("NONE", 8)>>,
                          <<Property("MIN_RATE", 16), Property("NONE", 8)>>,
                          <<Property("MIN_RATE", 8)>>, <<Property("NONE", 4)>>,
                          <<Property("LAST", 8)>>}, d \in {0, 4}}

Stats(stype, flags, match, port) ==
  [stype |-> stype, flags |-> flags, match |-> match, port |-> port]

StatsReply(stype, flags, entries) ==
  [stype |-> stype, flags |-> flags, entries |-> entries]

\* A message of version v, with off bytes more in its header than it has.
Message(v, type, size, off, body) ==
  [version |-> v, type |-> type, hdr |-> size + off, len |-> size,
   body |-> body]

None == [none |-> TRUE]

\* Lengths around the right one.
Around(type, size, bodies) ==
  {Message(OFP_VERSION, type, size + d, off, b) :
     d \in {-4, 0, 4}, off \in {-4, 0, 4}, b \in bodies}

Exact(type, size, bodies) ==
  {Message(OFP_VERSION, type, size, 0, b) : b \in bodies}

Plain ==
  UNION {Around(t, MinSize[t], {None}) :
           t \in {"HELLO", "ERROR", "ECHO_REQUEST", "ECHO_REPLY", "VENDOR",
                  "FEATURES_REQUEST", "GET_CONFIG_REQUEST", "BARRIER_REQUEST",
                  "BARRIER_REPLY"}}
  \union {Message(v, t, 8, 0, None) : v \in {0, 1}, t \in {"HELLO", "TYPE_22"}}

Configuration ==
  UNION {Around(t, 12, [flags : {0, 3, 4}]) :
           t \in {"GET_CONFIG_REPLY", "SET_CONFIG"}}
  \union Around("PORT_MOD", 32,
           {[port_no |-> p, config |-> c, mask |-> m, advertise |-> a] :
              p \in MCPorts, c \in {{0}, {7}}, m \in {{0}, {7}},
              a \in {{0}, {11}, {12}}})
  \union Around("QUEUE_GET_CONFIG_REQUEST", 12, [port : MCPorts])

Asynchronous ==
  Around("PACKET_IN", 18, [in_port : MCPorts, reason : {0, 1, 2}])
  \union Around("FLOW_REMOVED", 88,
           [match : MCMatches, priority : {1, USHRT_MAX}, reason : {2, 3}])
  \union Around("PORT_STATUS", 64, [reason : {2, 3}, desc : MCPhyPorts])
  \union UNION {Exact("FEATURES_REPLY", 32 + 48 * Len(p) + d,
                      {[n_tables |-> n, ports |-> p] : n \in {0, 1}}) :
                  p \in Lists(MCPhyPorts), d \in {0, 4}}

\* The last action may be longer than what is left for it.
Commands ==
  UNION {Exact("FLOW_MOD", 72 + Bytes(a, Len(a)) - IF a = <<>> THEN 0 ELSE d,
               {[match |-> MCMatch, command |-> 3, priority |-> 1,
                 out_port |-> 1, flags |-> {0}, actions |-> a]}) :
           a \in Lists(MCActions), d \in {0, 4}}
  \union Around("FLOW_MOD", 72,
           {[match |-> m, command |-> c, priority |-> USHRT_MAX,
             out_port |-> p, flags |-> f, actions |-> <<>>] :
              m \in MCMatches, c \in {0, 4, 5}, p \in {0, 1, OFPP_NONE},
              f \in {{2}, {3}}} )
  \union UNION {Exact("PACKET_OUT", 16 + Bytes(a, Len(a)),
                      {[in_port |-> p, actions |-> a,
                        actions_len |-> Bytes(a, Len(a))] :
                         p \in {0, OFPP_NONE}}) :
                  a \in Lists(MCActions)}

Statistics ==
  UNION {Around("STATS_REQUEST", StatsRequestSize[s],
                {Stats(s, f, m, p) : f \in {0, 1}, m \in MCMatches,
                                     p \in {0, 1, OFPP_NONE, OFPP_IN_PORT}}) :
           s \in StatsTypes}
  \union Exact("STATS_REQUEST", 12, {Stats("LAST", 0, MCMatch, 1)})
  \union UNION {Around("STATS_REPLY", 36, {StatsReply(s, f, <<>>)}) :
                  s \in {"DESC", "AGGREGATE", "VENDOR"}, f \in {0, 1, 2}}
  \union UNION {Exact("STATS_REPLY", 12 + Bytes(e, Len(e)) + d,
                      {StatsReply("FLOW", f, e)}) :
                  e \in Lists(MCFlows), d \in {-8, 0}, f \in {1, 2}}
  \union UNION {Exact("STATS_REPLY", 12 + 64 * Len(e) + d,
                      {StatsReply("TABLE", 1, e)}) :
                  e \in Lists({{0}, {22}}), d \in {0, 4}}
  \union UNION {Exact("STATS_REPLY", 12 + EntrySize[s] * Len(e),
                      {StatsReply(s, 1, e)}) :
                  s \in {"PORT", "QUEUE"}, e \in Lists({0, 1, OFPP_LOCAL})}

Queues ==
  UNION {Exact("QUEUE_GET_CONFIG_REPLY", 16 + Bytes(q, Len(q)) + d,
               {[port |-> p, queues |-> q] : p \in {0, 1}}) :
           q \in Lists(MCQueues) \ {<<>>}, d \in {-8, -4, 0}}

\* Bodies with elements that do not stand in the message are left out.
Spelled(m) ==
  HasList(m) =>
    /\ Standing(ListOf(m), ElementSize(m), ListLength(m))
    /\ m.type = "STATS_REPLY" =>
         \A f \in {ListOf(m)[i] : i \in DOMAIN ListOf(m)} :
           Standing(f.actions, HeaderSize, f.len - FlowStatsSize)
    /\ m.type = "QUEUE_GET_CONFIG_REPLY" =>
         \A q \in {ListOf(m)[i] : i \in DOMAIN ListOf(m)} :
           Standing(q.properties, HeaderSize, q.len - QueueSize)

MCMessages ==
  {m \in Plain \union Configuration \union Asynchronous \union Commands
         \union Statistics \union Queues : Spelled(m)}
=============================================================================
