------------------------------ MODULE MCMsgPrep ------------------------------
(***************************************************************************)
(* Calls for the model checker: every sender and every other function that *)
(* makes a message, with lists and buffers that fit, that do not, and that *)
(* wrap a 16-bit length.                                                   *)
(***************************************************************************)
EXTENDS MsgPrep

MCMatch ==
  [wildcards |-> {0}, dl_vlan |-> 1, dl_vlan_pcp |-> 7, nw_tos |-> 252]

MCPort == [port_no |-> 1, config |-> {0}, state |-> {8}, features |-> {11}]

\* Fields for every message, valid ones and some that are not.
MCBody ==
  [flags |-> 0, n_tables |-> 1, in_port |-> 1, reason |-> 0, port |-> 1,
   match |-> MCMatch, priority |-> 1, desc |-> MCPort, command |-> 0,
   out_port |-> 1, port_no |-> 1, config |-> {0}, mask |-> {0},
   advertise |-> {6}]

ModBody ==
  [flags |-> {0}, match |-> MCMatch, priority |-> 1, command |-> 0,
   out_port |-> 1]

Call(sender, elements, data, body) ==
  [sender |-> sender, list |-> elements, data |-> data, body |-> body,
   buffered |-> FALSE]

\* Each function once, with a body that has the flags it takes.
EachOnce ==
  {Call(s, <<>>, IF s = cc_send_error_msg THEN 8 ELSE Null,
        IF s.builder = cc_create_flow_mod THEN ModBody ELSE MCBody) :
     s \in Senders \union Unsent}

\* Buffers up to and beyond what a length of 16 bits can say.
Sizes == {8, 59, 60, 65519, 65520, 65523, 65524, 65528, 65536, 70000}

WithBuffers ==
  {Call(s, <<>>, n, MCBody) :
     s \in {x \in Senders \union Unsent : x.builder.data}, n \in Sizes}

WithoutBuffer == {Call(cc_send_error_msg, <<>>, Null, MCBody)}

\* Packets that the switch has in a buffer.
Buffered ==
  {[Call(cc_send_packet_out, <<>>, n, MCBody) EXCEPT !.buffered = TRUE] :
     n \in {Null, 8, 65512}}

Pairs(S) == {<<x>> : x \in S} \union {<<x, y>> : x \in S, y \in S}

MCAction(type, len) == [type |-> type, len |-> len, arg |-> 1]

MCFlow(actions, len) ==
  [len |-> len, match |-> MCMatch, priority |-> 1, actions |-> actions]

MCFlows ==
  {MCFlow(<<>>, 88), MCFlow(<<MCAction("OUTPUT", 8)>>, 96),
   MCFlow(<<MCAction("ENQUEUE", 16), MCAction("OUTPUT", 8)>>, 112),
   MCFlow(<<MCAction("ENQUEUE", 16)>>, 100),
   MCFlow(<<MCAction("OUTPUT", 0)>>, 96),
   MCFlow(<<MCAction("LAST", 8)>>, 96),
   MCFlow(<<MCAction("VENDOR", 39912)>>, 40000),
   MCFlow(<<MCAction("VENDOR", 25432)>>, 25520)}

MCQueue(properties, len) == [len |-> len, properties |-> properties]

MCProperty(property, len) == [property |-> property, len |-> len]

MCQueues ==
  {MCQueue(<<MCProperty("NONE", 8)>>, 16),
   MCQueue(<<MCProperty("MIN_RATE", 16), MCProperty("NONE", 8)>>, 32),
   MCQueue(<<MCProperty("MIN_RATE", 8)>>, 16),
   MCQueue(<<MCProperty("NONE", 0)>>, 16),
   MCQueue(<<MCProperty("NONE", 40000)>>, 40008)}

Reply(builder, lists) ==
  {Call(Sender(builder, "returned"), l, Null, MCBody) : l \in lists}

MCTables == {[wildcards |-> w] : w \in {{0}, {22}}}

MCPorts == {[port_no |-> n] : n \in {0, 1}}

\* The most ports whose statistics fit a reply, and one more.
ManyPorts == {[k \in 1 .. n |-> [port_no |-> 1]] : n \in {630, 631}}

WithLists ==
  UNION {Reply(cc_create_features_reply,
               Pairs({MCPort, [MCPort EXCEPT !.port_no = 0]})),
         Reply(cc_create_flow_stats_reply, Pairs(MCFlows)),
         Reply(cc_create_table_stats_reply, Pairs(MCTables)),
         Reply(cc_create_port_stats_reply, Pairs(MCPorts) \union ManyPorts),
         Reply(cc_create_queue_stats_reply, Pairs(MCPorts)),
         Reply(cc_create_queue_get_config_reply, Pairs(MCQueues))}

MCCalls ==
  EachOnce \union WithBuffers \union WithoutBuffer \union Buffered
    \union WithLists

MCRawActions == {MCAction("LAST", 8), MCAction("OUTPUT", 4)}
=============================================================================
