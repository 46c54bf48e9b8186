------------------------------- MODULE MsgPrep -------------------------------
(***************************************************************************)
(* How the program makes an OpenFlow message and sends it: the lists of    *)
(* actions (src/cc_of_action.c), the functions cc_create_x that compute    *)
(* the length of a message and write it (src/cc_of_msg_prep.c, with the    *)
(* conversions of lib/cc_byte_order.c) and the functions cc_send_x that    *)
(* put it on the queue of a switch (src/cc_of_msg_send.c).                 *)
(*                                                                         *)
(* A call is a record: sender, the function called; list and data, what it *)
(* passes on (the size of a buffer, or Null); body, the fields of the      *)
(* message, as in OfMessage; buffered, for cc_create_packet_out.  The name *)
(* buf, declared twice in several functions, is read as one variable.      *)
(***************************************************************************)
EXTENDS Integers, Sequences

CONSTANTS Calls,        \* the calls that are made: records as above
          ArgValues,    \* the arguments of the actions that are appended
          VendorBodies, \* the sizes of the bodies of vendor actions
          RawActions,   \* actions put in a list by other means
          MaxActions,   \* BOUND: the length of a list of actions
          Null

VARIABLES
  pc,       \* where the call is, or how the program ended
  call,     \* the call in progress, or Null
  list,     \* the list it passes, which grows while actions are appended
  ends,     \* history: where each element counted so far ends
  sum,      \* actions_length, queues_length and the like
  length,   \* the length of the message that was allocated
  i,        \* the element that is written next
  offset,   \* up to where the message is written
  returned, \* what cc_create_x returned
  queued,   \* the buffers put on the queue
  freed,    \* the buffers freed
  ret       \* what the sender returned

vars == <<pc, call, list, ends, sum, length, i, offset, returned, queued,
          freed, ret>>

OFP_VERSION == 1
USHRT_MAX == 65535
ETH_FCS_LENGTH == 4
ETH_MINIMUM_LENGTH == 64
OFP_ERROR_MSG_MAX_DATA == 64
HeaderSize == 8
StatsHeaderSize == 12
FlowStatsSize == 88
QueueSize == 8

\* The validators that the other end applies to what is sent.
V == INSTANCE OfMessage
       WITH Messages <- {}, inbox <- pc, last <- pc, verdict <- pc,
            answer <- pc, handler <- pc

\* Arithmetic of uint16_t, and CC_ERROR in it.
U16(n) == n % 65536
CC_ERROR16 == USHRT_MAX
-----------------------------------------------------------------------------
(***************************************************************************)
(* The functions that append an action, by the element they append.        *)
(***************************************************************************)
Action(type, len, arg) == [type |-> type, len |-> len, arg |-> arg]

append_action_output(port) == Action("OUTPUT", 8, port)
append_action_set_vlan_vid(vid) == Action("SET_VLAN_VID", 8, vid)
append_action_set_vlan_pcp(pcp) == Action("SET_VLAN_PCP", 8, pcp)
append_action_strip_vlan == Action("STRIP_VLAN", 8, 0)
append_action_set_dl_addr(type) == Action(type, 16, 0)
append_action_set_dl_src == append_action_set_dl_addr("SET_DL_SRC")
append_action_set_dl_dst == append_action_set_dl_addr("SET_DL_DST")
append_action_set_nw_addr(type) == Action(type, 8, 0)
append_action_set_nw_src == append_action_set_nw_addr("SET_NW_SRC")
append_action_set_nw_dst == append_action_set_nw_addr("SET_NW_DST")
append_action_set_nw_tos(tos) == Action("SET_NW_TOS", 8, tos)
append_action_set_tp_port(type) == Action(type, 8, 0)
append_action_set_tp_src == append_action_set_tp_port("SET_TP_SRC")
append_action_set_tp_dst == append_action_set_tp_port("SET_TP_DST")
append_action_enqueue(port) == Action("ENQUEUE", 16, port)
append_action_vendor(body) == Action("VENDOR", U16(8 + U16(body)), 0)

Appended ==
  {append_action_output(x) : x \in ArgValues}
  \union {append_action_set_vlan_vid(x) : x \in ArgValues}
  \union {append_action_set_vlan_pcp(x) : x \in ArgValues}
  \union {append_action_set_nw_tos(x) : x \in ArgValues}
  \union {append_action_enqueue(x) : x \in ArgValues}
  \union {append_action_strip_vlan,
          append_action_set_dl_src, append_action_set_dl_dst,
          append_action_set_nw_src, append_action_set_nw_dst,
          append_action_set_tp_src, append_action_set_tp_dst}
  \union {append_action_vendor(n) : n \in VendorBodies}
  \union RawActions
-----------------------------------------------------------------------------
(***************************************************************************)
(* The conversions: how many bytes each writes at its destination.         *)
(***************************************************************************)
\* More than any message has: a copy or a loop that runs away.
Runaway == 65536

Undefined(a) == a.type \notin V!ActionTypes

\* ntoh_action_x writes the struct of its action; hton_action_x is its other
\* name.
FixedExtent(type) == V!SizeOfAction(type)

\* hton_action.  The length of a vendor action less its header is a size_t.
ActionExtent(a) ==
  IF Undefined(a) THEN 0
  ELSE IF a.type # "VENDOR" THEN FixedExtent(a.type)
  ELSE IF a.len >= HeaderSize THEN a.len ELSE Runaway

PropertyExtent(p) == IF p.property = "MIN_RATE" THEN 10 ELSE 4

\* The loop over the items in an element of len bytes, as long as what is left
\* of its 16-bit length could be the header of another item.
Left(start, len, items, k) == U16(len - start - V!Bytes(items, k - 1))

\* The loop comes to item k.
Reached(start, len, items, k) ==
  \A j \in 1 .. k : Left(start, len, items, j) >= HeaderSize

\* The last byte the loop writes.  It stays at an item of length zero, and
\* ends with the program at one of which nothing can be written.
Converted(start, len, items, extents) ==
  LET Until[k \in 1 .. Len(items) + 1] ==
        LET at == start + V!Bytes(items, k - 1)
        IN IF Left(start, len, items, k) < HeaderSize THEN start
           ELSE IF k > Len(items) THEN Runaway
           ELSE IF 0 \in {items[k].len, extents[k]} THEN at + extents[k]
           ELSE IF at + extents[k] > Until[k + 1] THEN at + extents[k]
           ELSE Until[k + 1]
  IN Until[1]

hton_flow_stats(f) ==
  Converted(FlowStatsSize, f.len, f.actions,
            [k \in DOMAIN f.actions |-> ActionExtent(f.actions[k])])

hton_packet_queue(q) ==
  Converted(QueueSize, q.len, q.properties,
            [k \in DOMAIN q.properties |-> PropertyExtent(q.properties[k])])

\* The elements of a fixed size.
EntrySize == [ports |-> 48, tables |-> 64, port_stats |-> 104,
              queue_stats |-> 32]

Extent(kind, e) ==
  CASE kind = "actions" -> ActionExtent(e)
    [] kind = "flows" -> hton_flow_stats(e)
    [] kind = "queues" -> hton_packet_queue(e)
    [] OTHER -> EntrySize[kind]

\* By how much a list moves on at an element.
Size(kind, e) ==
  IF kind \in DOMAIN EntrySize THEN EntrySize[kind] ELSE e.len

\* die is called at an action of an undefined type.
Dies(kind, e) ==
  \/ kind = "actions" /\ Undefined(e)
  \/ /\ kind = "flows"
     /\ \E k \in DOMAIN e.actions :
          /\ Undefined(e.actions[k])
          /\ Reached(FlowStatsSize, e.len, e.actions, k)
          /\ \A j \in 1 .. k - 1 : e.actions[j].len > 0

\* The loop comes to an item of length zero, which it converts for ever in the
\* same place.
Stays(start, len, items) ==
  \E k \in DOMAIN items : items[k].len = 0 /\ Reached(start, len, items, k)

Spins(kind, e) ==
  \/ kind = "flows" /\ Stays(FlowStatsSize, e.len, e.actions)
  \/ kind = "queues" /\ Stays(QueueSize, e.len, e.properties)
-----------------------------------------------------------------------------
(***************************************************************************)
(* The functions that make a message: its type, the size of its fixed      *)
(* part, the kind of list that follows and whether a buffer follows.       *)
(***************************************************************************)
Builder(type, stype, size, kind, data) ==
  [type |-> type, stype |-> stype, size |-> size, kind |-> kind, data |-> data]

Plain(type, size) == Builder(type, "none", size, "none", FALSE)
WithData(type, size) == Builder(type, "none", size, "none", TRUE)

cc_create_error == WithData("ERROR", 12)
cc_create_hello == Plain("HELLO", 8)
cc_create_echo_request == WithData("ECHO_REQUEST", 8)
cc_create_echo_reply == WithData("ECHO_REPLY", 8)
cc_create_vendor == WithData("VENDOR", 12)
cc_create_features_request == Plain("FEATURES_REQUEST", 8)
cc_create_features_reply ==
  Builder("FEATURES_REPLY", "none", 32, "ports", FALSE)
cc_create_get_config_request == Plain("GET_CONFIG_REQUEST", 8)
cc_create_get_config_reply == Plain("GET_CONFIG_REPLY", 12)
cc_create_set_config == Plain("SET_CONFIG", 12)
cc_create_packet_in == WithData("PACKET_IN", 18)
cc_create_flow_removed == Plain("FLOW_REMOVED", 88)
cc_create_port_status == Plain("PORT_STATUS", 64)
cc_create_packet_out == Builder("PACKET_OUT", "none", 16, "actions", TRUE)
cc_create_flow_mod == Builder("FLOW_MOD", "none", 72, "actions", FALSE)
cc_create_port_mod == Plain("PORT_MOD", 32)
cc_create_barrier_request == Plain("BARRIER_REQUEST", 8)
cc_create_barrier_reply == Plain("BARRIER_REPLY", 8)
cc_create_queue_get_config_request == Plain("QUEUE_GET_CONFIG_REQUEST", 12)
cc_create_queue_get_config_reply ==
  Builder("QUEUE_GET_CONFIG_REPLY", "none", 16, "queues", FALSE)

\* Statistics: size counts what follows the fields type and flags.
cc_create_stats_request(stype, size, data) ==
  Builder("STATS_REQUEST", stype, StatsHeaderSize + size, "none", data)

cc_create_desc_stats_request == cc_create_stats_request("DESC", 0, FALSE)
cc_create_flow_stats_request == cc_create_stats_request("FLOW", 44, FALSE)
cc_create_aggregate_stats_request ==
  cc_create_stats_request("AGGREGATE", 44, FALSE)
cc_create_table_stats_request == cc_create_stats_request("TABLE", 0, FALSE)
cc_create_port_stats_request == cc_create_stats_request("PORT", 8, FALSE)
cc_create_queue_stats_request == cc_create_stats_request("QUEUE", 8, FALSE)
cc_create_vendor_stats_request == cc_create_stats_request("VENDOR", 4, TRUE)

\* Mutant: the length of a reply leaves out the fields type and flags.
M_BodyOnly(stype, size, kind, data) ==
  Builder("STATS_REPLY", stype, HeaderSize + size, kind, data)

cc_create_stats_reply(stype, size, kind, data) ==
  Builder("STATS_REPLY", stype, StatsHeaderSize + size, kind, data)

cc_create_desc_stats_reply ==
  cc_create_stats_reply("DESC", 1056, "none", FALSE)
cc_create_flow_stats_reply == cc_create_stats_reply("FLOW", 0, "flows", FALSE)
cc_create_aggregate_stats_reply ==
  cc_create_stats_reply("AGGREGATE", 24, "none", FALSE)
cc_create_table_stats_reply ==
  cc_create_stats_reply("TABLE", 0, "tables", FALSE)
cc_create_port_stats_reply ==
  cc_create_stats_reply("PORT", 0, "port_stats", FALSE)
cc_create_queue_stats_reply ==
  cc_create_stats_reply("QUEUE", 0, "queue_stats", FALSE)
cc_create_vendor_stats_reply ==
  cc_create_stats_reply("VENDOR", 4, "none", TRUE)
-----------------------------------------------------------------------------
(***************************************************************************)
(* The functions that send a message: what they call to make it, and how   *)
(* they deal with what that returns.                                       *)
(***************************************************************************)
Sender(builder, way) == [builder |-> builder, way |-> way]

cc_send_hello == Sender(cc_create_hello, "unchecked")
cc_send_echo_request == Sender(cc_create_echo_request, "freed first")
cc_send_echo_reply == Sender(cc_create_echo_reply, "freed first")
cc_send_features_request == Sender(cc_create_features_request, "freed after")
cc_send_get_config_request ==
  Sender(cc_create_get_config_request, "unchecked")
cc_send_set_config == Sender(cc_create_set_config, "argument, freed")
cc_send_error_msg == Sender(cc_create_error, "unchecked")
cc_send_flow_mod == Sender(cc_create_flow_mod, "checked")
cc_send_packet_out == Sender(cc_create_packet_out, "checked")
cc_send_port_mod == Sender(cc_create_port_mod, "checked")
cc_send_get_desc_stats == Sender(cc_create_desc_stats_request, "checked")
cc_send_flow_stats_request == Sender(cc_create_flow_stats_request, "checked")
cc_send_aggregate_stats_request ==
  Sender(cc_create_aggregate_stats_request, "checked")
cc_send_table_stats_request == Sender(cc_create_table_stats_request, "checked")
cc_send_port_stats_request == Sender(cc_create_port_stats_request, "checked")
cc_send_queue_stats_request == Sender(cc_create_queue_stats_request, "checked")
cc_send_vendor_stats_request ==
  Sender(cc_create_vendor_stats_request, "checked")
cc_send_msg_to_switch == Sender(cc_create_packet_out, "argument")

Senders ==
  {cc_send_hello, cc_send_echo_request, cc_send_echo_reply,
   cc_send_features_request, cc_send_get_config_request, cc_send_set_config,
   cc_send_error_msg, cc_send_flow_mod, cc_send_packet_out, cc_send_port_mod,
   cc_send_get_desc_stats, cc_send_flow_stats_request,
   cc_send_aggregate_stats_request, cc_send_table_stats_request,
   cc_send_port_stats_request, cc_send_queue_stats_request,
   cc_send_vendor_stats_request, cc_send_msg_to_switch}

\* The functions that nothing sends with, called for their message.
Unsent ==
  {Sender(b, "returned") :
     b \in {cc_create_vendor, cc_create_features_reply,
            cc_create_get_config_reply, cc_create_packet_in,
            cc_create_flow_removed, cc_create_port_status,
            cc_create_barrier_request, cc_create_barrier_reply,
            cc_create_queue_get_config_request,
            cc_create_queue_get_config_reply, cc_create_desc_stats_reply,
            cc_create_flow_stats_reply, cc_create_aggregate_stats_reply,
            cc_create_table_stats_reply, cc_create_port_stats_reply,
            cc_create_queue_stats_reply, cc_create_vendor_stats_reply}}

B == call.sender.builder

\* The fields of a body that a builder makes, and those that a caller gives
\* beside the list of a message of this type.
MadeFields ==
  {"stype", "actions_len", "actions", "ports", "queues", "entries"}

FieldsBeside(type) ==
  CASE type = "FEATURES_REPLY" -> {"n_tables"}
    [] type = "PACKET_OUT" -> {"in_port"}
    [] type = "FLOW_MOD" ->
         {"match", "command", "priority", "out_port", "flags"}
    [] type = "STATS_REPLY" -> {"flags"}
    [] type = "QUEUE_GET_CONFIG_REPLY" -> {"port"}
    [] OTHER -> {}

ASSUME CallsAssumption ==
  /\ Null \notin Calls
  /\ MaxActions \in Nat
  /\ VendorBodies \subseteq Nat
  /\ \A a \in RawActions : a.len \in 0 .. USHRT_MAX
  /\ \A c \in Calls :
       /\ c.sender \in Senders \union Unsent
       /\ c.data \in Nat \union {Null}
       /\ c.buffered \in BOOLEAN
       /\ c.sender.builder.kind \in {"none", "actions"} => c.list = <<>>
       /\ c.list \in Seq({c.list[k] : k \in DOMAIN c.list})
       /\ \A k \in DOMAIN c.list :
            Size(c.sender.builder.kind, c.list[k]) \in 0 .. USHRT_MAX
       /\ FieldsBeside(c.sender.builder.type) \subseteq DOMAIN c.body
-----------------------------------------------------------------------------
(***************************************************************************)
(* The sizes in a call.                                                    *)
(***************************************************************************)
\* data->length as the builder finds it; cc_send_error_msg cuts it down.
DataSize ==
  IF call.data = Null THEN 0
  ELSE IF call.sender = cc_send_error_msg /\ call.data > OFP_ERROR_MSG_MAX_DATA
    THEN OFP_ERROR_MSG_MAX_DATA
  ELSE call.data

data_length == IF B.data THEN U16(DataSize) ELSE 0

\* What is copied behind a message.
Copied ==
  IF data_length > 0 /\ B = cc_create_error THEN DataSize ELSE data_length

\* Mutant: the buffer is left out of the length.
M_ListOnly == U16(B.size + sum)

MessageLength == U16(B.size + sum + data_length)

\* How the sums of the list are kept: those of actions in an int.
Add(n, e) ==
  IF B.kind = "actions" THEN n + e.len ELSE U16(n + Size(B.kind, e))

\* What get_actions_length returns of a sum.
Narrow(n) == IF B.kind = "actions" /\ n > USHRT_MAX THEN CC_ERROR16 ELSE n

\* The builders that look at what cc_create_header returned, or pass it on.
TakesNull ==
  \/ B.size = HeaderSize /\ data_length = 0
  \/ B = cc_create_echo_request

\* cc_create_packet_out wants a frame when it has no buffer id.
RefusesFrame ==
  /\ B = cc_create_packet_out
  /\ ~call.buffered
  /\ call.data = Null \/ DataSize + ETH_FCS_LENGTH < ETH_MINIMUM_LENGTH
-----------------------------------------------------------------------------
(***************************************************************************)
(* A call.                                                                 *)
(***************************************************************************)
Init ==
  /\ pc = "idle"
  /\ call = Null
  /\ list = <<>>
  /\ ends = <<0>>
  /\ sum = 0
  /\ length = 0
  /\ i = 1
  /\ offset = 0
  /\ returned = "none"
  /\ queued = {}
  /\ freed = {}
  /\ ret = "none"

Start(c) ==
  /\ pc = "idle"
  /\ pc' = IF c.sender.builder.kind = "actions" THEN "append" ELSE "enter"
  /\ call' = c
  /\ list' = c.list
  /\ UNCHANGED <<ends, sum, length, i, offset, returned, queued, freed, ret>>

\* append_action_x: append_to_tail puts the action last.
AppendAction(a) ==
  /\ pc = "append"
  /\ Len(list) < MaxActions
  /\ list' = Append(list, a)
  /\ UNCHANGED <<pc, call, ends, sum, length, i, offset, returned, queued,
                 freed, ret>>

\* The list is complete, and cc_create_x is called with it.
PassActions ==
  /\ pc = "append"
  /\ pc' = "enter"
  /\ UNCHANGED <<call, list, ends, sum, length, i, offset, returned, queued,
                 freed, ret>>

\* cc_send_error_msg reads the length of a buffer it does not have.
EnterNoBuffer ==
  /\ pc = "enter"
  /\ call.sender = cc_send_error_msg
  /\ call.data = Null
  /\ pc' = "null"
  /\ UNCHANGED <<call, list, ends, sum, length, i, offset, returned, queued,
                 freed, ret>>

\* cc_create_packet_out returns CC_ERROR, -1, as a pointer.
EnterRefused ==
  /\ pc = "enter"
  /\ RefusesFrame
  /\ pc' = "made"
  /\ returned' = "CC_ERROR"
  /\ UNCHANGED <<call, list, ends, sum, length, i, offset, queued, freed, ret>>

\* cc_send_msg_to_switch copies actions and a buffer behind the struct it has
\* allocated, and writes through a pointer to actions that it never sets.  What
\* that does is undefined: it ends the program, here, or the call goes on with
\* whatever actions and buffer it has.
EnterWild ==
  /\ pc = "enter"
  /\ call.sender = cc_send_msg_to_switch
  /\ pc' = "wild"
  /\ UNCHANGED <<call, list, ends, sum, length, i, offset, returned, queued,
                 freed, ret>>

Enter ==
  /\ pc = "enter"
  /\ ~(call.sender = cc_send_error_msg /\ call.data = Null)
  /\ ~RefusesFrame
  /\ pc' = "count"
  /\ UNCHANGED <<call, list, ends, sum, length, i, offset, returned, queued,
                 freed, ret>>

\* One element is counted.
Count ==
  /\ pc = "count"
  /\ Len(ends) <= Len(list)
  /\ LET e == list[Len(ends)]
     IN /\ ~(B.kind = "actions" /\ Undefined(e))
        /\ sum' = Add(sum, e)
        /\ ends' = Append(ends, ends[Len(ends)] + Size(B.kind, e))
  /\ UNCHANGED <<pc, call, list, length, i, offset, returned, queued, freed,
                 ret>>

\* get_actions_length gives up at an action of an undefined type.
CountUndefined ==
  /\ pc = "count"
  /\ Len(ends) <= Len(list)
  /\ B.kind = "actions"
  /\ Undefined(list[Len(ends)])
  /\ pc' = "create"
  /\ sum' = CC_ERROR16
  /\ UNCHANGED <<call, list, ends, length, i, offset, returned, queued, freed,
                 ret>>

Counted ==
  /\ pc = "count"
  /\ Len(ends) > Len(list)
  /\ pc' = "create"
  /\ sum' = Narrow(sum)
  /\ UNCHANGED <<call, list, ends, length, i, offset, returned, queued, freed,
                 ret>>

\* cc_create_header, and then the fixed part.
cc_create_header ==
  /\ pc = "create"
  /\ length' = MessageLength
  /\ offset' = B.size
  /\ pc' = IF B.size > MessageLength THEN "overrun" ELSE "write"
  /\ returned' = "message"
  /\ UNCHANGED <<call, list, ends, sum, i, queued, freed, ret>>

\* cc_create_header has no memory and returns NULL.
cc_create_header_fails ==
  /\ pc = "create"
  /\ pc' = IF TakesNull THEN "made" ELSE "null"
  /\ returned' = "NULL"
  /\ UNCHANGED <<call, list, ends, sum, length, i, offset, queued, freed, ret>>

\* A list of actions is written when the sum of their lengths is not zero.
MayWrite == i <= Len(list) /\ (B.kind = "actions" => sum > 0)

\* One element is converted and written behind the previous one.
WriteElement ==
  /\ pc = "write"
  /\ MayWrite
  /\ LET e == list[i]
     IN /\ pc' = IF offset + Extent(B.kind, e) > length THEN "overrun"
                 ELSE IF Dies(B.kind, e) THEN "died"
                 ELSE IF Spins(B.kind, e) THEN "spins"
                 ELSE "write"
        /\ offset' = offset + Size(B.kind, e)
  /\ i' = i + 1
  /\ UNCHANGED <<call, list, ends, sum, length, returned, queued, freed, ret>>

\* The list is written; the buffer is copied behind it.
WriteData ==
  /\ pc = "write"
  /\ ~MayWrite
  /\ offset' = IF Copied = 0 THEN offset ELSE B.size + sum + Copied
  /\ pc' = IF Copied > 0 /\ B.size + sum + Copied > length THEN "overrun"
           ELSE "made"
  /\ UNCHANGED <<call, list, ends, sum, length, i, returned, queued, freed,
                 ret>>
-----------------------------------------------------------------------------
(***************************************************************************)
(* What the senders do with the message.                                   *)
(***************************************************************************)
\* Mutant: the result of enqueue_message is not passed on.
M_Unasked(b) ==
  /\ queued' = IF b = "NULL" THEN {} ELSE {b}
  /\ ret' = "CC_SUCCESS"

\* cc_send_to_secure_channel: enqueue_message refuses nothing but NULL.
Enqueue(b) ==
  /\ queued' = IF b = "NULL" THEN {} ELSE {b}
  /\ ret' = IF b = "NULL" THEN "CC_ERROR" ELSE "CC_SUCCESS"

Sends(way) == pc = "made" /\ call.sender.way = way

\* With a test for NULL, and without it: the queue is the next to look.
SendChecked ==
  /\ Sends("checked")
  /\ IF returned = "NULL" THEN ret' = "CC_ERROR" /\ queued' = {}
     ELSE Enqueue(returned)
  /\ pc' = "sent"
  /\ UNCHANGED <<call, list, ends, sum, length, i, offset, returned, freed>>

SendUnchecked ==
  /\ Sends("unchecked")
  /\ Enqueue(returned)
  /\ pc' = "sent"
  /\ UNCHANGED <<call, list, ends, sum, length, i, offset, returned, freed>>

\* free_buffer(buf), and the next line queues buf.
SendFreed ==
  /\ Sends("freed first")
  /\ IF returned = "NULL"
       THEN pc' = "null" /\ UNCHANGED <<queued, freed, ret>>
       ELSE pc' = "sent" /\ freed' = {returned} /\ Enqueue(returned)
  /\ UNCHANGED <<call, list, ends, sum, length, i, offset, returned>>

\* cc_send_features_request frees what it has queued.
SendAndFree ==
  /\ Sends("freed after")
  /\ Enqueue(returned)
  /\ IF returned = "NULL" THEN pc' = "null" /\ freed' = {}
     ELSE pc' = "sent" /\ freed' = {returned}
  /\ UNCHANGED <<call, list, ends, sum, length, i, offset, returned>>

\* cc_send_set_config queues and frees its argument; the message is lost.
SendArgumentAndFree ==
  /\ Sends("argument, freed")
  /\ Enqueue("argument")
  /\ freed' = {"argument"}
  /\ pc' = "sent"
  /\ UNCHANGED <<call, list, ends, sum, length, i, offset, returned>>

\* cc_send_msg_to_switch queues its argument, whose data is the bare struct of
\* a packet by now, and the message it made is lost.
SendArgument ==
  /\ Sends("argument")
  /\ Enqueue("argument")
  /\ pc' = "sent"
  /\ UNCHANGED <<call, list, ends, sum, length, i, offset, returned, freed>>

\* The call returns, and what it made is the caller's or the queue's.
Return ==
  /\ pc = "sent" \/ Sends("returned")
  /\ pc' = "idle"
  /\ call' = Null
  /\ list' = <<>>
  /\ ends' = <<0>>
  /\ sum' = 0
  /\ length' = 0
  /\ i' = 1
  /\ offset' = 0
  /\ returned' = "none"
  /\ queued' = {}
  /\ freed' = {}
  /\ ret' = "none"

Next ==
  \/ \E c \in Calls : Start(c)
  \/ \E a \in Appended : AppendAction(a)
  \/ PassActions \/ EnterNoBuffer \/ EnterWild \/ EnterRefused \/ Enter
  \/ Count \/ CountUndefined \/ Counted
  \/ cc_create_header \/ cc_create_header_fails
  \/ WriteElement \/ WriteData
  \/ SendChecked \/ SendUnchecked \/ SendFreed \/ SendAndFree
  \/ SendArgumentAndFree \/ SendArgument
  \/ Return

Spec == Init /\ [][Next]_vars
-----------------------------------------------------------------------------
(***************************************************************************)
(* Properties.                                                             *)
(***************************************************************************)
\* What is written for an element stays within the length it states, and it
\* has no undefined action and no item of length zero.
Proper(kind, e) ==
  /\ Extent(kind, e) \in 0 .. Size(kind, e)
  /\ ~Dies(kind, e)
  /\ ~Spins(kind, e)

\* The lengths in a call agree with what it passes, and a message of 16-bit
\* length has room for all of it.
Fitting ==
  /\ \A k \in DOMAIN list : Proper(B.kind, list[k])
  /\ B.size + ends[Len(ends)] + (IF B.data THEN DataSize ELSE 0) <= USHRT_MAX

\* For all builders: what they write of a call that fits comes to an end, stays
\* within the length they allocated and fills it to the last byte, although the
\* lengths are added up in 16 bits in one loop and the elements written in
\* another.
WritesFit ==
  /\ pc \in {"overrun", "died", "spins"} => ~Fitting
  /\ pc \in {"made", "sent"} /\ returned = "message" /\ Fitting
       => offset = length

\* The field of a table, or of the counters of a port, that is validated.
Checked(e) == IF B.kind = "tables" THEN e.wildcards ELSE e.port_no

\* The message that a call makes, with so many bytes and these elements, which
\* stand in each of the fields that may be the list of its type.
Message(n, elements, m) ==
  LET entries == IF B.kind \in {"tables", "port_stats", "queue_stats"}
                   THEN [k \in DOMAIN elements |-> Checked(elements[k])]
                   ELSE elements
  IN [version |-> OFP_VERSION, type |-> B.type, hdr |-> n, len |-> n,
      body |-> [f \in DOMAIN call.body \union MadeFields |->
                  CASE f = "stype" -> B.stype
                    [] f = "actions_len" -> m
                    [] f \in {"actions", "ports", "queues"} -> elements
                    [] f = "entries" -> entries
                    [] OTHER -> call.body[f]]]

ValidElement(e) ==
  V!OK = CASE B.kind = "actions" -> V!ValidateAction(e)
           [] B.kind = "ports" -> V!ValidatePhyPort(e)
           [] B.kind = "flows" -> V!ValidateFlowStats(e)
           [] B.kind = "tables" -> V!ValidateWildcards(Checked(e))
           [] B.kind = "queues" -> V!ValidatePacketQueue(e)
           [] OTHER -> V!ValidatePhyPortNo(Checked(e))

\* The size of the message without its list, for the end that validates it.
BareLength ==
  IF B.kind = "queues" THEN 16 ELSE V!MinLength(Message(0, <<>>, 0))

\* The fields are valid as they are without a list, and so is each element.
ValidArguments ==
  /\ V!ValidateBody(Message(BareLength, <<>>, 0)) = V!OK
  /\ \A k \in DOMAIN list : ValidElement(list[k])

\* The builders and validate_openflow_message agree: a message made of valid
\* fields and elements is valid as a whole, its lengths and the walks over its
\* lists included.  A reply about the queues of a port that has none, which
\* is shorter than its validator allows, is the exception.
BuiltIsAccepted ==
  pc = "made" /\ returned = "message" /\ Fitting /\ ValidArguments
    /\ ~(B = cc_create_queue_get_config_reply /\ list = <<>>)
    => V!Validate(Message(length, list, sum)) = V!OK

\* For the senders that neither free nor replace what they send: success means
\* that the message was made and is on the queue for the thread that writes
\* it, and failure that nothing is; except for the frame that
\* cc_create_packet_out refuses with an error its caller takes for a message.
SuccessMeansQueued ==
  pc = "sent" /\ call.sender.way \in {"checked", "unchecked"}
    /\ returned # "CC_ERROR"
    => /\ freed = {}
       /\ ret = "CC_SUCCESS" => queued = {"message"} /\ length >= HeaderSize
       /\ ret = "CC_ERROR" => queued = {} /\ returned = "NULL"
=============================================================================
