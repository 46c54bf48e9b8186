---------------------------- MODULE MsgPrepProofs ----------------------------
(***************************************************************************)
(* Proofs about MsgPrep: what is written of a call that fits stays within  *)
(* the message that was allocated for it and fills it, whatever the calls; *)
(* a sender that reports success has queued what it made; and what a       *)
(* builder makes of valid fields and elements passes the validators.       *)
(*                                                                         *)
(* The lengths of a list are added up by one loop and used by another.     *)
(* ends, the history of the first, says where each element has to be; the  *)
(* invariant says that the second finds the same places.                   *)
(*                                                                         *)
(* MsgPrep uses the validators as the instance V.  What OfMessageProofs    *)
(* says of them comes in as the instance P, whose definitions are shown to *)
(* be those of V, loop by loop; then each kind of message is followed from *)
(* the builder, which gives its lengths, to the validator, which allows    *)
(* them.                                                                   *)
(***************************************************************************)
EXTENDS MsgPrep, TLAPS

AllSenders == Senders \union Unsent

WellSized(b) ==
  b.size \in Nat /\ b.size >= HeaderSize /\ b.data \in BOOLEAN

\* Every function makes a message with at least a header.
LEMMA SendersHaveSizes ==
  \A s \in AllSenders : WellSized(s.builder)
<1>1. /\ WellSized(cc_create_hello)
      /\ WellSized(cc_create_features_request)
      /\ WellSized(cc_create_get_config_request)
      /\ WellSized(cc_create_get_config_reply)
      /\ WellSized(cc_create_set_config)
      /\ WellSized(cc_create_flow_removed)
      /\ WellSized(cc_create_port_status)
      /\ WellSized(cc_create_port_mod)
      /\ WellSized(cc_create_barrier_request)
      /\ WellSized(cc_create_barrier_reply)
      /\ WellSized(cc_create_queue_get_config_request)
  BY DEF WellSized, Builder, Plain, WithData, HeaderSize, cc_create_hello,
    cc_create_features_request, cc_create_get_config_request,
    cc_create_get_config_reply, cc_create_set_config, cc_create_flow_removed,
    cc_create_port_status, cc_create_port_mod, cc_create_barrier_request,
    cc_create_barrier_reply, cc_create_queue_get_config_request
<1>2. /\ WellSized(cc_create_error)
      /\ WellSized(cc_create_echo_request)
      /\ WellSized(cc_create_echo_reply)
      /\ WellSized(cc_create_vendor)
      /\ WellSized(cc_create_packet_in)
  BY DEF WellSized, Builder, Plain, WithData, HeaderSize, cc_create_error,
    cc_create_echo_request, cc_create_echo_reply, cc_create_vendor,
    cc_create_packet_in
<1>3. /\ WellSized(cc_create_features_reply)
      /\ WellSized(cc_create_packet_out)
      /\ WellSized(cc_create_flow_mod)
      /\ WellSized(cc_create_queue_get_config_reply)
  BY DEF WellSized, Builder, HeaderSize, cc_create_features_reply,
    cc_create_packet_out, cc_create_flow_mod,
    cc_create_queue_get_config_reply
<1>4. /\ WellSized(cc_create_desc_stats_request)
      /\ WellSized(cc_create_flow_stats_request)
      /\ WellSized(cc_create_aggregate_stats_request)
      /\ WellSized(cc_create_table_stats_request)
      /\ WellSized(cc_create_port_stats_request)
      /\ WellSized(cc_create_queue_stats_request)
      /\ WellSized(cc_create_vendor_stats_request)
  BY DEF WellSized, Builder, HeaderSize, StatsHeaderSize,
    cc_create_stats_request, cc_create_desc_stats_request,
    cc_create_flow_stats_request, cc_create_aggregate_stats_request,
    cc_create_table_stats_request, cc_create_port_stats_request,
    cc_create_queue_stats_request, cc_create_vendor_stats_request
<1>5. /\ WellSized(cc_create_desc_stats_reply)
      /\ WellSized(cc_create_flow_stats_reply)
      /\ WellSized(cc_create_aggregate_stats_reply)
      /\ WellSized(cc_create_table_stats_reply)
      /\ WellSized(cc_create_port_stats_reply)
      /\ WellSized(cc_create_queue_stats_reply)
      /\ WellSized(cc_create_vendor_stats_reply)
  BY DEF WellSized, Builder, HeaderSize, StatsHeaderSize,
    cc_create_stats_reply, cc_create_desc_stats_reply,
    cc_create_flow_stats_reply, cc_create_aggregate_stats_reply,
    cc_create_table_stats_reply, cc_create_port_stats_reply,
    cc_create_queue_stats_reply, cc_create_vendor_stats_reply
<1>6. \A s \in Senders : WellSized(s.builder)
  <2> SUFFICES ASSUME NEW s \in Senders
               PROVE  WellSized(s.builder)
    OBVIOUS
  <2>1. /\ WellSized(cc_send_hello.builder)
        /\ WellSized(cc_send_echo_request.builder)
        /\ WellSized(cc_send_echo_reply.builder)
        /\ WellSized(cc_send_features_request.builder)
        /\ WellSized(cc_send_get_config_request.builder)
        /\ WellSized(cc_send_set_config.builder)
        /\ WellSized(cc_send_error_msg.builder)
        /\ WellSized(cc_send_flow_mod.builder)
        /\ WellSized(cc_send_packet_out.builder)
        /\ WellSized(cc_send_port_mod.builder)
    BY <1>1, <1>2, <1>3 DEF Sender, cc_send_hello, cc_send_echo_request,
      cc_send_echo_reply, cc_send_features_request,
      cc_send_get_config_request, cc_send_set_config, cc_send_error_msg,
      cc_send_flow_mod, cc_send_packet_out, cc_send_port_mod
  <2>2. /\ WellSized(cc_send_get_desc_stats.builder)
        /\ WellSized(cc_send_flow_stats_request.builder)
        /\ WellSized(cc_send_aggregate_stats_request.builder)
        /\ WellSized(cc_send_table_stats_request.builder)
        /\ WellSized(cc_send_port_stats_request.builder)
        /\ WellSized(cc_send_queue_stats_request.builder)
        /\ WellSized(cc_send_vendor_stats_request.builder)
        /\ WellSized(cc_send_msg_to_switch.builder)
    BY <1>3, <1>4 DEF Sender, cc_send_get_desc_stats,
      cc_send_flow_stats_request, cc_send_aggregate_stats_request,
      cc_send_table_stats_request, cc_send_port_stats_request,
      cc_send_queue_stats_request, cc_send_vendor_stats_request,
      cc_send_msg_to_switch
  <2> QED
    BY <2>1, <2>2 DEF Senders
<1>7. \A s \in Unsent : WellSized(s.builder)
  BY <1>1, <1>2, <1>3, <1>5 DEF Unsent, Sender
<1> QED
  BY <1>6, <1>7 DEF AllSenders

\* The limit is a number; a range up to it is never spelled out.
LEMMA Short == USHRT_MAX \in Nat /\ 16 <= USHRT_MAX
BY DEF USHRT_MAX

\* What is cut to 16 bits has 16 bits.
LEMMA U16Bounded ==
  \A n \in Nat : U16(n) \in 0 .. USHRT_MAX /\ U16(n) \in Nat
<1>1. \A n \in Nat : U16(n) \in Nat /\ U16(n) <= USHRT_MAX
  BY DEF U16, USHRT_MAX
<1> QED
  BY <1>1, Short

\* The functions of cc_of_action.c append actions of a 16-bit length.
LEMMA AppendedHaveSizes ==
  \A a \in Appended : Size("actions", a) \in 0 .. USHRT_MAX
<1>1. ASSUME NEW n \in VendorBodies
      PROVE  append_action_vendor(n).len \in 0 .. USHRT_MAX
  <2>1. n \in Nat
    BY CallsAssumption
  <2>2. U16(n) \in Nat
    BY <2>1, U16Bounded
  <2>3. 8 + U16(n) \in Nat
    BY <2>2
  <2>4. U16(8 + U16(n)) \in 0 .. USHRT_MAX
    BY <2>3, U16Bounded
  <2> QED
    BY <2>4 DEF append_action_vendor, Action
<1>2. ASSUME NEW x \in ArgValues
      PROVE  /\ append_action_output(x).len = 8
             /\ append_action_set_vlan_vid(x).len = 8
             /\ append_action_set_vlan_pcp(x).len = 8
             /\ append_action_set_nw_tos(x).len = 8
             /\ append_action_enqueue(x).len = 16
  BY DEF Action, append_action_output, append_action_set_vlan_vid,
    append_action_set_vlan_pcp, append_action_set_nw_tos,
    append_action_enqueue
<1>3. /\ append_action_strip_vlan.len = 8
      /\ append_action_set_dl_src.len = 16
      /\ append_action_set_dl_dst.len = 16
      /\ append_action_set_nw_src.len = 8
      /\ append_action_set_nw_dst.len = 8
      /\ append_action_set_tp_src.len = 8
      /\ append_action_set_tp_dst.len = 8
  BY DEF Action, append_action_strip_vlan, append_action_set_dl_addr,
    append_action_set_dl_src, append_action_set_dl_dst,
    append_action_set_nw_addr, append_action_set_nw_src,
    append_action_set_nw_dst, append_action_set_tp_port,
    append_action_set_tp_src, append_action_set_tp_dst
<1>4. \A a \in RawActions : a.len \in 0 .. USHRT_MAX
  BY CallsAssumption
<1>5. 8 \in 0 .. USHRT_MAX /\ 16 \in 0 .. USHRT_MAX
  BY Short
<1>6. \A a \in Appended : a.len \in 0 .. USHRT_MAX
  <2> SUFFICES ASSUME NEW a \in Appended
               PROVE  a.len \in 0 .. USHRT_MAX
    OBVIOUS
  <2>1. CASE a \in RawActions
    BY <2>1, <1>4
  <2>2. CASE \E n \in VendorBodies : a = append_action_vendor(n)
    BY <2>2, <1>1
  <2>3. CASE \E x \in ArgValues :
               \/ a = append_action_output(x)
               \/ a = append_action_set_vlan_vid(x)
               \/ a = append_action_set_vlan_pcp(x)
               \/ a = append_action_set_nw_tos(x)
               \/ a = append_action_enqueue(x)
    BY <2>3, <1>2, <1>5
  <2>4. CASE a \in {append_action_strip_vlan,
                    append_action_set_dl_src, append_action_set_dl_dst,
                    append_action_set_nw_src, append_action_set_nw_dst,
                    append_action_set_tp_src, append_action_set_tp_dst}
    BY <2>4, <1>3, <1>5
  <2> QED
    BY <2>1, <2>2, <2>3, <2>4 DEF Appended
<1>7. "actions" \notin DOMAIN EntrySize
  BY DEF EntrySize
<1> QED
  BY <1>6, <1>7 DEF Size
-----------------------------------------------------------------------------
\* The list that a call may pass.
ListOf(c, l) ==
  IF c.sender.builder.kind = "actions" THEN l \in Seq(Appended)
  ELSE l = c.list

\* What the call is, and what it passes.
CallInv ==
  /\ call \in Calls \union {Null}
  /\ pc # "idle" => call \in Calls
  /\ call \in Calls => ListOf(call, list)
  /\ pc = "append" => B.kind = "actions"

\* The history of the first loop.
EndsInv ==
  /\ ends \in Seq(Nat)
  /\ Len(ends) >= 1
  /\ ends[1] = 0
  /\ \A k \in 1 .. Len(ends) : ends[k] <= ends[Len(ends)]
  /\ call \in Calls =>
       /\ Len(ends) <= Len(list) + 1
       /\ \A k \in 1 .. Len(ends) - 1 :
            ends[k + 1] = ends[k] + Size(B.kind, list[k])

Last == ends[Len(ends)]

\* The sum agrees with the history as long as 16 bits can hold it.
SumInv ==
  /\ sum \in Nat
  /\ pc \in {"idle", "append", "enter"} => ends = <<0>> /\ sum = 0
  /\ pc = "count" => sum = IF B.kind = "actions" THEN Last ELSE U16(Last)
  /\ pc \in {"create", "write"} /\ Fitting
       => Len(ends) = Len(list) + 1 /\ sum = Last

DataFits == IF B.data THEN DataSize ELSE 0

\* The second loop is where the first one said.
OffsetInv ==
  /\ i \in Nat \ {0}
  /\ pc \in {"idle", "append", "enter", "count", "create"} => i = 1
  /\ pc = "write" /\ Fitting
       => /\ length = B.size + Last + DataFits
          /\ i <= Len(ends)
          /\ offset = B.size + ends[i]

IInv == CallInv /\ EndsInv /\ SumInv /\ OffsetInv /\ WritesFit
-----------------------------------------------------------------------------
\* A list is a sequence whose elements have a 16-bit size.
LEMMA ListFacts ==
  ASSUME NEW c \in Calls, NEW l, ListOf(c, l)
  PROVE  /\ Len(l) \in Nat
         /\ DOMAIN l = 1 .. Len(l)
         /\ \A k \in 1 .. Len(l) : Size(c.sender.builder.kind, l[k]) \in Nat
<1> DEFINE kind == c.sender.builder.kind
<1>0. \A n : n \in 0 .. USHRT_MAX => n \in Nat
  BY Short
<1>1. CASE kind = "actions"
  <2>1. l \in Seq(Appended)
    BY <1>1 DEF ListOf
  <2>2. \A k \in 1 .. Len(l) : l[k] \in Appended
    BY <2>1
  <2>3. \A k \in 1 .. Len(l) : Size("actions", l[k]) \in Nat
    BY <2>2, <1>0, AppendedHaveSizes
  <2>4. Len(l) \in Nat /\ DOMAIN l = 1 .. Len(l)
    BY <2>1
  <2> QED
    BY <1>1, <2>3, <2>4
<1>2. CASE kind # "actions"
  <2>1. l = c.list
    BY <1>2 DEF ListOf
  <2> DEFINE S == {l[k] : k \in DOMAIN l}
  <2>2. /\ l \in Seq(S)
        /\ \A k \in DOMAIN l : Size(kind, l[k]) \in 0 .. USHRT_MAX
    BY <2>1, CallsAssumption
  <2> HIDE DEF S, kind
  <2>3. Len(l) \in Nat /\ DOMAIN l = 1 .. Len(l)
    BY <2>2
  <2>4. \A k \in DOMAIN l : Size(kind, l[k]) \in Nat
    BY <2>2, <1>0
  <2> QED
    BY <2>3, <2>4 DEF kind
<1> QED
  BY <1>1, <1>2

\* The fixed part and the buffer of a call have sizes, at least a header.
LEMMA SizesOfCall ==
  ASSUME call \in Calls
  PROVE  /\ B.size \in Nat
         /\ B.size >= HeaderSize
         /\ DataSize \in Nat
         /\ DataFits \in Nat
         /\ data_length \in Nat
         /\ DataFits <= USHRT_MAX =>
              data_length = DataFits /\ Copied = DataFits
<1>1. B.size \in Nat /\ B.size >= HeaderSize /\ B.data \in BOOLEAN
  BY SendersHaveSizes, CallsAssumption DEF WellSized, AllSenders, B
<1>2. DataSize \in Nat
  BY CallsAssumption DEF DataSize, OFP_ERROR_MSG_MAX_DATA
<1>3. \A n \in Nat : n <= USHRT_MAX => U16(n) = n
  BY DEF U16, USHRT_MAX
<1>4. data_length \in Nat /\ DataFits \in Nat
  BY <1>1, <1>2, U16Bounded DEF data_length, DataFits
<1>5. ASSUME DataFits <= USHRT_MAX
      PROVE  data_length = DataFits /\ Copied = DataFits
  <2>1. CASE B.data
    <3>1. DataFits = DataSize /\ data_length = DataSize
      BY <2>1, <1>5, <1>2, <1>3 DEF DataFits, data_length
    <3> QED
      BY <3>1 DEF Copied
  <2>2. CASE ~B.data
    BY <2>2 DEF DataFits, data_length, Copied
  <2> QED
    BY <2>1, <2>2, <1>1
<1> QED
  BY <1>1, <1>2, <1>4, <1>5

\* A call that fits keeps to 16 bits.
LEMMA FitsSixteenBits ==
  ASSUME CallInv, EndsInv, call \in Calls, Fitting
  PROVE  /\ Last \in Nat
         /\ B.size + Last + DataFits <= USHRT_MAX
         /\ Last <= USHRT_MAX
         /\ DataFits <= USHRT_MAX
<1>1. Last \in Nat
  BY DEF EndsInv, Last
<1>2. B.size \in Nat /\ DataFits \in Nat
  BY SizesOfCall
<1>3. B.size + Last + DataFits <= USHRT_MAX
  BY DEF Fitting, Last, DataFits
<1> QED
  BY <1>1, <1>2, <1>3 DEF USHRT_MAX

\* A number of 16 bits is itself; cutting may wait until after an addition.
LEMMA SixteenBits ==
  /\ \A n \in Nat : n <= USHRT_MAX => U16(n) = n
  /\ \A m, n \in Nat : U16(U16(m) + n) = U16(m + n)
BY DEF U16, USHRT_MAX
-----------------------------------------------------------------------------
\* No call is in progress at first.
LEMMA InitInv == Init => IInv
<1> SUFFICES ASSUME Init
             PROVE  IInv
  OBVIOUS
<1>1. Null \notin Calls
  BY CallsAssumption
<1>2. CallInv
  BY <1>1 DEF Init, CallInv
<1>3. EndsInv
  BY <1>1 DEF Init, EndsInv
<1>4. SumInv
  BY DEF Init, SumInv
<1>5. OffsetInv
  BY DEF Init, OffsetInv
<1>6. WritesFit
  BY DEF Init, WritesFit
<1> QED
  BY <1>2, <1>3, <1>4, <1>5, <1>6 DEF IInv

\* While the call, its list and the history stay, so does whether it fits.
LEMMA SameCall ==
  ASSUME call' = call, list' = list, ends' = ends
  PROVE  /\ Fitting' <=> Fitting
         /\ B' = B
         /\ Last' = Last
         /\ DataFits' = DataFits
BY DEF Fitting, B, Last, DataFits, DataSize

\* A step that only moves the call on disturbs nothing.
LEMMA QuietStep ==
  ASSUME IInv, call' = call, list' = list, ends' = ends, sum' = sum,
         i' = i, offset' = offset, length' = length, returned' = returned,
         \/ pc = "append" /\ pc' = "enter"
         \/ pc = "enter" /\ pc' \in {"null", "wild"}
         \/ pc = "made" /\ pc' \in {"sent", "null"}
  PROVE  IInv'
<1> USE DEF IInv
<1>1. CallInv'
  BY SameCall DEF CallInv
<1>2. EndsInv'
  BY SameCall DEF EndsInv
<1>3. SumInv'
  BY SameCall DEF SumInv
<1>4. OffsetInv'
  BY SameCall DEF OffsetInv
<1>5. WritesFit'
  BY SameCall DEF WritesFit
<1> QED
  BY <1>1, <1>2, <1>3, <1>4, <1>5
-----------------------------------------------------------------------------
\* A call begins with an empty sum.
LEMMA StartInv ==
  ASSUME IInv, NEW c \in Calls, Start(c)
  PROVE  IInv'
<1> USE DEF IInv, Start
<1>1. /\ call' = c /\ call' \in Calls /\ list' = c.list
      /\ ends = <<0>> /\ ends' = ends /\ sum = 0 /\ sum' = 0
      /\ i = 1 /\ i' = 1
      /\ pc' \in {"append", "enter"}
      /\ pc' = "append" => c.sender.builder.kind = "actions"
  BY DEF SumInv, OffsetInv
<1>2. ListOf(c, c.list)
  <2>1. c.sender.builder.kind = "actions" => c.list = <<>>
    BY CallsAssumption
  <2>2. <<>> \in Seq(Appended)
    OBVIOUS
  <2> QED
    BY <2>1, <2>2 DEF ListOf
<1>3. CallInv'
  BY <1>1, <1>2 DEF CallInv, B
<1>4. EndsInv'
  <2>1. Len(c.list) \in Nat
    BY <1>2, ListFacts
  <2> QED
    BY <1>1, <2>1 DEF EndsInv
<1>5. SumInv'
  BY <1>1 DEF SumInv
<1>6. OffsetInv'
  BY <1>1 DEF OffsetInv
<1>7. WritesFit'
  BY <1>1 DEF WritesFit
<1> QED
  BY <1>3, <1>4, <1>5, <1>6, <1>7

\* Appending an action keeps the list a list.
LEMMA AppendInv ==
  ASSUME IInv, NEW a \in Appended, AppendAction(a)
  PROVE  IInv'
<1> USE DEF IInv, AppendAction
<1>1. /\ call \in Calls /\ call' = call /\ B' = B
      /\ ends = <<0>> /\ ends' = ends /\ sum = 0 /\ sum' = 0
      /\ i = 1 /\ i' = 1
      /\ pc = "append" /\ pc' = "append"
      /\ B.kind = "actions" /\ ListOf(call, list)
  BY DEF CallInv, SumInv, OffsetInv, B
<1>2. list \in Seq(Appended) /\ list' \in Seq(Appended)
  BY <1>1 DEF ListOf, B
<1>3. CallInv'
  BY <1>1, <1>2 DEF CallInv, ListOf, B
<1>4. EndsInv'
  <2>1. Len(list') \in Nat
    BY <1>2
  <2> QED
    BY <1>1, <2>1 DEF EndsInv
<1>5. SumInv'
  BY <1>1 DEF SumInv
<1>6. OffsetInv'
  BY <1>1 DEF OffsetInv
<1>7. WritesFit'
  BY <1>1 DEF WritesFit
<1> QED
  BY <1>3, <1>4, <1>5, <1>6, <1>7

\* A frame that is refused leaves nothing made.
LEMMA EnterRefusedInv ==
  ASSUME IInv, EnterRefused
  PROVE  IInv'
<1> USE DEF IInv, EnterRefused
<1>1. CallInv'
  BY SameCall DEF CallInv
<1>2. EndsInv'
  BY SameCall DEF EndsInv
<1>3. SumInv'
  BY SameCall DEF SumInv
<1>4. OffsetInv'
  BY SameCall DEF OffsetInv
<1>5. WritesFit'
  BY SameCall DEF WritesFit
<1> QED
  BY <1>1, <1>2, <1>3, <1>4, <1>5

\* The list is counted from its start.
LEMMA EnterInv ==
  ASSUME IInv, Enter
  PROVE  IInv'
<1> USE DEF IInv, Enter
<1>1. CallInv'
  BY SameCall DEF CallInv
<1>2. EndsInv'
  BY SameCall DEF EndsInv
<1>3. SumInv'
  <2>0. ends' = <<0>> /\ sum' = 0
    BY DEF SumInv
  <2>1. Last' = 0 /\ U16(0) = 0
    BY <2>0 DEF Last, U16
  <2> QED
    BY <2>0, <2>1 DEF SumInv
<1>4. OffsetInv'
  BY SameCall DEF OffsetInv
<1>5. WritesFit'
  BY SameCall DEF WritesFit
<1> QED
  BY <1>1, <1>2, <1>3, <1>4, <1>5
-----------------------------------------------------------------------------
\* The first loop.
LEMMA CountInv ==
  ASSUME IInv, Count
  PROVE  IInv'
<1> USE DEF IInv, Count
<1> DEFINE e == list[Len(ends)]
           z == Size(B.kind, e)
<1>1. /\ call \in Calls /\ call' = call /\ list' = list /\ B' = B
      /\ pc = "count" /\ pc' = "count" /\ i = 1 /\ i' = 1
      /\ ListOf(call, list)
      /\ Len(ends) <= Len(list)
  BY DEF CallInv, OffsetInv, B
<1>2. /\ Len(list) \in Nat
      /\ \A k \in 1 .. Len(list) : Size(B.kind, list[k]) \in Nat
  BY <1>1, ListFacts DEF B
<1>3. Len(ends) \in Nat /\ Len(ends) >= 1 /\ Last \in Nat
  BY DEF EndsInv, Last
<1>4. z \in Nat
  BY <1>1, <1>2, <1>3
<1>5. ends' = Append(ends, Last + z) /\ sum' = Add(sum, e)
  BY DEF Last
<1> HIDE DEF z, e
<1>6. /\ ends' \in Seq(Nat)
      /\ Len(ends') = Len(ends) + 1
      /\ \A k \in 1 .. Len(ends) : ends'[k] = ends[k]
      /\ ends'[Len(ends')] = Last + z
  BY <1>3, <1>4, <1>5 DEF EndsInv
<1>7. CallInv'
  BY <1>1 DEF CallInv
<1>8. EndsInv'
  <2>1. Len(ends') >= 1 /\ ends'[1] = 0 /\ Len(ends') <= Len(list') + 1
    BY <1>1, <1>2, <1>3, <1>6 DEF EndsInv
  <2>2. \A k \in 1 .. Len(ends') : ends'[k] <= ends'[Len(ends')]
    <3> SUFFICES ASSUME NEW k \in 1 .. Len(ends')
                 PROVE  ends'[k] <= ends'[Len(ends')]
      OBVIOUS
    <3>1. CASE k = Len(ends')
      BY <3>1, <1>3, <1>4, <1>6
    <3>2. CASE k # Len(ends')
      <4>1. k \in 1 .. Len(ends) /\ ends'[k] = ends[k]
        BY <3>2, <1>3, <1>6
      <4>2. ends[k] <= Last /\ ends[k] \in Nat
        BY <4>1 DEF EndsInv, Last
      <4> QED
        BY <4>1, <4>2, <1>3, <1>4, <1>6
    <3> QED
      BY <3>1, <3>2
  <2>3. \A k \in 1 .. Len(ends') - 1 :
          ends'[k + 1] = ends'[k] + Size(B.kind, list[k])
    <3> SUFFICES ASSUME NEW k \in 1 .. Len(ends') - 1
                 PROVE  ends'[k + 1] = ends'[k] + Size(B.kind, list[k])
      OBVIOUS
    <3>1. CASE k = Len(ends)
      BY <3>1, <1>3, <1>6 DEF Last, z, e
    <3>2. CASE k # Len(ends)
      <4>1. /\ k \in 1 .. Len(ends) - 1
            /\ ends'[k] = ends[k] /\ ends'[k + 1] = ends[k + 1]
        BY <3>2, <1>3, <1>6
      <4> QED
        BY <4>1, <1>1 DEF EndsInv
    <3> QED
      BY <3>1, <3>2
  <2> QED
    BY <1>1, <1>6, <2>1, <2>2, <2>3 DEF EndsInv
<1>9. SumInv'
  <2>1. Last' = Last + z
    BY <1>6 DEF Last
  <2>2. CASE B.kind = "actions"
    <3>1. sum = Last /\ z = e.len
      BY <1>1, <2>2 DEF SumInv, z, Size, EntrySize
    <3>2. sum' = Last'
      BY <3>1, <2>1, <2>2, <1>5 DEF Add
    <3> QED
      BY <3>2, <2>1, <2>2, <1>1, <1>3, <1>4 DEF SumInv
  <2>3. CASE B.kind # "actions"
    <3>1. sum = U16(Last)
      BY <1>1, <2>3 DEF SumInv
    <3>2. sum' = U16(Last')
      BY <3>1, <2>1, <2>3, <1>3, <1>4, <1>5, SixteenBits DEF Add, z
    <3>3. sum' \in Nat
      <4>1. Last' \in Nat
        BY <2>1, <1>3, <1>4
      <4> QED
        BY <4>1, <3>2, U16Bounded
    <3> QED
      BY <3>2, <3>3, <2>3, <1>1 DEF SumInv
  <2> QED
    BY <2>2, <2>3
<1>10. OffsetInv'
  BY <1>1 DEF OffsetInv
<1>11. WritesFit'
  BY <1>1 DEF WritesFit
<1> QED
  BY <1>7, <1>8, <1>9, <1>10, <1>11

\* An action of an undefined type makes the call one that does not fit.
LEMMA CountUndefinedInv ==
  ASSUME IInv, CountUndefined
  PROVE  IInv'
<1> USE DEF IInv, CountUndefined
<1>1. CallInv'
  BY SameCall DEF CallInv
<1>2. EndsInv'
  BY SameCall DEF EndsInv
<1>3. ~Fitting
  <2>1. Len(ends) \in Nat /\ Len(ends) >= 1
    BY DEF EndsInv
  <2>2. Len(list) \in Nat /\ DOMAIN list = 1 .. Len(list)
    BY ListFacts DEF CallInv
  <2>3. Len(ends) \in DOMAIN list
    BY <2>1, <2>2
  <2>4. ~Proper(B.kind, list[Len(ends)])
    BY DEF Proper, Dies
  <2> QED
    BY <2>3, <2>4 DEF Fitting
<1>4. SumInv'
  <2>1. sum' \in Nat
    BY DEF CC_ERROR16, USHRT_MAX
  <2> QED
    BY <1>3, <2>1, SameCall DEF SumInv
<1>5. OffsetInv'
  BY DEF OffsetInv
<1>6. WritesFit'
  BY DEF WritesFit
<1> QED
  BY <1>1, <1>2, <1>4, <1>5, <1>6

\* When the list has been counted, its sum is exact or the call does not fit.
LEMMA CountedInv ==
  ASSUME IInv, Counted
  PROVE  IInv'
<1> USE DEF IInv, Counted
<1>1. call \in Calls /\ Last \in Nat
  BY DEF CallInv, EndsInv, Last
<1>2. CallInv'
  BY SameCall DEF CallInv
<1>3. EndsInv'
  BY SameCall DEF EndsInv
<1>4. SumInv'
  <2>1. Len(ends) \in Nat /\ Len(list) \in Nat
    BY <1>1, ListFacts DEF CallInv, EndsInv
  <2>2. Len(ends) = Len(list) + 1
    BY <1>1, <2>1 DEF EndsInv
  <2>3. sum' \in Nat
    BY DEF SumInv, Narrow, CC_ERROR16, USHRT_MAX
  <2>4. ASSUME Fitting
        PROVE  sum' = Last
    <3>1. Last <= USHRT_MAX
      BY <2>4, <1>1, FitsSixteenBits
    <3>2. sum = Last
      BY <3>1, <1>1, SixteenBits DEF SumInv
    <3> QED
      BY <3>1, <3>2, <1>1 DEF Narrow, USHRT_MAX
  <2> QED
    BY <2>2, <2>3, <2>4, SameCall DEF SumInv
<1>5. OffsetInv'
  BY DEF OffsetInv
<1>6. WritesFit'
  BY DEF WritesFit
<1> QED
  BY <1>2, <1>3, <1>4, <1>5, <1>6
-----------------------------------------------------------------------------
\* The header and the fixed part.
LEMMA CreateInv ==
  ASSUME IInv, cc_create_header
  PROVE  IInv'
<1> USE DEF IInv, cc_create_header
<1>1. call \in Calls
  BY DEF CallInv
<1>2. /\ B.size \in Nat /\ DataFits \in Nat /\ data_length \in Nat
      /\ sum \in Nat
  BY <1>1, SizesOfCall DEF SumInv
<1>3. ASSUME Fitting
      PROVE  length' = B.size + Last + DataFits
  <2>1. /\ Last \in Nat /\ B.size + Last + DataFits <= USHRT_MAX
        /\ data_length = DataFits
    BY <1>1, <1>3, FitsSixteenBits, SizesOfCall
  <2>2. sum = Last
    BY <1>3 DEF SumInv
  <2>3. B.size + sum + data_length \in Nat
    BY <1>2
  <2>4. MessageLength = B.size + sum + data_length
    BY <2>1, <2>2, <2>3, SixteenBits DEF MessageLength
  <2> QED
    BY <2>1, <2>2, <2>4
<1>4. CallInv'
  BY SameCall DEF CallInv
<1>5. EndsInv'
  BY SameCall DEF EndsInv
<1>6. SumInv'
  BY SameCall DEF SumInv
<1>7. OffsetInv'
  <2>1. i = 1 /\ 1 <= Len(ends) /\ ends[1] = 0
    BY DEF OffsetInv, EndsInv
  <2>2. offset' = B.size + ends[i]
    BY <1>2, <2>1
  <2> QED
    BY <1>3, <2>1, <2>2, SameCall DEF OffsetInv
<1>8. WritesFit'
  <2>1. pc' = "overrun" => ~Fitting
    <3> SUFFICES ASSUME Fitting, B.size > MessageLength
                 PROVE  FALSE
      OBVIOUS
    <3>1. Last \in Nat
      BY DEF EndsInv, Last
    <3>2. MessageLength = B.size + Last + DataFits
      BY <1>3
    <3> QED
      BY <1>2, <3>1, <3>2
  <2> QED
    BY <2>1, SameCall DEF WritesFit
<1> QED
  BY <1>4, <1>5, <1>6, <1>7, <1>8

\* Without memory there is no message.
LEMMA CreateFailsInv ==
  ASSUME IInv, cc_create_header_fails
  PROVE  IInv'
<1> USE DEF IInv, cc_create_header_fails
<1>1. CallInv'
  BY SameCall DEF CallInv
<1>2. EndsInv'
  BY SameCall DEF EndsInv
<1>3. SumInv'
  BY SameCall DEF SumInv
<1>4. OffsetInv'
  BY SameCall DEF OffsetInv
<1>5. WritesFit'
  BY SameCall DEF WritesFit
<1> QED
  BY <1>1, <1>2, <1>3, <1>4, <1>5

\* The second loop: an element that is written ends before the list does.
LEMMA WriteElementInv ==
  ASSUME IInv, WriteElement
  PROVE  IInv'
<1> USE DEF IInv, WriteElement
<1> DEFINE e == list[i]
           z == Size(B.kind, e)
<1>1. call \in Calls /\ pc = "write" /\ ListOf(call, list)
  BY DEF CallInv
<1>2. B.size \in Nat /\ DataFits \in Nat
  BY <1>1, SizesOfCall
<1>3. /\ Len(list) \in Nat /\ DOMAIN list = 1 .. Len(list)
      /\ i \in 1 .. Len(list)
  BY <1>1, ListFacts DEF OffsetInv, MayWrite
<1>4. ASSUME Fitting
      PROVE  /\ i + 1 <= Len(ends)
             /\ offset' = B.size + ends[i + 1]
             /\ ~(offset + Extent(B.kind, e) > length)
             /\ ~Dies(B.kind, e) /\ ~Spins(B.kind, e)
  <2>1. /\ Len(ends) = Len(list) + 1
        /\ offset = B.size + ends[i]
        /\ length = B.size + Last + DataFits
    BY <1>1, <1>4 DEF SumInv, OffsetInv
  <2>2. ends[i + 1] = ends[i] + z
    BY <2>1, <1>1, <1>3 DEF EndsInv
  <2>3. /\ ends[i] \in Nat /\ ends[i + 1] \in Nat
        /\ ends[i + 1] <= Last /\ Last \in Nat
    <3>1. i \in 1 .. Len(ends) /\ i + 1 \in 1 .. Len(ends)
      BY <2>1, <1>3
    <3> QED
      BY <3>1 DEF EndsInv, Last
  <2>4. /\ Extent(B.kind, e) \in 0 .. z
        /\ ~Dies(B.kind, e) /\ ~Spins(B.kind, e)
    BY <1>3, <1>4 DEF Fitting, Proper
  <2>5. z \in Nat
    BY <1>1, <1>3, ListFacts DEF B
  <2> HIDE DEF z, e
  <2>7. ~(offset + Extent(B.kind, e) > length)
    <3> DEFINE x == Extent(B.kind, e)
    <3>1. x \in Nat /\ x <= z
      BY <2>4, <2>5
    <3> HIDE DEF x
    <3>2. \A s, p, q, y, w, t, d \in Nat :
            q = p + w /\ y <= w /\ q <= t => ~(s + p + y > s + t + d)
      OBVIOUS
    <3>3. ~(B.size + ends[i] + x > B.size + Last + DataFits)
      BY <3>1, <3>2, <2>2, <2>3, <2>5, <1>2
    <3>4. ~(offset + x > length)
      BY <3>3, <2>1
    <3> QED
      BY <3>4 DEF x
  <2>8. offset' = B.size + ends[i + 1]
    BY SMTT(30), <2>1, <2>2, <2>3, <2>5, <1>2 DEF z, e
  <2> QED
    BY <2>1, <2>4, <2>7, <2>8, <1>3
<1>5. CallInv'
  BY SameCall DEF CallInv
<1>6. EndsInv'
  BY SameCall DEF EndsInv
<1>7. SumInv'
  BY <1>1, SameCall DEF SumInv
<1>8. OffsetInv'
  BY <1>1, <1>3, <1>4, SameCall DEF OffsetInv
<1>9. WritesFit'
  BY <1>1, <1>4, SameCall DEF WritesFit
<1> QED
  BY <1>5, <1>6, <1>7, <1>8, <1>9

\* The buffer fills what is left.
LEMMA WriteDataInv ==
  ASSUME IInv, WriteData
  PROVE  IInv'
<1> USE DEF IInv, WriteData
<1>1. call \in Calls /\ pc = "write" /\ ListOf(call, list)
  BY DEF CallInv
<1>2. B.size \in Nat /\ DataFits \in Nat
  BY <1>1, SizesOfCall
<1>3. ASSUME Fitting
      PROVE  offset' = length /\ B.size + sum + Copied <= length
  <2>1. /\ Last \in Nat /\ B.size + Last + DataFits <= USHRT_MAX
        /\ Copied = DataFits
    BY <1>1, <1>3, FitsSixteenBits, SizesOfCall
  <2>2. /\ Len(ends) = Len(list) + 1 /\ sum = Last
        /\ length = B.size + Last + DataFits
        /\ i <= Len(ends) /\ i \in Nat \ {0}
        /\ offset = B.size + ends[i]
    BY <1>1, <1>3 DEF SumInv, OffsetInv
  <2>3. B.size + sum + Copied = length
    BY <2>1, <2>2
  <2>4. ends[i] = Last
    <3>1. CASE i <= Len(list)
      <4>1. sum = 0
        BY <3>1, <2>1, <2>2 DEF MayWrite
      <4>2. ends[i] \in Nat /\ ends[i] <= Last
        BY <2>2 DEF EndsInv, Last
      <4> QED
        BY <4>1, <4>2, <2>2
    <3>2. CASE ~(i <= Len(list))
      <4>1. Len(list) \in Nat
        BY <1>1, ListFacts
      <4>2. i = Len(ends)
        BY <4>1, <3>2, <2>2
      <4> QED
        BY <4>2 DEF Last
    <3> QED
      BY <3>1, <3>2
  <2>5. CASE Copied = 0
    BY <2>1, <2>2, <2>3, <2>4, <2>5, <1>2
  <2>6. CASE Copied # 0
    BY <2>1, <2>2, <2>3, <2>6, <1>2
  <2> QED
    BY <2>5, <2>6
<1>4. CallInv'
  BY SameCall DEF CallInv
<1>5. EndsInv'
  BY SameCall DEF EndsInv
<1>6. SumInv'
  BY <1>1, SameCall DEF SumInv
<1>7. OffsetInv'
  BY <1>1, SameCall DEF OffsetInv
<1>8. WritesFit'
  <2>1. pc' = "overrun" => ~Fitting
    <3> SUFFICES ASSUME Fitting, B.size + sum + Copied > length
                 PROVE  FALSE
      OBVIOUS
    <3>1. length \in Nat /\ B.size + sum + Copied \in Nat
      BY <1>1, <1>2, FitsSixteenBits, SizesOfCall DEF SumInv, OffsetInv
    <3> QED
      BY <1>3, <3>1
  <2> QED
    BY <1>1, <1>3, <2>1, SameCall DEF WritesFit
<1> QED
  BY <1>4, <1>5, <1>6, <1>7, <1>8

\* After its return a call has left nothing behind.
LEMMA ReturnInv ==
  ASSUME Return
  PROVE  IInv'
<1> USE DEF Return
<1>1. call' \notin Calls
  BY CallsAssumption
<1>2. CallInv'
  BY <1>1 DEF CallInv
<1>3. EndsInv'
  BY <1>1 DEF EndsInv
<1>4. SumInv'
  BY DEF SumInv
<1>5. OffsetInv'
  BY DEF OffsetInv
<1>6. WritesFit'
  BY DEF WritesFit
<1> QED
  BY <1>2, <1>3, <1>4, <1>5, <1>6 DEF IInv
-----------------------------------------------------------------------------
\* Every step keeps the invariant.
LEMMA StepInv == IInv /\ [Next]_vars => IInv'
<1> SUFFICES ASSUME IInv, [Next]_vars
             PROVE  IInv'
  OBVIOUS
<1>1. ASSUME NEW c \in Calls, Start(c)
      PROVE  IInv'
  BY <1>1, StartInv
<1>2. ASSUME NEW a \in Appended, AppendAction(a)
      PROVE  IInv'
  BY <1>2, AppendInv
<1>3. CASE PassActions
  BY <1>3, QuietStep DEF PassActions
<1>4. CASE EnterNoBuffer \/ EnterWild
  BY <1>4, QuietStep DEF EnterNoBuffer, EnterWild
<1>5. CASE EnterRefused \/ Enter
  BY <1>5, EnterRefusedInv, EnterInv
<1>6. CASE Count \/ CountUndefined \/ Counted
  BY <1>6, CountInv, CountUndefinedInv, CountedInv
<1>7. CASE cc_create_header \/ cc_create_header_fails
  BY <1>7, CreateInv, CreateFailsInv
<1>8. CASE WriteElement \/ WriteData
  BY <1>8, WriteElementInv, WriteDataInv
<1>9. CASE SendChecked \/ SendUnchecked
  BY <1>9, QuietStep DEF SendChecked, SendUnchecked, Sends
<1>10. CASE SendFreed \/ SendAndFree
  BY <1>10, QuietStep DEF SendFreed, SendAndFree, Sends
<1>11. CASE SendArgumentAndFree \/ SendArgument
  BY <1>11, QuietStep DEF SendArgumentAndFree, SendArgument, Sends
<1>12. CASE Return
  BY <1>12, ReturnInv
<1>13. CASE UNCHANGED vars
  <2>1. UNCHANGED <<pc, call, list, ends, sum, length, i, offset, returned>>
    BY <1>13 DEF vars
  <2>2. CallInv'
    BY <2>1, SameCall DEF CallInv, IInv
  <2>3. EndsInv'
    BY <2>1, SameCall DEF EndsInv, IInv
  <2>4. SumInv'
    BY <2>1, SameCall DEF SumInv, IInv
  <2>5. OffsetInv'
    BY <2>1, SameCall DEF OffsetInv, IInv
  <2>6. WritesFit'
    BY <2>1, SameCall DEF WritesFit, IInv
  <2> QED
    BY <2>2, <2>3, <2>4, <2>5, <2>6 DEF IInv
<1> QED
  BY <1>1, <1>2, <1>3, <1>4, <1>5, <1>6, <1>7, <1>8, <1>9, <1>10, <1>11,
     <1>12, <1>13 DEF Next

\* Every builder of cc_of_msg_prep.c writes a call that fits 16 bits inside
\* the message it allocated for it, and fills it to the last byte.
THEOREM MessagesFilled == Spec => []WritesFit
<1>1. IInv => WritesFit
  BY DEF IInv
<1> QED
  BY InitInv, StepInv, <1>1, PTL DEF Spec
-----------------------------------------------------------------------------
\* What a sender is given, and that nothing is sent or freed before.
SendInv ==
  /\ pc \in {"idle", "append", "enter", "count", "create", "write", "made"}
       => freed = {} /\ queued = {} /\ ret = "none"
  /\ pc = "write" => returned = "message"
  /\ pc \in {"write", "made", "sent"} /\ returned = "message"
       => length >= HeaderSize
  /\ pc \in {"made", "sent"} => returned \in {"message", "NULL", "CC_ERROR"}
  /\ SuccessMeansQueued

\* Nothing is queued at first.
LEMMA SendInit == Init => SendInv
BY DEF Init, SendInv, SuccessMeansQueued

\* Every step keeps what the senders return true of the queue.
LEMMA SendStep == IInv /\ SendInv /\ [Next]_vars => SendInv'
<1> SUFFICES ASSUME IInv, SendInv, [Next]_vars
             PROVE  SendInv'
  OBVIOUS
<1> USE DEF SendInv, SuccessMeansQueued
<1>1. ASSUME NEW c \in Calls, Start(c)
      PROVE  SendInv'
  BY <1>1 DEF Start
<1>2. ASSUME NEW a \in Appended, AppendAction(a)
      PROVE  SendInv'
  BY <1>2 DEF AppendAction
<1>3. CASE PassActions \/ EnterNoBuffer \/ EnterWild \/ EnterRefused \/ Enter
  BY <1>3 DEF PassActions, EnterNoBuffer, EnterWild, EnterRefused, Enter
<1>4. CASE Count \/ CountUndefined \/ Counted
  BY <1>4 DEF Count, CountUndefined, Counted
<1>5. CASE cc_create_header
  <2>1. call \in Calls /\ sum \in Nat
    BY <1>5 DEF IInv, CallInv, SumInv, cc_create_header
  <2>2. B.size \in Nat /\ B.size >= HeaderSize /\ data_length \in Nat
    BY <2>1, SizesOfCall
  <2>3. MessageLength \in Nat
    <3>1. B.size + sum + data_length \in Nat
      BY <2>1, <2>2
    <3> QED
      BY <3>1, U16Bounded DEF MessageLength
  <2>4. pc' = "write" => length' >= HeaderSize
    BY <1>5, <2>2, <2>3 DEF cc_create_header, HeaderSize
  <2> QED
    BY <1>5, <2>4 DEF cc_create_header
<1>6. CASE cc_create_header_fails
  BY <1>6 DEF cc_create_header_fails
<1>7. CASE WriteElement \/ WriteData
  BY <1>7 DEF WriteElement, WriteData
<1>8. CASE SendChecked
  BY <1>8 DEF SendChecked, Sends, Enqueue
<1>9. CASE SendUnchecked
  BY <1>9 DEF SendUnchecked, Sends, Enqueue
<1>10. CASE SendFreed
  BY <1>10 DEF SendFreed, Sends, Enqueue
<1>11. CASE SendAndFree
  BY <1>11 DEF SendAndFree, Sends, Enqueue
<1>12. CASE SendArgumentAndFree \/ SendArgument
  BY <1>12 DEF SendArgumentAndFree, SendArgument, Sends, Enqueue
<1>13. CASE Return
  BY <1>13 DEF Return
<1>14. CASE UNCHANGED vars
  BY <1>14 DEF vars
<1> QED
  BY <1>1, <1>2, <1>3, <1>4, <1>5, <1>6, <1>7, <1>8, <1>9, <1>10, <1>11,
     <1>12, <1>13, <1>14 DEF Next

\* A sender that neither frees nor replaces what it sends has queued exactly
\* the message it made when it reports success, and nothing when it fails.
THEOREM SuccessAlwaysQueued == Spec => []SuccessMeansQueued
<1>1. SendInv => SuccessMeansQueued
  BY DEF SendInv
<1> QED
  BY InitInv, StepInv, SendInit, SendStep, <1>1, PTL DEF Spec
-----------------------------------------------------------------------------
\* A message that has been made has the length and the sum that its call needs.
MadeInv ==
  pc = "made" /\ returned = "message" /\ Fitting
    => /\ Len(ends) = Len(list) + 1 /\ sum = Last
       /\ length = B.size + Last + DataFits

\* Every step keeps that.
LEMMA MadeStep == IInv /\ MadeInv /\ [Next]_vars => MadeInv'
<1> SUFFICES ASSUME IInv, MadeInv, [Next]_vars
             PROVE  MadeInv'
  OBVIOUS
<1>1. ASSUME NEW c \in Calls, Start(c)
      PROVE  MadeInv'
  BY <1>1 DEF Start, MadeInv
<1>2. ASSUME NEW a \in Appended, AppendAction(a)
      PROVE  MadeInv'
  BY <1>2 DEF AppendAction, MadeInv
<1>3. CASE PassActions \/ EnterNoBuffer \/ EnterWild \/ EnterRefused \/ Enter
  BY <1>3
    DEF PassActions, EnterNoBuffer, EnterWild, EnterRefused, Enter, MadeInv
<1>4. CASE Count \/ CountUndefined \/ Counted
  BY <1>4 DEF Count, CountUndefined, Counted, MadeInv
<1>5. CASE cc_create_header \/ cc_create_header_fails
  BY <1>5 DEF cc_create_header, cc_create_header_fails, MadeInv
<1>6. CASE WriteElement
  BY <1>6 DEF WriteElement, MadeInv
<1>7. CASE WriteData
  <2>1. /\ Fitting' <=> Fitting
        /\ B' = B /\ Last' = Last /\ DataFits' = DataFits
    BY <1>7, SameCall DEF WriteData
  <2>2. Fitting => /\ Len(ends) = Len(list) + 1 /\ sum = Last
                   /\ length = B.size + Last + DataFits
    BY <1>7 DEF WriteData, IInv, SumInv, OffsetInv
  <2> QED
    BY <1>7, <2>1, <2>2 DEF WriteData, MadeInv
<1>8. CASE SendChecked \/ SendUnchecked \/ SendFreed \/ SendAndFree
  BY <1>8
    DEF SendChecked, SendUnchecked, SendFreed, SendAndFree, MadeInv
<1>9. CASE SendArgumentAndFree \/ SendArgument \/ Return
  BY <1>9 DEF SendArgumentAndFree, SendArgument, Return, MadeInv
<1>10. CASE UNCHANGED vars
  <2>1. UNCHANGED <<pc, call, list, ends, sum, length, returned>>
    BY <1>10 DEF vars
  <2> QED
    BY <2>1, SameCall DEF MadeInv
<1> QED
  BY <1>1, <1>2, <1>3, <1>4, <1>5, <1>6, <1>7, <1>8, <1>9, <1>10 DEF Next
-----------------------------------------------------------------------------
(***************************************************************************)
(* The lemmas about the validators, for the instance that MsgPrep uses.    *)
(***************************************************************************)
P == INSTANCE OfMessageProofs
       WITH Messages <- {}, inbox <- pc, last <- pc, verdict <- pc,
            answer <- pc, handler <- pc

\* P's definitions and V's are the same: the constants, ...
LEMMA SameConstants ==
  /\ V!OK = P!OK /\ V!BEYOND = P!BEYOND
  /\ V!OFP_VERSION = P!OFP_VERSION /\ V!USHRT_MAX = P!USHRT_MAX
  /\ V!HeaderSize = P!HeaderSize /\ V!StatsHeaderSize = P!StatsHeaderSize
  /\ V!FlowStatsSize = P!FlowStatsSize /\ V!QueueSize = P!QueueSize
  /\ V!OFPP_MAX = P!OFPP_MAX /\ V!OFPP_IN_PORT = P!OFPP_IN_PORT
  /\ V!OFPP_LOCAL = P!OFPP_LOCAL /\ V!OFPP_NONE = P!OFPP_NONE
  /\ V!PORT_CONFIG = P!PORT_CONFIG /\ V!PORT_STATE = P!PORT_STATE
  /\ V!PORT_FEATURES = P!PORT_FEATURES
  /\ V!FLOW_MOD_FLAGS = P!FLOW_MOD_FLAGS /\ V!OFPFW_ALL = P!OFPFW_ALL
BY DEF V!OK, P!OK, V!BEYOND, P!BEYOND, V!OFP_VERSION, P!OFP_VERSION,
  V!USHRT_MAX, P!USHRT_MAX, V!HeaderSize, P!HeaderSize, V!StatsHeaderSize,
  P!StatsHeaderSize, V!FlowStatsSize, P!FlowStatsSize, V!QueueSize,
  P!QueueSize, V!OFPP_MAX, P!OFPP_MAX, V!OFPP_IN_PORT, P!OFPP_IN_PORT,
  V!OFPP_LOCAL, P!OFPP_LOCAL, V!OFPP_NONE, P!OFPP_NONE, V!PORT_CONFIG,
  P!PORT_CONFIG, V!PORT_STATE, P!PORT_STATE, V!PORT_FEATURES,
  P!PORT_FEATURES, V!FLOW_MOD_FLAGS, P!FLOW_MOD_FLAGS, V!OFPFW_ALL,
  P!OFPFW_ALL

\* ... the tables, ...
LEMMA SameTables ==
  /\ V!ActionSize = P!ActionSize /\ V!LongActionSize = P!LongActionSize
  /\ V!ActionTypes = P!ActionTypes
  /\ V!StatsRequestSize = P!StatsRequestSize /\ V!StatsTypes = P!StatsTypes
  /\ V!EntrySize = P!EntrySize /\ V!PropertySize = P!PropertySize
  /\ V!MinSize = P!MinSize /\ V!Types = P!Types /\ V!OpenEnded = P!OpenEnded
<1>1. V!ActionSize = P!ActionSize /\ V!LongActionSize = P!LongActionSize
  BY DEF V!ActionSize, P!ActionSize, V!LongActionSize, P!LongActionSize
<1>2. V!StatsRequestSize = P!StatsRequestSize
  BY DEF V!StatsRequestSize, P!StatsRequestSize
<1>3. V!EntrySize = P!EntrySize /\ V!PropertySize = P!PropertySize
  BY DEF V!EntrySize, P!EntrySize, V!PropertySize, P!PropertySize
<1>4. V!MinSize = P!MinSize /\ V!OpenEnded = P!OpenEnded
  BY DEF V!MinSize, P!MinSize, V!OpenEnded, P!OpenEnded
<1> QED
  BY <1>1, <1>2, <1>3, <1>4 DEF V!ActionTypes, P!ActionTypes, V!StatsTypes,
    P!StatsTypes, V!Types, P!Types

\* ... the operators that all validators use, ...
LEMMA SameChecks ==
  /\ \A n : V!U16(n) = P!U16(n)
  /\ \A x, y : V!Check(x, y) = P!Check(x, y)
  /\ \A x, y : V!Left(x, y) = P!Left(x, y)
  /\ \A x, y : V!WalkOn(x, y) <=> P!WalkOn(x, y)
  /\ \A s : V!FirstError(s) = P!FirstError(s)
  /\ \A x, y : V!Bytes(x, y) = P!Bytes(x, y)
  /\ \A x : V!SizeOfAction(x) = P!SizeOfAction(x)
<1>1. \A n : V!U16(n) = P!U16(n)
  BY DEF V!U16, P!U16
<1>2. \A x, y : V!Check(x, y) = P!Check(x, y)
  BY SameConstants DEF V!Check, P!Check
<1>3. \A x, y : V!Left(x, y) = P!Left(x, y)
  BY <1>1 DEF V!Left, P!Left
<1>4. \A x, y : V!WalkOn(x, y) <=> P!WalkOn(x, y)
  BY DEF V!WalkOn, P!WalkOn
<1>5. \A s : V!FirstError(s) = P!FirstError(s)
  BY DEF V!FirstError, P!FirstError, V!OK, P!OK
<1>6. \A x, y : V!Bytes(x, y) = P!Bytes(x, y)
  BY DEF V!Bytes, P!Bytes
<1>7. \A x : V!SizeOfAction(x) = P!SizeOfAction(x)
  BY SameTables DEF V!SizeOfAction, P!SizeOfAction
<1> QED
  BY <1>1, <1>2, <1>3, <1>4, <1>5, <1>6, <1>7

\* ... the validators of fields, ...
LEMMA SameFields ==
  /\ \A x : V!ValidatePhyPortNo(x) = P!ValidatePhyPortNo(x)
  /\ \A x : V!ValidatePhyPort(x) = P!ValidatePhyPort(x)
  /\ \A x : V!ValidateWildcards(x) = P!ValidateWildcards(x)
  /\ \A x : V!ValidateVlanVid(x) = P!ValidateVlanVid(x)
  /\ \A x : V!ValidateVlanPcp(x) = P!ValidateVlanPcp(x)
  /\ \A x : V!ValidateNwTos(x) = P!ValidateNwTos(x)
  /\ \A x : V!ValidateMatch(x) = P!ValidateMatch(x)
  /\ \A x, y : V!ValidatePriority(x, y) = P!ValidatePriority(x, y)
  /\ \A x : V!ValidateSwitchConfig(x) = P!ValidateSwitchConfig(x)
<1> USE SameConstants, SameChecks
<1>1. \A x : V!ValidatePhyPortNo(x) = P!ValidatePhyPortNo(x)
  BY DEF V!ValidatePhyPortNo, P!ValidatePhyPortNo
<1>2. \A x : V!ValidatePhyPort(x) = P!ValidatePhyPort(x)
  BY <1>1 DEF V!ValidatePhyPort, P!ValidatePhyPort
<1>3. \A x : V!ValidateWildcards(x) = P!ValidateWildcards(x)
  BY DEF V!ValidateWildcards, P!ValidateWildcards
<1>4. \A x : V!ValidateVlanVid(x) = P!ValidateVlanVid(x)
  BY DEF V!ValidateVlanVid, P!ValidateVlanVid
<1>5. \A x : V!ValidateVlanPcp(x) = P!ValidateVlanPcp(x)
  BY DEF V!ValidateVlanPcp, P!ValidateVlanPcp
<1>6. \A x : V!ValidateNwTos(x) = P!ValidateNwTos(x)
  BY DEF V!ValidateNwTos, P!ValidateNwTos
<1>7. \A x : V!ValidateMatch(x) = P!ValidateMatch(x)
  BY <1>3, <1>4, <1>5, <1>6 DEF V!ValidateMatch, P!ValidateMatch
<1>8. \A x, y : V!ValidatePriority(x, y) = P!ValidatePriority(x, y)
  BY DEF V!ValidatePriority, P!ValidatePriority
<1>9. \A x : V!ValidateSwitchConfig(x) = P!ValidateSwitchConfig(x)
  BY DEF V!ValidateSwitchConfig, P!ValidateSwitchConfig
<1> QED
  BY <1>1, <1>2, <1>3, <1>4, <1>5, <1>6, <1>7, <1>8, <1>9

\* ... the walks, ...
LEMMA SameActions ==
  /\ \A x : V!ValidateAction(x) = P!ValidateAction(x)
  /\ \A x, y : V!ValidateActions(x, y) = P!ValidateActions(x, y)
<1>1. \A x : V!ValidateActionArg(x) = P!ValidateActionArg(x)
  BY SameConstants, SameFields DEF V!ValidateActionArg, P!ValidateActionArg
<1>2. \A x : V!ValidateAction(x) = P!ValidateAction(x)
  BY <1>1, SameConstants, SameTables, SameChecks
    DEF V!ValidateAction, P!ValidateAction
<1>3. ASSUME NEW x, NEW y
      PROVE  V!ValidateActions(x, y) = P!ValidateActions(x, y)
  <2> DEFINE One(w) ==
               [k \in 1 .. Len(x) + 1 |->
                  IF V!Bytes(x, k - 1) > V!USHRT_MAX THEN V!BEYOND
                  ELSE IF ~V!WalkOn(V!Bytes(x, k - 1), y) THEN V!OK
                  ELSE IF k > Len(x) THEN V!BEYOND
                  ELSE IF V!ValidateAction(x[k]) # V!OK
                    THEN V!ValidateAction(x[k])
                  ELSE w[k + 1]]
             Other(w) ==
               [k \in 1 .. Len(x) + 1 |->
                  IF P!Bytes(x, k - 1) > P!USHRT_MAX THEN P!BEYOND
                  ELSE IF ~P!WalkOn(P!Bytes(x, k - 1), y) THEN P!OK
                  ELSE IF k > Len(x) THEN P!BEYOND
                  ELSE IF P!ValidateAction(x[k]) # P!OK
                    THEN P!ValidateAction(x[k])
                  ELSE w[k + 1]]
  <2>1. \A w : One(w) = Other(w)
    BY <1>2, SameConstants, SameChecks
  <2>2. (CHOOSE w : w = One(w)) = (CHOOSE w : w = Other(w))
    <3> HIDE DEF One, Other
    <3> QED
      BY <2>1
  <2>3. V!ValidateActions(x, y) = (CHOOSE w : w = One(w))[1]
    BY DEF V!ValidateActions, V!Walk
  <2>4. P!ValidateActions(x, y) = (CHOOSE w : w = Other(w))[1]
    BY DEF P!ValidateActions, P!Walk
  <2> HIDE DEF One, Other
  <2> QED
    BY <2>2, <2>3, <2>4
<1> QED
  BY <1>2, <1>3

\* ... of flows ...
LEMMA SameFlows ==
  /\ \A x : V!ValidateFlowStats(x) = P!ValidateFlowStats(x)
  /\ \A x, y : V!ValidateFlows(x, y) = P!ValidateFlows(x, y)
<1>1. \A x : V!ValidateFlowStats(x) = P!ValidateFlowStats(x)
  BY SameConstants, SameChecks, SameFields, SameActions
    DEF V!ValidateFlowStats, P!ValidateFlowStats
<1>2. ASSUME NEW x, NEW y
      PROVE  V!ValidateFlows(x, y) = P!ValidateFlows(x, y)
  <2> DEFINE One(w) ==
               [k \in 1 .. Len(x) + 1 |->
                  IF V!Left(y, V!Bytes(x, k - 1)) = 0 THEN V!OK
                  ELSE IF k > Len(x) THEN V!BEYOND
                  ELSE IF V!ValidateFlowStats(x[k]) # V!OK
                    THEN V!ValidateFlowStats(x[k])
                  ELSE w[k + 1]]
             Other(w) ==
               [k \in 1 .. Len(x) + 1 |->
                  IF P!Left(y, P!Bytes(x, k - 1)) = 0 THEN P!OK
                  ELSE IF k > Len(x) THEN P!BEYOND
                  ELSE IF P!ValidateFlowStats(x[k]) # P!OK
                    THEN P!ValidateFlowStats(x[k])
                  ELSE w[k + 1]]
  <2>1. \A w : One(w) = Other(w)
    BY <1>1, SameConstants, SameChecks
  <2>2. (CHOOSE w : w = One(w)) = (CHOOSE w : w = Other(w))
    <3> HIDE DEF One, Other
    <3> QED
      BY <2>1
  <2>3. V!ValidateFlows(x, y) = (CHOOSE w : w = One(w))[1]
    BY DEF V!ValidateFlows
  <2>4. P!ValidateFlows(x, y) = (CHOOSE w : w = Other(w))[1]
    BY DEF P!ValidateFlows
  <2> HIDE DEF One, Other
  <2> QED
    BY <2>2, <2>3, <2>4
<1> QED
  BY <1>1, <1>2

\* ... and of queues, ...
LEMMA SameQueues ==
  /\ \A x : V!ValidatePacketQueue(x) = P!ValidatePacketQueue(x)
  /\ \A x, y : V!ValidateQueues(x, y) = P!ValidateQueues(x, y)
<1>1. \A x : V!ValidateQueueProperty(x) = P!ValidateQueueProperty(x)
  BY SameConstants, SameChecks, SameTables
    DEF V!ValidateQueueProperty, P!ValidateQueueProperty
<1>2. ASSUME NEW q
      PROVE  V!ValidatePacketQueue(q) = P!ValidatePacketQueue(q)
  <2> DEFINE x == q.properties
             One(w) ==
               [k \in 1 .. Len(x) + 1 |->
                  IF V!Bytes(x, k - 1) > V!USHRT_MAX THEN V!BEYOND
                  ELSE IF ~V!WalkOn(V!Bytes(x, k - 1), q.len - V!QueueSize)
                    THEN V!OK
                  ELSE IF k > Len(x) THEN V!BEYOND
                  ELSE IF V!ValidateQueueProperty(x[k]) # V!OK
                    THEN V!ValidateQueueProperty(x[k])
                  ELSE w[k + 1]]
             Other(w) ==
               [k \in 1 .. Len(x) + 1 |->
                  IF P!Bytes(x, k - 1) > P!USHRT_MAX THEN P!BEYOND
                  ELSE IF ~P!WalkOn(P!Bytes(x, k - 1), q.len - P!QueueSize)
                    THEN P!OK
                  ELSE IF k > Len(x) THEN P!BEYOND
                  ELSE IF P!ValidateQueueProperty(x[k]) # P!OK
                    THEN P!ValidateQueueProperty(x[k])
                  ELSE w[k + 1]]
  <2>1. \A w : One(w) = Other(w)
    BY <1>1, SameConstants, SameChecks
  <2>2. (CHOOSE w : w = One(w)) = (CHOOSE w : w = Other(w))
    <3> HIDE DEF One, Other
    <3> QED
      BY <2>1
  <2>3. V!ValidatePacketQueue(q)
          = IF q.len < V!QueueSize + V!HeaderSize
              THEN "TOO_SHORT_QUEUE_DESCRIPTION"
            ELSE (CHOOSE w : w = One(w))[1]
    BY DEF V!ValidatePacketQueue, V!Walk
  <2>4. P!ValidatePacketQueue(q)
          = IF q.len < P!QueueSize + P!HeaderSize
              THEN "TOO_SHORT_QUEUE_DESCRIPTION"
            ELSE (CHOOSE w : w = Other(w))[1]
    BY DEF P!ValidatePacketQueue, P!Walk
  <2> HIDE DEF One, Other
  <2> QED
    BY <2>2, <2>3, <2>4, SameConstants
<1>3. ASSUME NEW x, NEW y
      PROVE  V!ValidateQueues(x, y) = P!ValidateQueues(x, y)
  <2> DEFINE S == {n \in 0 .. Len(x) :
                     /\ V!Left(y, V!Bytes(x, n)) <= V!QueueSize
                     /\ \A k \in 1 .. n : x[k].len > 0}
             T == {n \in 0 .. Len(x) :
                     /\ P!Left(y, P!Bytes(x, n)) <= P!QueueSize
                     /\ \A k \in 1 .. n : x[k].len > 0}
             c == CHOOSE k \in S : \A j \in S : k <= j
             d == CHOOSE k \in T : \A j \in T : k <= j
  <2>1. S = T
    BY SameConstants, SameChecks
  <2>2. c = d
    <3> HIDE DEF S, T
    <3> QED
      BY <2>1
  <2>3. \A l : V!FirstOf(l, V!ValidatePacketQueue)
                 = P!FirstOf(l, P!ValidatePacketQueue)
    BY <1>2, SameChecks DEF V!FirstOf, P!FirstOf
  <2>4. V!ValidateQueues(x, y)
          = IF S = {} THEN V!BEYOND
            ELSE IF V!Left(y, V!Bytes(x, c)) # 0 THEN "INVALID_LENGTH"
            ELSE V!FirstOf(SubSeq(x, 1, c), V!ValidatePacketQueue)
    BY DEF V!ValidateQueues
  <2>5. P!ValidateQueues(x, y)
          = IF T = {} THEN P!BEYOND
            ELSE IF P!Left(y, P!Bytes(x, d)) # 0 THEN "INVALID_LENGTH"
            ELSE P!FirstOf(SubSeq(x, 1, d), P!ValidatePacketQueue)
    BY DEF P!ValidateQueues
  <2> HIDE DEF S, T, c, d
  <2> QED
    BY <2>1, <2>2, <2>3, <2>4, <2>5, SameConstants, SameChecks
<1> QED
  BY <1>2, <1>3

\* ... the bodies with a list, ...
LEMMA SameLists ==
  /\ \A x, y : V!ValidateEntries(x, y) = P!ValidateEntries(x, y)
  /\ \A x, y : V!ValidateStatsReplyBody(x, y) = P!ValidateStatsReplyBody(x, y)
  /\ \A x, y : V!ValidateFeaturesReply(x, y) = P!ValidateFeaturesReply(x, y)
  /\ \A x : V!ValidatePacketOut(x) = P!ValidatePacketOut(x)
  /\ \A x, y : V!ValidateFlowMod(x, y) = P!ValidateFlowMod(x, y)
  /\ \A x, y : V!ValidateQueueReply(x, y) = P!ValidateQueueReply(x, y)
<1> USE SameConstants, SameChecks, SameFields
<1>1. \A x, y : V!ValidateEntries(x, y) = P!ValidateEntries(x, y)
  BY SameTables DEF V!ValidateEntries, P!ValidateEntries, V!FirstOf, P!FirstOf
<1>2. \A x, y : V!ValidateStatsReplyBody(x, y) = P!ValidateStatsReplyBody(x, y)
  BY <1>1, SameTables, SameFlows
    DEF V!ValidateStatsReplyBody, P!ValidateStatsReplyBody
<1>3. \A x, y : V!ValidateFeaturesReply(x, y) = P!ValidateFeaturesReply(x, y)
  BY DEF V!ValidateFeaturesReply, P!ValidateFeaturesReply, V!FirstOf, P!FirstOf
<1>4. \A x : V!ValidatePacketOut(x) = P!ValidatePacketOut(x)
  BY SameActions DEF V!ValidatePacketOut, P!ValidatePacketOut
<1>5. \A x, y : V!ValidateFlowMod(x, y) = P!ValidateFlowMod(x, y)
  BY SameActions DEF V!ValidateFlowMod, P!ValidateFlowMod
<1>6. \A x, y : V!ValidateQueueReply(x, y) = P!ValidateQueueReply(x, y)
  BY SameQueues DEF V!ValidateQueueReply, P!ValidateQueueReply
<1> QED
  BY <1>1, <1>2, <1>3, <1>4, <1>5, <1>6

\* ... the other bodies, ...
LEMMA SameBodies ==
  /\ \A x : V!ValidateStatsRequestBody(x) = P!ValidateStatsRequestBody(x)
  /\ \A x : V!ValidatePacketIn(x) = P!ValidatePacketIn(x)
  /\ \A x : V!ValidateFlowRemoved(x) = P!ValidateFlowRemoved(x)
  /\ \A x : V!ValidatePortStatus(x) = P!ValidatePortStatus(x)
  /\ \A x : V!ValidatePortMod(x) = P!ValidatePortMod(x)
<1> USE SameConstants, SameChecks, SameFields
<1>1. \A x : V!ValidateStatsRequestBody(x) = P!ValidateStatsRequestBody(x)
  BY DEF V!ValidateStatsRequestBody, P!ValidateStatsRequestBody
<1>2. \A x : V!ValidatePacketIn(x) = P!ValidatePacketIn(x)
  BY DEF V!ValidatePacketIn, P!ValidatePacketIn
<1>3. \A x : V!ValidateFlowRemoved(x) = P!ValidateFlowRemoved(x)
  BY DEF V!ValidateFlowRemoved, P!ValidateFlowRemoved
<1>4. \A x : V!ValidatePortStatus(x) = P!ValidatePortStatus(x)
  BY DEF V!ValidatePortStatus, P!ValidatePortStatus
<1>5. \A x : V!ValidatePortMod(x) = P!ValidatePortMod(x)
  BY DEF V!ValidatePortMod, P!ValidatePortMod
<1> QED
  BY <1>1, <1>2, <1>3, <1>4, <1>5

\* ... and the messages.
LEMMA SameMessages ==
  /\ \A m : V!MinLength(m) = P!MinLength(m)
  /\ \A m : V!MaxLength(m) = P!MaxLength(m)
  /\ \A m : V!ValidateBody(m) = P!ValidateBody(m)
  /\ \A m : V!Validate(m) = P!Validate(m)
<1>1. \A m : V!MinLength(m) = P!MinLength(m)
  BY SameTables DEF V!MinLength, P!MinLength
<1>2. \A x : V!StatsReplyMax(x) = P!StatsReplyMax(x)
  BY SameConstants DEF V!StatsReplyMax, P!StatsReplyMax
<1>3. \A m : V!MaxLength(m) = P!MaxLength(m)
  BY <1>1, <1>2, SameTables, SameConstants DEF V!MaxLength, P!MaxLength
<1>4. \A m : V!ValidateBody(m) = P!ValidateBody(m)
  BY SameConstants, SameChecks, SameFields, SameLists, SameBodies
    DEF V!ValidateBody, P!ValidateBody
<1>5. \A m : V!IsStats(m) <=> P!IsStats(m)
  BY DEF V!IsStats, P!IsStats
<1>6. \A m, t, s, x, y :
        V!ValidateHeader(m, t, s, x, y) = P!ValidateHeader(m, t, s, x, y)
  BY SameConstants, SameChecks
    DEF V!ValidateHeader, P!ValidateHeader, V!ShortRead, P!ShortRead
<1>7. \A m : V!Validate(m) = P!Validate(m)
  BY SMTT(30), <1>1, <1>3, <1>4, <1>5, <1>6, SameConstants, SameTables
    DEF V!Validate, P!Validate
<1> QED
  BY <1>1, <1>3, <1>4, <1>7
-----------------------------------------------------------------------------
(***************************************************************************)
(* What a builder makes and what the other end allows it.                  *)
(***************************************************************************)
\* A list goes with one type of message, and nothing else follows it but the
\* frame of a packet_out.
KindFits(b) ==
  \/ /\ b.kind = "none"
     /\ b.type \notin {"FEATURES_REPLY", "FLOW_MOD", "PACKET_OUT",
                       "QUEUE_GET_CONFIG_REPLY"}
     /\ b.type = "STATS_REPLY" => b.stype \in {"DESC", "AGGREGATE", "VENDOR"}
  \/ b.kind = "actions" /\ b.type = "PACKET_OUT"
  \/ /\ ~b.data
     /\ \/ b.kind = "actions" /\ b.type = "FLOW_MOD" /\ b.size = 72
        \/ b.kind = "ports" /\ b.type = "FEATURES_REPLY" /\ b.size = 32
        \/ b.kind = "queues" /\ b = cc_create_queue_get_config_reply
        \/ /\ b.type = "STATS_REPLY" /\ b.size = 12
           /\ \/ b.kind = "flows" /\ b.stype = "FLOW"
              \/ b.kind = "tables" /\ b.stype = "TABLE"
              \/ b.kind = "port_stats" /\ b.stype = "PORT"
              \/ b.kind = "queue_stats" /\ b.stype = "QUEUE"

\* The limits of its message have room for what it writes.
Allows(b) ==
  /\ b.type \in P!Types
  /\ b.type \in {"STATS_REQUEST", "STATS_REPLY"} => b.stype \in P!StatsTypes
  /\ \A m : m.type = b.type /\ m.body.stype = b.stype =>
       /\ P!MinLength(m) \in Nat /\ P!MaxLength(m) \in Nat
       /\ b.kind # "queues" => P!MinLength(m) <= b.size
       /\ b.kind = "queues" => P!MinLength(m) = 24
       /\ IF b.kind = "none" /\ ~b.data THEN b.size <= P!MaxLength(m)
          ELSE P!MaxLength(m) = USHRT_MAX

Agrees(b) == KindFits(b) /\ Allows(b)

\* Every function agrees with the validators.
LEMMA SendersAgree ==
  \A s \in AllSenders : Agrees(s.builder)
<1> USE DEF Agrees, KindFits, Allows, P!Types, P!MinSize, P!StatsTypes,
        P!StatsRequestSize, P!MinLength, P!MaxLength, P!StatsReplyMax,
        P!OpenEnded, P!StatsHeaderSize, P!USHRT_MAX, USHRT_MAX, Builder
<1>1. /\ Agrees(cc_create_hello)
      /\ Agrees(cc_create_features_request)
      /\ Agrees(cc_create_get_config_request)
      /\ Agrees(cc_create_get_config_reply)
  BY SMTT(30) DEF Plain, cc_create_hello, cc_create_features_request,
    cc_create_get_config_request, cc_create_get_config_reply
<1>2. /\ Agrees(cc_create_set_config)
      /\ Agrees(cc_create_flow_removed)
      /\ Agrees(cc_create_port_status)
      /\ Agrees(cc_create_port_mod)
  BY SMTT(30) DEF Plain, cc_create_set_config, cc_create_flow_removed,
    cc_create_port_status, cc_create_port_mod
<1>3. /\ Agrees(cc_create_barrier_request)
      /\ Agrees(cc_create_barrier_reply)
      /\ Agrees(cc_create_queue_get_config_request)
  BY SMTT(30) DEF Plain, cc_create_barrier_request, cc_create_barrier_reply,
    cc_create_queue_get_config_request
<1>4. /\ Agrees(cc_create_error)
      /\ Agrees(cc_create_echo_request)
      /\ Agrees(cc_create_echo_reply)
      /\ Agrees(cc_create_vendor)
      /\ Agrees(cc_create_packet_in)
  BY SMTT(30) DEF Plain, WithData, cc_create_error,
    cc_create_echo_request, cc_create_echo_reply, cc_create_vendor,
    cc_create_packet_in
<1>5. /\ Agrees(cc_create_features_reply)
      /\ Agrees(cc_create_packet_out)
      /\ Agrees(cc_create_flow_mod)
      /\ Agrees(cc_create_queue_get_config_reply)
  <2>1. /\ Agrees(cc_create_features_reply)
        /\ Agrees(cc_create_packet_out)
    BY SMTT(30) DEF cc_create_features_reply, cc_create_packet_out
  <2>2. /\ Agrees(cc_create_flow_mod)
        /\ Agrees(cc_create_queue_get_config_reply)
    BY SMTT(30) DEF cc_create_flow_mod, cc_create_queue_get_config_reply
  <2> HIDE DEF Agrees
  <2> QED
    BY SMTT(30), <2>1, <2>2
<1>6. /\ Agrees(cc_create_desc_stats_request)
      /\ Agrees(cc_create_flow_stats_request)
      /\ Agrees(cc_create_aggregate_stats_request)
      /\ Agrees(cc_create_table_stats_request)
      /\ Agrees(cc_create_port_stats_request)
      /\ Agrees(cc_create_queue_stats_request)
      /\ Agrees(cc_create_vendor_stats_request)
  <2>1. /\ Agrees(cc_create_desc_stats_request)
        /\ Agrees(cc_create_flow_stats_request)
        /\ Agrees(cc_create_aggregate_stats_request)
    BY SMTT(30) DEF StatsHeaderSize, cc_create_stats_request,
      cc_create_desc_stats_request,
      cc_create_flow_stats_request,
      cc_create_aggregate_stats_request
  <2>2. /\ Agrees(cc_create_table_stats_request)
        /\ Agrees(cc_create_port_stats_request)
    BY SMTT(30) DEF StatsHeaderSize, cc_create_stats_request,
      cc_create_table_stats_request,
      cc_create_port_stats_request
  <2>3. /\ Agrees(cc_create_queue_stats_request)
        /\ Agrees(cc_create_vendor_stats_request)
    BY SMTT(30) DEF StatsHeaderSize, cc_create_stats_request,
      cc_create_queue_stats_request,
      cc_create_vendor_stats_request
  <2> HIDE DEF Agrees
  <2> QED
    BY SMTT(30), <2>1, <2>2, <2>3
<1>7. /\ Agrees(cc_create_desc_stats_reply)
      /\ Agrees(cc_create_flow_stats_reply)
      /\ Agrees(cc_create_aggregate_stats_reply)
      /\ Agrees(cc_create_table_stats_reply)
      /\ Agrees(cc_create_port_stats_reply)
      /\ Agrees(cc_create_queue_stats_reply)
      /\ Agrees(cc_create_vendor_stats_reply)
  <2>1. /\ Agrees(cc_create_desc_stats_reply)
        /\ Agrees(cc_create_flow_stats_reply)
        /\ Agrees(cc_create_aggregate_stats_reply)
    BY SMTT(30) DEF StatsHeaderSize, cc_create_stats_reply,
      cc_create_desc_stats_reply,
      cc_create_flow_stats_reply,
      cc_create_aggregate_stats_reply
  <2>2. /\ Agrees(cc_create_table_stats_reply)
        /\ Agrees(cc_create_port_stats_reply)
    BY SMTT(30) DEF StatsHeaderSize, cc_create_stats_reply,
      cc_create_table_stats_reply,
      cc_create_port_stats_reply
  <2>3. /\ Agrees(cc_create_queue_stats_reply)
        /\ Agrees(cc_create_vendor_stats_reply)
    BY SMTT(30) DEF StatsHeaderSize, cc_create_stats_reply,
      cc_create_queue_stats_reply,
      cc_create_vendor_stats_reply
  <2> HIDE DEF Agrees
  <2> QED
    BY SMTT(30), <2>1, <2>2, <2>3
<1> HIDE DEF Agrees, Builder
<1>8. \A s \in Senders : Agrees(s.builder)
  <2> SUFFICES ASSUME NEW s \in Senders
               PROVE  Agrees(s.builder)
    OBVIOUS
  <2>1. /\ Agrees(cc_send_hello.builder)
        /\ Agrees(cc_send_echo_request.builder)
        /\ Agrees(cc_send_echo_reply.builder)
        /\ Agrees(cc_send_features_request.builder)
        /\ Agrees(cc_send_get_config_request.builder)
        /\ Agrees(cc_send_set_config.builder)
        /\ Agrees(cc_send_error_msg.builder)
        /\ Agrees(cc_send_flow_mod.builder)
        /\ Agrees(cc_send_packet_out.builder)
        /\ Agrees(cc_send_port_mod.builder)
    BY <1>1, <1>2, <1>4, <1>5 DEF Sender, cc_send_hello, cc_send_echo_request,
      cc_send_echo_reply, cc_send_features_request,
      cc_send_get_config_request, cc_send_set_config, cc_send_error_msg,
      cc_send_flow_mod, cc_send_packet_out, cc_send_port_mod
  <2>2. /\ Agrees(cc_send_get_desc_stats.builder)
        /\ Agrees(cc_send_flow_stats_request.builder)
        /\ Agrees(cc_send_aggregate_stats_request.builder)
        /\ Agrees(cc_send_table_stats_request.builder)
        /\ Agrees(cc_send_port_stats_request.builder)
        /\ Agrees(cc_send_queue_stats_request.builder)
        /\ Agrees(cc_send_vendor_stats_request.builder)
        /\ Agrees(cc_send_msg_to_switch.builder)
    BY <1>5, <1>6 DEF Sender, cc_send_get_desc_stats,
      cc_send_flow_stats_request, cc_send_aggregate_stats_request,
      cc_send_table_stats_request, cc_send_port_stats_request,
      cc_send_queue_stats_request, cc_send_vendor_stats_request,
      cc_send_msg_to_switch
  <2> QED
    BY <2>1, <2>2 DEF Senders
<1>9. \A s \in Unsent : Agrees(s.builder)
  BY <1>1, <1>2, <1>3, <1>4, <1>5, <1>7 DEF Unsent, Sender
<1> QED
  BY <1>8, <1>9 DEF AllSenders
\* So does the function of every call.
LEMMA CallAgrees ==
  ASSUME call \in Calls
  PROVE  Agrees(B)
BY SendersAgree, CallsAssumption DEF AllSenders, B
-----------------------------------------------------------------------------
\* What a call passes, as the validators see it.
LEMMA ListIsSequence ==
  ASSUME call \in Calls, ListOf(call, list)
  PROVE  /\ P!IsSequence(list)
         /\ \A k \in DOMAIN list : Size(B.kind, list[k]) \in 0 .. USHRT_MAX
<1> DEFINE S == {list[k] : k \in DOMAIN list}
<1>1. CASE B.kind = "actions"
  <2>1. list \in Seq(Appended)
    BY <1>1 DEF ListOf, B
  <2>2. Len(list) \in Nat /\ DOMAIN list = 1 .. Len(list)
    BY <2>1
  <2>3. list = [k \in 1 .. Len(list) |-> list[k]]
    BY <2>1
  <2>4. \A k \in 1 .. Len(list) : list[k] \in S
    BY <2>2
  <2>5. list \in Seq(S)
    <3> HIDE DEF S
    <3> QED
      BY <2>2, <2>3, <2>4
  <2>6. \A k \in DOMAIN list : Size("actions", list[k]) \in 0 .. USHRT_MAX
    BY <2>1, AppendedHaveSizes
  <2> QED
    BY <1>1, <2>5, <2>6 DEF P!IsSequence
<1>2. CASE B.kind # "actions"
  <2>1. list = call.list
    BY <1>2 DEF ListOf, B
  <2> QED
    BY <2>1, CallsAssumption DEF P!IsSequence, B
<1> QED
  BY <1>1, <1>2

\* Its elements end where the history says: the bytes up to each are the sum
\* that was counted, ...
LEMMA BytesCounted ==
  ASSUME IInv, call \in Calls, Len(ends) = Len(list) + 1,
         B.kind \in {"actions", "flows", "queues"}
  PROVE  P!IsList(list) /\ P!Bytes(list, Len(list)) = Last
<1>1. \A e : Size(B.kind, e) = e.len
  BY DEF Size, EntrySize
<1>2. ListOf(call, list)
  BY DEF IInv, CallInv
<1>3. P!IsList(list)
  <2>1. P!USHRT_MAX = USHRT_MAX
    BY DEF P!USHRT_MAX, USHRT_MAX
  <2> QED
    BY <1>1, <1>2, <2>1, ListIsSequence DEF P!IsList
<1>4. /\ ends[1] = 0
      /\ \A k \in 1 .. Len(list) : ends[k + 1] = ends[k] + list[k].len
  <2>1. Len(list) \in Nat
    BY <1>2, ListFacts
  <2> QED
    BY <1>1, <2>1 DEF IInv, EndsInv
<1>5. Len(list) \in Nat
  BY <1>2, ListFacts
<1> DEFINE S == {k \in Nat : k <= Len(list) => P!Bytes(list, k) = ends[k + 1]}
<1>6. 0 \in S
  BY <1>4, P!BytesRec
<1>7. ASSUME NEW k \in Nat, k \in S
      PROVE  k + 1 \in S
  <2> SUFFICES ASSUME k + 1 <= Len(list)
               PROVE  P!Bytes(list, k + 1) = ends[(k + 1) + 1]
    OBVIOUS
  <2>1. P!Bytes(list, k) = ends[k + 1]
    BY <1>5, <1>7
  <2>2. ends[(k + 1) + 1] = ends[k + 1] + list[k + 1].len
    BY <1>4, <1>5
  <2> QED
    BY <2>1, <2>2, P!BytesRec
<1>8. Nat \subseteq S
  <2> HIDE DEF S
  <2> QED
    BY <1>6, <1>7, P!SetInduction
<1>9. P!Bytes(list, Len(list)) = ends[Len(list) + 1]
  BY <1>5, <1>8
<1> QED
  BY <1>3, <1>9 DEF Last

\* ... or a multiple of the one size that all of them have.
LEMMA MultipleCounted ==
  ASSUME IInv, call \in Calls, Len(ends) = Len(list) + 1,
         B.kind \in DOMAIN EntrySize
  PROVE  Last % EntrySize[B.kind] = 0
<1> DEFINE z == EntrySize[B.kind]
<1>1. \A e : Size(B.kind, e) = z
  BY DEF Size
<1>2. z \in {48, 64, 104, 32}
  BY DEF EntrySize
<1> HIDE DEF z
<1>3. Len(list) \in Nat
  BY ListFacts DEF IInv, CallInv
<1>4. /\ ends[1] = 0
      /\ \A k \in 1 .. Len(list) : ends[k + 1] = ends[k] + z
      /\ \A k \in 1 .. Len(list) + 1 : ends[k] \in Nat
  BY <1>1, <1>3 DEF IInv, EndsInv
<1> DEFINE S == {k \in Nat : k <= Len(list) => ends[k + 1] % z = 0}
<1>5. 0 \in S
  BY <1>2, <1>4
<1>6. ASSUME NEW k \in Nat, k \in S
      PROVE  k + 1 \in S
  <2> SUFFICES ASSUME k + 1 <= Len(list)
               PROVE  ends[(k + 1) + 1] % z = 0
    OBVIOUS
  <2>1. PICK a \in Nat : a = ends[k + 1] /\ a % z = 0
    BY <1>3, <1>4, <1>6
  <2>2. ends[(k + 1) + 1] = a + z
    BY <1>3, <1>4, <2>1
  <2>3. (a + z) % z = 0
    BY <1>2, <2>1
  <2> QED
    BY <2>2, <2>3
<1>7. Nat \subseteq S
  <2> HIDE DEF S
  <2> QED
    BY <1>5, <1>6, P!SetInduction
<1>8. ends[Len(list) + 1] % z = 0
  BY <1>3, <1>7
<1> QED
  BY <1>8 DEF Last, z
-----------------------------------------------------------------------------
\* The fields of a message, whatever stands in its list.
LEMMA MessageIs ==
  ASSUME NEW n, NEW elements, NEW m, NEW x, x = Message(n, elements, m)
  PROVE  /\ x.version = OFP_VERSION /\ x.type = B.type
         /\ x.hdr = n /\ x.len = n
         /\ x.body.stype = B.stype
         /\ x.body.actions_len = m
         /\ x.body.actions = elements /\ x.body.ports = elements
         /\ x.body.queues = elements
BY DEF Message, MadeFields

\* The entries of statistics, ...
LEMMA EntriesAre ==
  ASSUME NEW n, NEW elements, NEW m, NEW x, x = Message(n, elements, m)
  PROVE  x.body.entries
           = IF B.kind \in {"tables", "port_stats", "queue_stats"}
               THEN [k \in DOMAIN elements |-> Checked(elements[k])]
               ELSE elements
BY DEF Message, MadeFields

\* ... and the fields that the caller gave.
LEMMA FieldsAre ==
  ASSUME NEW n, NEW elements, NEW m, NEW x, x = Message(n, elements, m),
         NEW f \in DOMAIN call.body \ MadeFields
  PROVE  x.body[f] = call.body[f]
BY DEF Message, MadeFields

\* The fields beside a list are those of the message with an empty list.
LEMMA SameBeside ==
  ASSUME call \in Calls, NEW n1, NEW elements1, NEW m1,
         NEW n2, NEW elements2, NEW m2
  PROVE  \A f \in FieldsBeside(B.type) :
           Message(n1, elements1, m1).body[f]
             = Message(n2, elements2, m2).body[f]
<1>1. FieldsBeside(B.type) \subseteq DOMAIN call.body \ MadeFields
  <2>1. FieldsBeside(B.type) \subseteq DOMAIN call.body
    BY CallsAssumption DEF B
  <2>2. FieldsBeside(B.type) \intersect MadeFields = {}
    BY DEF FieldsBeside, MadeFields
  <2> QED
    BY <2>1, <2>2
<1>2. \A f \in DOMAIN call.body \ MadeFields :
        Message(n1, elements1, m1).body[f] = call.body[f]
  BY FieldsAre
<1>3. \A f \in DOMAIN call.body \ MadeFields :
        Message(n2, elements2, m2).body[f] = call.body[f]
  BY FieldsAre
<1> QED
  BY <1>1, <1>2, <1>3

\* A message without a list is the one that was asked about, but for its
\* length, which the validators of such bodies do not look at.
LEMMA BareBody ==
  ASSUME call \in Calls, B.kind = "none", NEW n,
         P!ValidateBody(Message(BareLength, <<>>, 0)) = P!OK
  PROVE  P!ValidateBody(Message(n, <<>>, 0)) = P!OK
<1> DEFINE x == Message(n, <<>>, 0)
           y == Message(BareLength, <<>>, 0)
<1>1. x.type = B.type /\ y.type = B.type
  BY MessageIs
<1>2. x.body = y.body
  BY DEF Message
<1>3. x.body.stype = B.stype
  BY MessageIs
<1>4. KindFits(B) /\ B.kind = "none"
  BY CallAgrees DEF Agrees
<1>5. CASE B.type = "STATS_REPLY"
  <2>1. B.stype \in {"DESC", "AGGREGATE", "VENDOR"}
    BY <1>4, <1>5 DEF KindFits
  <2>2. \A k : P!ValidateStatsReplyBody(x.body, k)
                 = P!ValidateStatsReplyBody(x.body, 0)
    BY <1>3, <2>1 DEF P!ValidateStatsReplyBody, P!EntrySize
  <2> HIDE DEF x, y
  <2>3. \A k : P!ValidateStatsReplyBody(x.body, k) = P!OK
    BY <1>1, <1>2, <1>5, <2>2 DEF P!ValidateBody, y
  <2> QED
    BY <1>1, <1>5, <2>3 DEF P!ValidateBody, x
<1>6. CASE B.type # "STATS_REPLY"
  <2>1. B.type \notin {"FEATURES_REPLY", "FLOW_MOD", "QUEUE_GET_CONFIG_REPLY"}
    BY <1>4 DEF KindFits
  <2>2. P!ValidateBody(x) = P!ValidateBody(y)
    <3> HIDE DEF x, y
    <3> QED
      BY <1>1, <1>2, <1>6, <2>1 DEF P!ValidateBody
  <2> QED
    BY <2>2
<1> QED
  BY <1>5, <1>6

\* The body of a message that was made is valid.
LEMMA MadeBody ==
  ASSUME IInv, MadeInv, pc = "made", returned = "message", Fitting,
         ValidArguments
  PROVE  P!ValidateBody(Message(length, list, sum)) = P!OK
<1> DEFINE m == Message(length, list, sum)
           bare == Message(BareLength, <<>>, 0)
           b == m.body
           c == bare.body
<1>1. call \in Calls /\ ListOf(call, list)
  BY DEF IInv, CallInv
<1>2. /\ B.size \in Nat /\ DataFits \in Nat
      /\ Last \in Nat /\ Last <= USHRT_MAX
  BY <1>1, SizesOfCall, FitsSixteenBits DEF IInv
<1>3. /\ Len(ends) = Len(list) + 1 /\ sum = Last
      /\ length = B.size + Last + DataFits
  BY DEF MadeInv
<1>4. P!ValidateBody(bare) = P!OK
  BY SameMessages, SameConstants DEF ValidArguments
<1>5. KindFits(B)
  BY <1>1, CallAgrees DEF Agrees
<1>6. /\ m.type = B.type /\ m.hdr = length /\ bare.type = B.type
      /\ b.stype = B.stype /\ c.stype = B.stype
      /\ b.actions = list /\ b.actions_len = sum
      /\ b.ports = list /\ b.queues = list
      /\ b.entries = IF B.kind \in {"tables", "port_stats", "queue_stats"}
                       THEN [k \in DOMAIN list |-> Checked(list[k])]
                       ELSE list
  BY MessageIs, EntriesAre
<1>7. \A f \in FieldsBeside(B.type) : b[f] = c[f]
  BY <1>1, SameBeside
<1>8. /\ Last \in 0 .. P!USHRT_MAX
      /\ DataFits = 0 => \A s : s = B.size => P!U16(length - s) = Last
  <2>0. P!USHRT_MAX = USHRT_MAX /\ USHRT_MAX \in Nat
    BY DEF P!USHRT_MAX, USHRT_MAX
  <2>1. Last \in 0 .. P!USHRT_MAX
    BY <1>2, <2>0
  <2>2. P!U16(Last) = Last
    BY <2>1, P!Wraps
  <2>3. DataFits = 0 => length - B.size = Last
    BY <1>2, <1>3
  <2> QED
    BY <2>1, <2>2, <2>3
<1>9. \A k \in DOMAIN list : ValidElement(list[k])
  BY DEF ValidArguments
<1>10. ~B.data => DataFits = 0
  BY DEF DataFits
<1> HIDE DEF m, bare, b, c
<1>11. CASE B.kind = "none"
  <2>1. list = <<>>
    BY <1>1, <1>11, CallsAssumption DEF ListOf, B
  <2>2. sum = 0
    <3>1. Len(list) = 0
      BY <2>1
    <3> QED
      BY <1>3, <3>1 DEF IInv, EndsInv, Last
  <2> QED
    BY <1>1, <1>4, <1>11, <2>1, <2>2, BareBody DEF m, bare
<1>12. CASE B.kind = "actions"
  <2>1. P!IsList(list) /\ P!Bytes(list, Len(list)) = Last
    BY <1>1, <1>3, <1>12, BytesCounted
  <2>2. \A k \in DOMAIN list : P!ValidateAction(list[k]) = P!OK
    BY <1>9, <1>12, SameConstants, SameActions DEF ValidElement
  <2>3. P!ValidateActions(list, Last) = P!OK
    BY <1>8, <2>1, <2>2, P!ActionsPass
  <2>4. CASE B.type = "PACKET_OUT"
    <3>1. b.in_port = c.in_port
      BY <1>7, <2>4 DEF FieldsBeside
    <3>2. P!ValidatePacketOut(c) = P!OK
      BY <1>4, <1>6, <2>4 DEF P!ValidateBody, c
    <3>3. P!ValidatePacketOut(b) = P!OK
      BY <1>3, <1>6, <2>3, <3>1, <3>2, P!PacketOutPasses
    <3> QED
      BY <1>6, <2>4, <3>3 DEF P!ValidateBody, b, m
  <2>5. CASE B.type # "PACKET_OUT"
    <3>1. B.type = "FLOW_MOD" /\ B.size = 72 /\ DataFits = 0
      BY <1>5, <1>10, <1>12, <2>5 DEF KindFits
    <3>2. /\ b.match = c.match /\ b.command = c.command
          /\ b.priority = c.priority /\ b.out_port = c.out_port
          /\ b.flags = c.flags
      BY <1>7, <3>1 DEF FieldsBeside
    <3>3. PICK n : P!ValidateFlowMod(c, n) = P!OK
      BY <1>4, <1>6, <3>1 DEF P!ValidateBody, c
    <3>4. P!ValidateFlowMod(b, Last) = P!OK
      BY <1>6, <2>3, <3>2, <3>3, P!FlowModPasses
    <3> QED
      BY <1>6, <1>8, <3>1, <3>4 DEF P!ValidateBody, b, m
  <2> QED
    BY <2>4, <2>5
<1>13. CASE B.kind = "ports"
  <2>1. B.type = "FEATURES_REPLY" /\ B.size = 32 /\ DataFits = 0
    BY <1>5, <1>10, <1>13 DEF KindFits
  <2>2. P!IsSequence(list)
    BY <1>1, ListIsSequence
  <2>3. \A k \in DOMAIN list : P!ValidatePhyPort(list[k]) = P!OK
    BY <1>9, <1>13, SameConstants, SameFields DEF ValidElement
  <2>4. P!FirstOf(list, P!ValidatePhyPort) = P!OK
    BY <2>2, <2>3, P!AllPass
  <2>5. Last % 48 = 0
    BY <1>1, <1>3, <1>13, MultipleCounted DEF EntrySize
  <2>6. b.n_tables = c.n_tables
    BY <1>7, <2>1 DEF FieldsBeside
  <2>7. PICK n : P!ValidateFeaturesReply(c, n) = P!OK
    BY <1>4, <1>6, <2>1 DEF P!ValidateBody, c
  <2>8. P!ValidateFeaturesReply(b, Last) = P!OK
    BY <1>6, <2>4, <2>5, <2>6, <2>7, P!FeaturesPass
  <2> QED
    BY <1>6, <1>8, <2>1, <2>8 DEF P!ValidateBody, b, m
<1>14. CASE B.kind = "queues"
  <2>1. B.type = "QUEUE_GET_CONFIG_REPLY" /\ B.size = 16 /\ DataFits = 0
    BY <1>5, <1>10, <1>14
      DEF KindFits, cc_create_queue_get_config_reply, Builder
  <2>2. P!IsList(list) /\ P!Bytes(list, Len(list)) = Last
    BY <1>1, <1>3, <1>14, BytesCounted
  <2>3. \A k \in DOMAIN list : P!ValidatePacketQueue(list[k]) = P!OK
    BY <1>9, <1>14, SameConstants, SameQueues DEF ValidElement
  <2>4. P!ValidateQueues(list, Last) = P!OK
    BY <1>8, <2>2, <2>3, P!QueuesPass
  <2>5. b.port = c.port
    BY <1>7, <2>1 DEF FieldsBeside
  <2>6. PICK n : P!ValidateQueueReply(c, n) = P!OK
    BY <1>4, <1>6, <2>1 DEF P!ValidateBody, c
  <2>7. P!ValidateQueueReply(b, Last) = P!OK
    BY <1>6, <2>4, <2>5, <2>6, P!QueueReplyPasses
  <2> QED
    BY <1>6, <1>8, <2>1, <2>7 DEF P!ValidateBody, b, m
<1>15. CASE B.kind \in {"flows", "tables", "port_stats", "queue_stats"}
  <2>1. /\ B.type = "STATS_REPLY" /\ B.size = 12 /\ DataFits = 0
        /\ B.kind = "flows" => B.stype = "FLOW"
        /\ B.kind = "tables" => B.stype = "TABLE"
        /\ B.kind = "port_stats" => B.stype = "PORT"
        /\ B.kind = "queue_stats" => B.stype = "QUEUE"
    BY <1>5, <1>10, <1>15 DEF KindFits
  <2>2. b.flags = c.flags
    BY <1>7, <2>1 DEF FieldsBeside
  <2>3. PICK n : P!ValidateStatsReplyBody(c, n) = P!OK
    BY <1>4, <1>6, <2>1 DEF P!ValidateBody, c
  <2>4. CASE B.kind = "flows"
    <3>1. P!IsList(list) /\ P!Bytes(list, Len(list)) = Last
      BY <1>1, <1>3, <2>4, BytesCounted
    <3>2. \A k \in DOMAIN list : P!ValidateFlowStats(list[k]) = P!OK
      BY <1>9, <2>4, SameConstants, SameFlows DEF ValidElement
    <3>3. P!ValidateFlows(list, Last) = P!OK
      BY <1>8, <3>1, <3>2, P!FlowsPass
    <3>4. b.stype = "FLOW" /\ b.entries = list
      BY <1>6, <2>1, <2>4
    <3>5. P!ValidateStatsReplyBody(b, Last) = P!OK
      BY <1>6, <2>2, <2>3, <3>3, <3>4, P!StatsReplyPasses
    <3> QED
      BY <1>6, <1>8, <2>1, <3>5 DEF P!ValidateBody, P!StatsHeaderSize, b, m
  <2>5. CASE B.kind # "flows"
    <3>1. b.entries = [k \in DOMAIN list |-> Checked(list[k])]
      BY <1>6, <1>15, <2>5
    <3>2. P!IsSequence(b.entries)
      <4> DEFINE S == {b.entries[k] : k \in DOMAIN b.entries}
      <4>1. Len(list) \in Nat /\ DOMAIN list = 1 .. Len(list)
        BY <1>1, ListFacts
      <4>2. /\ DOMAIN b.entries = 1 .. Len(list)
            /\ b.entries = [k \in 1 .. Len(list) |-> b.entries[k]]
        BY <3>1, <4>1
      <4>3. \A k \in 1 .. Len(list) : b.entries[k] \in S
        BY <4>2
      <4> HIDE DEF S
      <4>4. b.entries \in Seq(S)
        BY <4>1, <4>2, <4>3
      <4> QED
        BY <4>4 DEF P!IsSequence, S
    <3>3. /\ b.stype \in DOMAIN P!EntrySize
          /\ Last % P!EntrySize[b.stype] = 0
      <4>1. Last % EntrySize[B.kind] = 0
        BY <1>1, <1>3, <1>15, <2>5, MultipleCounted DEF EntrySize
      <4> QED
        BY <1>6, <1>15, <2>1, <2>5, <4>1 DEF EntrySize, P!EntrySize
    <3>4. \A k \in DOMAIN b.entries :
            IF b.stype = "TABLE" THEN P!ValidateWildcards(b.entries[k]) = P!OK
            ELSE P!ValidatePhyPortNo(b.entries[k]) = P!OK
      BY <1>6, <1>9, <1>15, <2>1, <2>5, <3>1, SameConstants, SameFields
        DEF ValidElement
    <3>5. P!ValidateEntries(b, Last) = P!OK
      BY <3>2, <3>3, <3>4, P!EntriesPass
    <3>6. P!ValidateStatsReplyBody(b, Last) = P!OK
      BY <1>6, <2>2, <2>3, <3>3, <3>5, P!StatsReplyPasses
    <3> QED
      BY <1>6, <1>8, <2>1, <3>6 DEF P!ValidateBody, P!StatsHeaderSize, b, m
  <2> QED
    BY <2>4, <2>5
<1> QED
  BY <1>5, <1>11, <1>12, <1>13, <1>14, <1>15 DEF KindFits

\* A queue that is valid takes 16 bytes, so a reply with one has room for it.
LEMMA QueuesHaveBytes ==
  ASSUME IInv, call \in Calls, Len(ends) = Len(list) + 1, B.kind = "queues",
         ValidArguments, list # <<>>
  PROVE  Last >= 16
<1>1. ListOf(call, list)
  BY DEF IInv, CallInv
<1>2. P!IsSequence(list) /\ Len(list) \in Nat /\ DOMAIN list = 1 .. Len(list)
  BY <1>1, ListIsSequence, ListFacts
<1>3. Len(list) >= 1
  BY <1>2 DEF P!IsSequence
<1>4. 1 \in DOMAIN list /\ Size(B.kind, list[1]) \in Nat
  BY <1>1, <1>2, <1>3, ListFacts DEF B
<1>5. P!ValidatePacketQueue(list[1]) = P!OK
  BY <1>4, SameConstants, SameQueues DEF ValidArguments, ValidElement
<1>6. ~(list[1].len < 16)
  BY <1>5 DEF P!ValidatePacketQueue, P!QueueSize, P!HeaderSize, P!OK
<1>7. list[1].len \in Nat /\ ends[2] = ends[1] + list[1].len /\ ends[1] = 0
  <2>1. Size(B.kind, list[1]) = list[1].len
    BY DEF Size, EntrySize
  <2>2. 1 \in 1 .. Len(ends) - 1
    BY <1>2, <1>3
  <2> QED
    BY <1>4, <2>1, <2>2 DEF IInv, EndsInv
<1>8. ends[2] \in Nat /\ ends[2] <= Last /\ Last \in Nat
  <2>1. 2 \in 1 .. Len(ends)
    BY <1>2, <1>3
  <2> QED
    BY <2>1 DEF IInv, EndsInv, Last
<1> QED
  BY <1>6, <1>7, <1>8

\* A message that was made of valid parts is accepted.
LEMMA MadeAccepted == IInv /\ MadeInv => BuiltIsAccepted
<1> SUFFICES ASSUME IInv, MadeInv, pc = "made", returned = "message", Fitting,
                    ValidArguments,
                    ~(B = cc_create_queue_get_config_reply /\ list = <<>>)
             PROVE  V!Validate(Message(length, list, sum)) = V!OK
  BY DEF BuiltIsAccepted
<1>1. call \in Calls
  BY DEF IInv, CallInv
<1>2. PICK m : m = Message(length, list, sum)
  OBVIOUS
<1>3. /\ m.version = OFP_VERSION /\ m.type = B.type
      /\ m.hdr = length /\ m.len = length /\ m.body.stype = B.stype
  BY <1>2, MessageIs
<1>4. Allows(B) /\ KindFits(B)
  BY <1>1, CallAgrees DEF Agrees
<1>5. /\ m.type \in P!Types
      /\ P!IsStats(m) => m.body.stype \in P!StatsTypes
      /\ P!MinLength(m) \in Nat /\ P!MaxLength(m) \in Nat
      /\ B.kind # "queues" => P!MinLength(m) <= B.size
      /\ B.kind = "queues" => P!MinLength(m) = 24
      /\ IF B.kind = "none" /\ ~B.data THEN B.size <= P!MaxLength(m)
         ELSE P!MaxLength(m) = USHRT_MAX
  BY <1>3, <1>4 DEF Allows, P!IsStats
<1>6. /\ B.size \in Nat /\ B.size >= 8 /\ DataFits \in Nat /\ Last \in Nat
      /\ length = B.size + Last + DataFits /\ length <= USHRT_MAX
      /\ Len(ends) = Len(list) + 1
  BY <1>1, SizesOfCall, FitsSixteenBits DEF IInv, MadeInv, HeaderSize
<1>7. P!MinLength(m) <= length
  <2>1. CASE B.kind # "queues"
    BY <1>5, <1>6, <2>1
  <2>2. CASE B.kind = "queues"
    <3>1. B = cc_create_queue_get_config_reply
      BY <1>4, <2>2 DEF KindFits
    <3>2. B.size = 16
      BY <3>1 DEF cc_create_queue_get_config_reply, Builder
    <3>3. Last >= 16
      BY <1>1, <1>6, <2>2, <3>1, QueuesHaveBytes
    <3> QED
      BY <1>5, <1>6, <2>2, <3>2, <3>3
  <2> QED
    BY <2>1, <2>2
<1>8. length <= P!MaxLength(m)
  <2>1. CASE B.kind = "none" /\ ~B.data
    <3>1. DataFits = 0
      BY <2>1 DEF DataFits
    <3>2. list = <<>>
      BY <1>1, <2>1, CallsAssumption DEF IInv, CallInv, ListOf, B
    <3>3. Last = 0
      <4>1. Len(list) = 0
        BY <3>2
      <4> QED
        BY <1>6, <4>1 DEF IInv, EndsInv, Last
    <3> QED
      BY <1>5, <1>6, <2>1, <3>1, <3>3
  <2>2. CASE ~(B.kind = "none" /\ ~B.data)
    BY <1>5, <1>6, <2>2
  <2> QED
    BY <2>1, <2>2
<1>9. P!ValidateHeader(m, m.type, P!Types, P!MinLength(m), P!MaxLength(m))
        = P!OK
  <2>1. m.len >= P!HeaderSize /\ m.version = P!OFP_VERSION
    BY <1>3, <1>6 DEF P!HeaderSize, P!OFP_VERSION, OFP_VERSION
  <2>2. m.hdr \in Nat /\ m.len = m.hdr
    BY <1>3, <1>6
  <2> QED
    BY <1>3, <1>5, <1>7, <1>8, <2>1, <2>2, P!HeaderPasses
<1>10. P!ValidateBody(m) = P!OK
  BY <1>2, MadeBody
<1>11. P!Validate(m) = P!OK
  BY <1>5, <1>9, <1>10 DEF P!Validate
<1> QED
  BY <1>2, <1>11, SameMessages, SameConstants

\* The builders and validate_openflow_message agree for every call: a message
\* that fits 16 bits and is made of valid fields and elements is accepted,
\* whichever of the functions cc_create_x has made it.
THEOREM BuildersAccepted == Spec => []BuiltIsAccepted
<1>1. Init => MadeInv
  BY DEF Init, MadeInv
<1> QED
  BY InitInv, StepInv, <1>1, MadeStep, MadeAccepted, PTL DEF Spec
=============================================================================
