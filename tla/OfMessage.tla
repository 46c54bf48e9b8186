------------------------------ MODULE OfMessage ------------------------------
(***************************************************************************)
(* What the controller does with a message of a switch: it is read         *)
(* (cc_recv_from_secure_channel), validated (src/cc_of_err.c) and either   *)
(* answered with an error or given to a handler (cc_ofpmsg_handle).        *)
(*                                                                         *)
(* A message is a record: the fields of its header, len, the number of     *)
(* bytes read, and body, the fields behind the header.  Fields have the    *)
(* values that ntohs and ntohl yield.  Bitmaps are sets of bit numbers; a  *)
(* list in the body is the sequence its bytes spell from the start on.     *)
(* Every validator returns OK or the error of the first check that fails.  *)
(* The errors TOO_SHORT_ACTION_x of the action types x have one name here, *)
(* and so have the TOO_LONG_ACTION_x: cc_of_err.c maps them all alike.     *)
(***************************************************************************)
EXTENDS Integers, Sequences

CONSTANTS Messages,  \* what a switch may send: records as described above
          Null

VARIABLES inbox,    \* the message in recv_queue, or Null
          last,     \* the last message that was read
          verdict,  \* the result of validate_openflow_message
          answer,   \* the error sent back: <<type, code>>, or NoAnswer
          handler   \* the function given to the thread pool, or "none"

vars == <<inbox, last, verdict, answer, handler>>

OK == "OK"
NoAnswer == <<"none", "none">>

\* The verdict of a validator that reads past the end of what was read: what
\* it returns, and whether it returns, is up to the memory there.
BEYOND == "BEYOND"

OFP_VERSION == 1
USHRT_MAX == 65535
HeaderSize == 8
OFPP_MAX == 65280
OFPP_IN_PORT == 65528
OFPP_LOCAL == 65534
OFPP_NONE == 65535

ASSUME MessagesAssumption ==
  /\ Null \notin Messages
  /\ \A m \in Messages : m.hdr \in 0 .. USHRT_MAX /\ m.len \in Nat

\* Arithmetic of uint16_t.
U16(n) == n % 65536

\* A check, and the first error of a series of checks.
Check(holds, error) == IF holds THEN OK ELSE error

FirstError(s) ==
  IF \A i \in DOMAIN s : s[i] = OK
    THEN OK
    ELSE s[CHOOSE i \in DOMAIN s : /\ s[i] # OK
                                   /\ \A j \in 1 .. i - 1 : s[j] = OK]

\* The first error of what f says of the elements of a list.
FirstOf(list, f(_)) == FirstError([i \in 1 .. Len(list) |-> f(list[i])])

\* The first n elements of a list of records take so many bytes.
Bytes(list, n) ==
  LET Sum[i \in 0 .. n] == IF i = 0 THEN 0 ELSE Sum[i - 1] + list[i].len
  IN Sum[n]

\* Mutant: the length of the header is not compared with what was read.
M_NoShortRead(m) == FALSE

ShortRead(m) == m.hdr > m.len

ValidateHeader(m, type, types, min, max) ==
  FirstError(<<
    Check(m.len >= HeaderSize, "TOO_SHORT_MESSAGE"),
    Check(m.version = OFP_VERSION, "UNSUPPORTED_VERSION"),
    Check(m.type \in types, "UNDEFINED_TYPE"),
    Check(m.type = type, "INVALID_TYPE"),
    Check(m.hdr <= max, "TOO_LONG_MESSAGE"),
    Check(m.hdr >= min, "TOO_SHORT_MESSAGE"),
    Check(m.hdr >= m.len, "TOO_LONG_MESSAGE"),
    Check(~ShortRead(m), "TOO_SHORT_MESSAGE"),
    Check(m.len <= max, "TOO_LONG_MESSAGE") >>)
-----------------------------------------------------------------------------
(***************************************************************************)
(* Fields that several messages have.                                      *)
(***************************************************************************)
PORT_CONFIG == 0 .. 6
PORT_STATE == {0, 8, 9}
PORT_FEATURES == 0 .. 11
FLOW_MOD_FLAGS == 0 .. 2
OFPFW_ALL == 0 .. 21

ValidatePhyPortNo(no) ==
  Check(no # 0 /\ ~(no > OFPP_MAX /\ no < OFPP_IN_PORT), "INVALID_PORT_NO")

ValidatePhyPort(port) ==
  FirstError(<<
    ValidatePhyPortNo(port.port_no),
    Check(port.config \subseteq PORT_CONFIG, "INVALID_PORT_CONFIG"),
    Check(port.state \subseteq PORT_STATE, "INVALID_PORT_STATE"),
    Check(port.features \subseteq PORT_FEATURES, "INVALID_PORT_FEATURES") >>)

ValidateWildcards(wildcards) ==
  Check(wildcards \subseteq OFPFW_ALL, "INVALID_WILDCARDS")

ValidateVlanVid(vid) ==
  Check(vid = USHRT_MAX \/ vid < 4096, "INVALID_VLAN_VID")

ValidateVlanPcp(pcp) == Check(pcp < 8, "INVALID_VLAN_PCP")

ValidateNwTos(tos) == Check(tos % 4 = 0, "INVALID_NW_TOS")

ValidateMatch(match) ==
  FirstError(<<
    ValidateWildcards(match.wildcards),
    ValidateVlanVid(match.dl_vlan),
    ValidateVlanPcp(match.dl_vlan_pcp),
    ValidateNwTos(match.nw_tos) >>)

\* An exact match must have the highest priority.
ValidatePriority(match, priority) ==
  Check(match.wildcards \intersect OFPFW_ALL # {} \/ priority = USHRT_MAX,
        "INVALID_FLOW_PRIORITY")
-----------------------------------------------------------------------------
(***************************************************************************)
(* Actions: arg is the port, VLAN id, priority or TOS the action sets.     *)
(***************************************************************************)
ActionSize ==
  [a \in {"OUTPUT", "SET_VLAN_VID", "SET_VLAN_PCP", "STRIP_VLAN",
          "SET_NW_SRC", "SET_NW_DST", "SET_NW_TOS", "SET_TP_SRC",
          "SET_TP_DST", "VENDOR"} |-> 8]

LongActionSize == [a \in {"SET_DL_SRC", "SET_DL_DST", "ENQUEUE"} |-> 16]

SizeOfAction(type) ==
  IF type \in DOMAIN ActionSize THEN ActionSize[type] ELSE LongActionSize[type]

ActionTypes == DOMAIN ActionSize \union DOMAIN LongActionSize

ValidateActionArg(a) ==
  CASE a.type \in {"OUTPUT", "ENQUEUE"} -> ValidatePhyPortNo(a.arg)
    [] a.type = "SET_VLAN_VID" -> ValidateVlanVid(a.arg)
    [] a.type = "SET_VLAN_PCP" -> ValidateVlanPcp(a.arg)
    [] a.type = "SET_NW_TOS" -> ValidateNwTos(a.arg)
    [] OTHER -> OK

ValidateAction(a) ==
  IF a.len < HeaderSize THEN "TOO_SHORT_ACTION"
  ELSE IF a.type \notin ActionTypes THEN "UNDEFINED_ACTION_TYPE"
  ELSE FirstError(<<
    Check(a.len >= SizeOfAction(a.type), "TOO_SHORT_ACTION_OF_TYPE"),
    Check(a.type = "VENDOR" \/ a.len <= SizeOfAction(a.type),
          "TOO_LONG_ACTION_OF_TYPE"),
    ValidateActionArg(a) >>)

\* Mutant: the list is walked one step too far.
M_WalkOn(offset, length) == offset <= length

\* Mutant: a last element that is only a header is not looked at.
M_StopShort(offset, length) == offset + HeaderSize < length

WalkOn(offset, length) == offset < length

\* The loop of validate_actions, and the same loop of
\* validate_queue_properties: an offset runs over the list.  One that no
\* longer fits 16 bits starts again in the middle of what was read.
Walk(list, length, f(_)) ==
  LET From[i \in 1 .. Len(list) + 1] ==
        LET offset == Bytes(list, i - 1) IN
        IF offset > USHRT_MAX THEN BEYOND
        ELSE IF ~WalkOn(offset, length) THEN OK
        ELSE IF i > Len(list) THEN BEYOND
        ELSE IF f(list[i]) # OK THEN f(list[i])
        ELSE From[i + 1]
  IN From[1]

ValidateActions(actions, length) == Walk(actions, length, ValidateAction)
-----------------------------------------------------------------------------
(***************************************************************************)
(* The statistics.                                                         *)
(***************************************************************************)
StatsHeaderSize == 12
FlowStatsSize == 88

\* The size of a request by the kind of statistics; a vendor's may be longer.
StatsRequestSize ==
  [s \in {"DESC", "FLOW", "AGGREGATE", "TABLE", "PORT", "QUEUE", "VENDOR"} |->
     CASE s \in {"DESC", "TABLE"} -> 12
       [] s \in {"FLOW", "AGGREGATE"} -> 56
       [] s \in {"PORT", "QUEUE"} -> 20
       [] s = "VENDOR" -> 16]

StatsTypes == DOMAIN StatsRequestSize

ValidateStatsRequestBody(b) ==
  FirstError(<<
    Check(b.flags = 0, "INVALID_STATS_REQUEST_FLAGS"),
    IF b.stype \in {"FLOW", "AGGREGATE"} THEN ValidateMatch(b.match) ELSE OK,
    IF b.stype \in {"FLOW", "AGGREGATE", "PORT", "QUEUE"}
      THEN ValidatePhyPortNo(b.port) ELSE OK,
    Check(b.stype = "PORT" /\ b.port > OFPP_MAX
            => b.port \in {OFPP_NONE, OFPP_LOCAL}, "INVALID_PORT_NO") >>)

\* One flow of a reply; its actions fill what its length leaves.
ValidateFlowStats(f) ==
  FirstError(<<
    ValidateMatch(f.match),
    ValidatePriority(f.match, f.priority),
    ValidateActions(f.actions, U16(f.len - FlowStatsSize)) >>)

\* Mutant: the flow that is longer than what is left ends the loop.
M_Saturate(length, used) == IF used > length THEN 0 ELSE length - used

\* What is left of a 16-bit length, which wraps below zero.
Left(length, used) == U16(length - used)

\* The flows of a reply are counted off until nothing is left.
ValidateFlows(flows, length) ==
  LET From[i \in 1 .. Len(flows) + 1] ==
        IF Left(length, Bytes(flows, i - 1)) = 0 THEN OK
        ELSE IF i > Len(flows) THEN BEYOND
        ELSE IF ValidateFlowStats(flows[i]) # OK
          THEN ValidateFlowStats(flows[i])
        ELSE From[i + 1]
  IN From[1]

\* Replies with entries of a fixed size.
EntrySize == [TABLE |-> 64, PORT |-> 104, QUEUE |-> 32]

ValidateEntries(b, length) ==
  IF length % EntrySize[b.stype] # 0 THEN "INVALID_LENGTH"
  ELSE IF b.stype = "TABLE" THEN FirstOf(b.entries, ValidateWildcards)
  ELSE FirstOf(b.entries, ValidatePhyPortNo)

\* The length limit of a reply: the body of two kinds has one struct at most.
StatsReplyMax(stype) ==
  CASE stype = "DESC" -> StatsHeaderSize + 1056
    [] stype = "AGGREGATE" -> StatsHeaderSize + 24
    [] OTHER -> USHRT_MAX

ValidateStatsReplyBody(b, length) ==
  FirstError(<<
    Check(b.flags = 0 \/ (b.flags = 1 /\ b.stype \notin {"DESC", "AGGREGATE"}),
          "INVALID_STATS_REPLY_FLAGS"),
    CASE b.stype = "FLOW" -> ValidateFlows(b.entries, length)
      [] b.stype \in DOMAIN EntrySize -> ValidateEntries(b, length)
      [] OTHER -> OK >>)
-----------------------------------------------------------------------------
(***************************************************************************)
(* The queues of a port.                                                   *)
(***************************************************************************)
QueueSize == 8
PropertySize == [NONE |-> 8, MIN_RATE |-> 16]

ValidateQueueProperty(p) ==
  IF p.len < HeaderSize THEN "TOO_SHORT_QUEUE_PROPERTY"
  ELSE IF p.property \notin DOMAIN PropertySize THEN "UNDEFINED_QUEUE_PROPERTY"
  ELSE FirstError(<<
    Check(p.len >= PropertySize[p.property], "TOO_SHORT_QUEUE_PROPERTY"),
    Check(p.len <= PropertySize[p.property], "TOO_LONG_QUEUE_PROPERTY") >>)

ValidatePacketQueue(q) ==
  IF q.len < QueueSize + HeaderSize THEN "TOO_SHORT_QUEUE_DESCRIPTION"
  ELSE Walk(q.properties, q.len - QueueSize, ValidateQueueProperty)

\* The queues are counted first, until no more than a header is left, and
\* validated then.
ValidateQueues(queues, length) ==
  LET left(n) == Left(length, Bytes(queues, n))
      stops == {n \in 0 .. Len(queues) :
                  left(n) <= QueueSize /\ \A i \in 1 .. n : queues[i].len > 0}
      n == CHOOSE k \in stops : \A j \in stops : k <= j
  IN IF stops = {} THEN BEYOND
     ELSE IF left(n) # 0 THEN "INVALID_LENGTH"
     ELSE FirstOf(SubSeq(queues, 1, n), ValidatePacketQueue)
-----------------------------------------------------------------------------
(***************************************************************************)
(* The messages.                                                           *)
(***************************************************************************)
\* The sizes of the fixed parts; the second set may be longer than that.
MinSize ==
  [HELLO |-> 8, ERROR |-> 12, ECHO_REQUEST |-> 8, ECHO_REPLY |-> 8,
   VENDOR |-> 12, FEATURES_REQUEST |-> 8, FEATURES_REPLY |-> 32,
   GET_CONFIG_REQUEST |-> 8, GET_CONFIG_REPLY |-> 12, SET_CONFIG |-> 12,
   PACKET_IN |-> 18, FLOW_REMOVED |-> 88, PORT_STATUS |-> 64,
   PACKET_OUT |-> 16, FLOW_MOD |-> 72, PORT_MOD |-> 32,
   STATS_REQUEST |-> 12, STATS_REPLY |-> 12,
   BARRIER_REQUEST |-> 8, BARRIER_REPLY |-> 8,
   QUEUE_GET_CONFIG_REQUEST |-> 12, QUEUE_GET_CONFIG_REPLY |-> 24]

Types == DOMAIN MinSize

OpenEnded ==
  {"ERROR", "ECHO_REQUEST", "ECHO_REPLY", "VENDOR", "FEATURES_REPLY",
   "PACKET_IN", "PACKET_OUT", "FLOW_MOD", "QUEUE_GET_CONFIG_REPLY"}

\* The limits that apply to a message; those of statistics depend on the kind.
MinLength(m) ==
  IF m.type = "STATS_REQUEST" THEN StatsRequestSize[m.body.stype]
  ELSE MinSize[m.type]

MaxLength(m) ==
  IF m.type = "STATS_REPLY" THEN StatsReplyMax(m.body.stype)
  ELSE IF \/ m.type \in OpenEnded
          \/ m.type = "STATS_REQUEST" /\ m.body.stype = "VENDOR" THEN USHRT_MAX
  ELSE MinLength(m)

IsStats(m) == m.type \in {"STATS_REQUEST", "STATS_REPLY"}

ValidateSwitchConfig(b) == Check(b.flags <= 3, "INVALID_SWITCH_CONFIG")

ValidatePacketIn(b) ==
  FirstError(<< ValidatePhyPortNo(b.in_port),
                Check(b.reason <= 1, "INVALID_PACKET_IN_REASON") >>)

ValidateFeaturesReply(b, length) ==
  FirstError(<<
    Check(b.n_tables # 0, "NO_TABLE_AVAILABLE"),
    Check(length % 48 = 0, "INVALID_LENGTH"),
    FirstOf(b.ports, ValidatePhyPort) >>)

ValidateFlowRemoved(b) ==
  FirstError(<<
    ValidateMatch(b.match),
    ValidatePriority(b.match, b.priority),
    Check(b.reason <= 2, "INVALID_FLOW_REMOVED_REASON") >>)

ValidatePortStatus(b) ==
  FirstError(<< Check(b.reason <= 2, "INVALID_PORT_STATUS_REASON"),
                ValidatePhyPort(b.desc) >>)

ValidatePacketOut(b) ==
  FirstError(<< ValidatePhyPortNo(b.in_port),
                ValidateActions(b.actions, b.actions_len) >>)

ValidateFlowMod(b, length) ==
  FirstError(<<
    ValidateMatch(b.match),
    Check(b.command <= 4, "UNDEFINED_FLOW_MOD_COMMAND"),
    ValidatePriority(b.match, b.priority),
    IF b.command \in {3, 4} /\ b.out_port # OFPP_NONE
      THEN ValidatePhyPortNo(b.out_port) ELSE OK,
    Check(b.flags \subseteq FLOW_MOD_FLAGS, "INVALID_FLOW_MOD_FLAGS"),
    ValidateActions(b.actions, length) >>)

\* advertise is held against the bits of the port's configuration.
ValidatePortMod(b) ==
  FirstError(<<
    ValidatePhyPortNo(b.port_no),
    Check(b.port_no > OFPP_MAX => b.port_no = OFPP_LOCAL, "INVALID_PORT_NO"),
    Check(b.config \subseteq PORT_CONFIG, "INVALID_PORT_CONFIG"),
    Check(b.mask \subseteq PORT_CONFIG, "INVALID_PORT_MASK"),
    Check(b.advertise \subseteq PORT_CONFIG, "INVALID_PORT_FEATURES") >>)

ValidateQueueReply(b, length) ==
  FirstError(<< ValidatePhyPortNo(b.port),
                ValidateQueues(b.queues, length) >>)

\* The checks behind the header; length is what the fixed part leaves.
ValidateBody(m) ==
  LET b == m.body
      length(size) == U16(m.hdr - size)
  IN CASE m.type = "FEATURES_REPLY" -> ValidateFeaturesReply(b, length(32))
       [] m.type \in {"GET_CONFIG_REPLY", "SET_CONFIG"} ->
            ValidateSwitchConfig(b)
       [] m.type = "PACKET_IN" -> ValidatePacketIn(b)
       [] m.type = "FLOW_REMOVED" -> ValidateFlowRemoved(b)
       [] m.type = "PORT_STATUS" -> ValidatePortStatus(b)
       [] m.type = "PACKET_OUT" -> ValidatePacketOut(b)
       [] m.type = "FLOW_MOD" -> ValidateFlowMod(b, length(72))
       [] m.type = "PORT_MOD" -> ValidatePortMod(b)
       [] m.type = "STATS_REQUEST" -> ValidateStatsRequestBody(b)
       [] m.type = "STATS_REPLY" ->
            ValidateStatsReplyBody(b, length(StatsHeaderSize))
       [] m.type = "QUEUE_GET_CONFIG_REQUEST" -> ValidatePhyPortNo(b.port)
       [] m.type = "QUEUE_GET_CONFIG_REPLY" ->
            ValidateQueueReply(b, length(16))
       [] OTHER -> OK

\* validate_openflow_message.  The kind of statistics is looked at before the
\* header.
Validate(m) ==
  IF m.type \notin Types THEN "UNDEFINED_TYPE"
  ELSE IF IsStats(m) /\ m.body.stype \notin StatsTypes
    THEN "UNSUPPORTED_STATS_TYPE"
  ELSE LET header ==
             ValidateHeader(m, m.type, Types, MinLength(m), MaxLength(m))
       IN IF header # OK THEN header ELSE ValidateBody(m)
-----------------------------------------------------------------------------
(***************************************************************************)
(* What a message is made of, whatever a switch sends.                     *)
(***************************************************************************)
\* The messages whose list has elements of their own length, that list, the
\* bytes the length fields give it, and the size of an element at least.
HasList(m) ==
  \/ m.type \in {"FLOW_MOD", "PACKET_OUT", "QUEUE_GET_CONFIG_REPLY"}
  \/ m.type = "STATS_REPLY" /\ m.body.stype = "FLOW"

ListOf(m) ==
  CASE m.type \in {"FLOW_MOD", "PACKET_OUT"} -> m.body.actions
    [] m.type = "STATS_REPLY" -> m.body.entries
    [] m.type = "QUEUE_GET_CONFIG_REPLY" -> m.body.queues

ListLength(m) ==
  CASE m.type = "FLOW_MOD" -> m.hdr - 72
    [] m.type = "PACKET_OUT" -> m.body.actions_len
    [] m.type = "STATS_REPLY" -> m.hdr - StatsHeaderSize
    [] m.type = "QUEUE_GET_CONFIG_REPLY" -> m.hdr - 16

ElementSize(m) ==
  CASE m.type = "STATS_REPLY" -> FlowStatsSize
    [] m.type = "QUEUE_GET_CONFIG_REPLY" -> QueueSize
    [] OTHER -> HeaderSize

\* A sequence, and one whose elements have a length of 16 bits.
IsSequence(list) == list \in Seq({list[i] : i \in DOMAIN list})
IsList(list) ==
  IsSequence(list) /\ \A i \in DOMAIN list : list[i].len \in 0 .. USHRT_MAX

\* The elements of a list that stand in so many bytes: a size, at least, of
\* the last one is there, though its own length may lead beyond the end.
Standing(list, size, bytes) ==
  \A i \in DOMAIN list : Bytes(list, i - 1) + size <= bytes

\* Length fields have 16 bits, and an element of a list begins in the message.
ASSUME BodiesAssumption ==
  \A m \in Messages :
    /\ m.type = "FEATURES_REPLY" => IsSequence(m.body.ports)
    /\ m.type = "STATS_REPLY" /\ m.body.stype \in DOMAIN EntrySize
         => IsSequence(m.body.entries)
    /\ HasList(m) => IsList(ListOf(m))
    /\ m.type = "STATS_REPLY" /\ HasList(m) =>
         \A i \in DOMAIN ListOf(m) : IsList(ListOf(m)[i].actions)
    /\ m.type = "QUEUE_GET_CONFIG_REPLY" =>
         \A i \in DOMAIN ListOf(m) : IsList(ListOf(m)[i].properties)
    /\ m.type = "PACKET_OUT" => m.body.actions_len \in 0 .. USHRT_MAX
    /\ m.type = "FLOW_MOD" =>
         {"match", "command", "priority", "out_port", "flags", "actions"}
           \subseteq DOMAIN m.body
    /\ HasList(m) /\ m.type # "PACKET_OUT" /\ m.hdr = m.len =>
         Standing(ListOf(m), ElementSize(m), ListLength(m))
-----------------------------------------------------------------------------
(***************************************************************************)
(* The answer to an invalid message, and the handler of a valid one.       *)
(***************************************************************************)
BadRequest(code) == <<"BAD_REQUEST", code>>
BadAction(code) == <<"BAD_ACTION", code>>

\* error_maps: the entries of every type, ...
HeaderMap(type) ==
  {<<"UNSUPPORTED_VERSION",
     IF type = "HELLO" THEN <<"HELLO_FAILED", "INCOMPATIBLE">>
     ELSE BadRequest("BAD_VERSION")>>,
   <<"TOO_SHORT_MESSAGE", BadRequest("BAD_LEN")>>,
   <<"TOO_LONG_MESSAGE", BadRequest("BAD_LEN")>>,
   <<"UNDEFINED_TYPE", BadRequest("BAD_TYPE")>>,
   <<"INVALID_TYPE", BadRequest("BAD_TYPE")>>}

\* ... those of messages with actions, ...
ActionMap ==
  {<<"INVALID_ACTION_TYPE", BadAction("BAD_TYPE")>>,
   <<"UNDEFINED_ACTION_TYPE", BadAction("BAD_TYPE")>>,
   <<"TOO_SHORT_ACTION_OF_TYPE", BadAction("BAD_LEN")>>,
   <<"TOO_LONG_ACTION_OF_TYPE", BadAction("BAD_LEN")>>,
   <<"INVALID_PORT_NO", BadAction("BAD_OUT_PORT")>>,
   <<"INVALID_VLAN_VID", BadAction("BAD_ARGUMENT")>>,
   <<"INVALID_VLAN_PCP", BadAction("BAD_ARGUMENT")>>}

Eperm(errors) == {<<e, BadRequest("EPERM")>> : e \in errors}

FlowModMap ==
  {<<e, <<"FLOW_MOD_FAILED", "EPERM">> >> :
     e \in {"INVALID_WILDCARDS", "INVALID_FLOW_PRIORITY",
            "INVALID_FLOW_MOD_FLAGS"}}
  \union {<<"UNDEFINED_FLOW_MOD_COMMAND",
            <<"FLOW_MOD_FAILED", "BAD_COMMAND">> >>}

StatsRequestMap ==
  {<<"UNSUPPORTED_STATS_TYPE", BadRequest("BAD_STAT")>>,
   <<"INVALID_STATS_TYPE", BadRequest("BAD_STAT")>>}
  \union Eperm({"INVALID_STATS_REQUEST_FLAGS", "INVALID_PORT_NO",
                "INVALID_WILDCARDS", "INVALID_VLAN_VID", "INVALID_VLAN_PCP",
                "INVALID_NW_TOS"})

\* ... and those of one type.
BodyMap(type) ==
  CASE type = "SET_CONFIG" -> Eperm({"INVALID_SWITCH_CONFIG"})
    [] type = "PACKET_IN" -> Eperm({"INVALID_PACKET_IN_REASON"})
    [] type = "FLOW_REMOVED" ->
         Eperm({"INVALID_FLOW_PRIORITY", "INVALID_FLOW_REMOVED_REASON"})
    [] type = "PORT_STATUS" -> Eperm({"INVALID_PORT_STATUS_REASON"})
    [] type = "PACKET_OUT" -> ActionMap
    [] type = "FLOW_MOD" -> ActionMap \union FlowModMap
    [] type = "PORT_MOD" ->
         {<<"INVALID_PORT_NO", <<"PORT_MOD_FAILED", "BAD_PORT">> >>}
         \union Eperm({"INVALID_PORT_CONFIG", "INVALID_PORT_MASK",
                       "INVALID_PORT_FEATURES"})
    [] type = "STATS_REQUEST" -> StatsRequestMap
    [] type = "QUEUE_GET_CONFIG_REQUEST" ->
         {<<"INVALID_PORT_NO", <<"QUEUE_OP_FAILED", "BAD_PORT">> >>}
    [] OTHER -> {}

\* Mutant: the entries of every type are left out for statistics.
M_NoStatsHeader(type) ==
  BodyMap(type)
  \union IF type = "STATS_REPLY" THEN {} ELSE HeaderMap(type)

ErrorMap(type) == BodyMap(type) \union HeaderMap(type)

\* cc_trans_error_type_and_code, with the default of its caller.
Translate(type, error) ==
  LET entries == {e \in ErrorMap(type) : e[1] = error}
  IN IF type \notin Types \/ entries = {} THEN BadRequest("BAD_TYPE")
     ELSE (CHOOSE e \in entries : TRUE)[2]

\* cc_select_handler.
Handlers ==
  [HELLO |-> "cc_recv_hello_msg", ERROR |-> "cc_recv_err_msg",
   ECHO_REQUEST |-> "cc_recv_echo_request",
   ECHO_REPLY |-> "cc_recv_echo_reply",
   VENDOR |-> "cc_recv_vendor", FLOW_REMOVED |-> "cc_recv_flow_removed",
   PORT_STATUS |-> "cc_recv_port_status",
   BARRIER_REPLY |-> "cc_recv_barrier_reply"]

\* What becomes of a message: the answer, and the handler that is started.
Accepted(m) ==
  <<NoAnswer,
    IF m.type \in DOMAIN Handlers THEN Handlers[m.type] ELSE "none">>

Refused(m, error) == <<Translate(m.type, error), "none">>

\* A validator that left the message may come back with any result or never.
Outcomes(m, result) ==
  CASE result = OK -> {Accepted(m)}
    [] result = BEYOND ->
         {Accepted(m), <<NoAnswer, "none">>}
         \union {<<e[2], "none">> : e \in ErrorMap(m.type)}
    [] OTHER -> {Refused(m, result)}
-----------------------------------------------------------------------------
Init ==
  /\ inbox = Null
  /\ last = Null
  /\ verdict = "none"
  /\ answer = NoAnswer
  /\ handler = "none"

\* cc_recv_from_secure_channel: less than a header is dropped, another
\* version is answered at once, the rest is queued.
Receive(m) ==
  /\ last = Null
  /\ last' = m
  /\ inbox' = IF m.len >= HeaderSize /\ m.version = OFP_VERSION
                THEN m ELSE Null
  /\ answer' = IF m.len >= HeaderSize /\ m.version # OFP_VERSION
                 THEN BadRequest("BAD_VERSION") ELSE NoAnswer
  /\ UNCHANGED <<verdict, handler>>

\* cc_ofpmsg_handle.
Handle ==
  /\ inbox # Null
  /\ inbox' = Null
  /\ verdict' = Validate(inbox)
  /\ \E outcome \in Outcomes(inbox, verdict') :
       /\ answer' = outcome[1]
       /\ handler' = outcome[2]
  /\ UNCHANGED last

\* The event is over: what was local to its calls is gone.
Return ==
  /\ last # Null /\ inbox = Null
  /\ last' = Null /\ verdict' = "none"
  /\ answer' = NoAnswer /\ handler' = "none"
  /\ UNCHANGED inbox

Next == (\E m \in Messages : Receive(m)) \/ Handle \/ Return

Spec == Init /\ [][Next]_vars
-----------------------------------------------------------------------------
(***************************************************************************)
(* Properties.                                                             *)
(***************************************************************************)
\* A message has been judged, and its type and statistics are known.
Judged == verdict # "none"
Known ==
  last.type \in Types /\ (IsStats(last) => last.body.stype \in StatsTypes)

FillsItsLength(e, size, list) == size + Bytes(list, Len(list)) = e.len

\* The parts of the list fill its bytes exactly, and so do the parts of a part.
Tiles(m) ==
  HasList(m) =>
    LET list == ListOf(m) IN
    /\ Bytes(list, Len(list)) = ListLength(m)
    /\ m.type = "STATS_REPLY" =>
         \A i \in DOMAIN list :
           FillsItsLength(list[i], FlowStatsSize, list[i].actions)
    /\ m.type = "QUEUE_GET_CONFIG_REPLY" =>
         \A i \in DOMAIN list :
           FillsItsLength(list[i], QueueSize, list[i].properties)

\* An answer and a handler never go together, and a handler is one of those
\* cc_select_handler knows.
TypeOK ==
  /\ inbox \in {last, Null}
  /\ handler \in {Handlers[t] : t \in DOMAIN Handlers} \union {"none"}
  /\ answer # NoAnswer => handler = "none"
  /\ inbox # Null => verdict = "none" /\ answer = NoAnswer

\* A handler may rely on it: a message that was accepted has as many bytes as
\* its header says and as its type needs, whichever validator judged it.
AcceptedSizes ==
  verdict \in {OK, BEYOND} =>
    /\ last.hdr = last.len
    /\ MinLength(last) <= last.len /\ last.len <= MaxLength(last)

\* openflow.h: BAD_LEN is "Wrong request length for type".  A message of a
\* known type whose length is wrong for it gets that answer, whatever else is
\* wrong with it.  A hello may have a body, which is to be ignored, so none is
\* too long for its type: that the code refuses it is left open here.
LengthAnswered ==
  /\ Judged /\ Known
  /\ \/ last.hdr # last.len
     \/ last.hdr < MinLength(last)
     \/ last.hdr > MaxLength(last) /\ last.type # "HELLO"
  => answer = BadRequest("BAD_LEN")

\* A statistics reply or queue reply that is found good by its own bytes is
\* filled by its flows or queues: the countdown of a 16-bit length never takes a
\* part that is longer than what is left for the last one.  It wraps instead,
\* the validator reads on behind the message (BEYOND), and what stands there
\* may pass: of such a message nothing is promised.
GoodListsFill ==
  /\ verdict = OK /\ HasList(last)
  /\ last.type \in {"STATS_REPLY", "QUEUE_GET_CONFIG_REPLY"}
  => Bytes(ListOf(last), Len(ListOf(last))) = ListLength(last)

\* A validator leaves the message only if the length fields in it disagree.
BeyondOnlyIfMisfit == verdict = BEYOND => ~Tiles(last)

\* The actions of a flow_mod that fill it are judged like their first bad one,
\* the one that stands at the very end included.
FirstBadActionDecides ==
  /\ verdict \notin {"none", BEYOND} /\ last.type = "FLOW_MOD" /\ Tiles(last)
  /\ ValidateHeader(last, "FLOW_MOD", Types, 72, USHRT_MAX) = OK
  /\ ValidateFlowMod([last.body EXCEPT !.actions = <<>>], 0) = OK
  => verdict = FirstOf(last.body.actions, ValidateAction)
=============================================================================
