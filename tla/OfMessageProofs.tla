--------------------------- MODULE OfMessageProofs ---------------------------
(***************************************************************************)
(* What holds of the judgement of a message whatever a switch sends.       *)
(*                                                                         *)
(* The invariant ties the three places a message goes through: what is in  *)
(* the queue is what was read last, and the verdict is about that message. *)
(* The rest is about the validators.  For validate_header: what a message  *)
(* is like that passes it, and which errors the others get.  For the loops *)
(* over lists, by induction over the naturals: what the lengths of a list  *)
(* add up to, and that each loop is a search for the first position where  *)
(* it stops.                                                               *)
(***************************************************************************)
EXTENDS OfMessage, WellFoundedInduction, TLAPS

\* The order of the naturals, which is well founded.
Below == {p \in Nat \X Nat : p[1] < p[2]}

\* Every set of naturals has a least element.
LEMMA Least ==
  ASSUME NEW T, T \subseteq Nat, T # {}
  PROVE  \E x \in T : \A y \in T : x <= y
<1>1. IsWellFoundedOn(Below, Nat)
  BY NatLessThanWellFounded DEF OpToRel, Below
<1>2. PICK x \in T : \A y \in T : <<y, x>> \notin Below
  BY <1>1, WFMin
<1>3. ASSUME NEW y \in T PROVE x <= y
  <2>1. x \in Nat /\ y \in Nat
    OBVIOUS
  <2>2. <<y, x>> \in Nat \X Nat /\ <<y, x>>[1] = y /\ <<y, x>>[2] = x
    BY <2>1
  <2>3. ~(y < x)
    BY <1>2, <2>2 DEF Below
  <2>. QED
    BY <2>1, <2>3
<1>. QED
  BY <1>3

\* A set of naturals that is closed under successors holds them all.
LEMMA SetInduction ==
  ASSUME NEW S, 0 \in S, \A n \in Nat : n \in S => n + 1 \in S
  PROVE  Nat \subseteq S
<1>. SUFFICES ASSUME Nat \ S # {} PROVE FALSE
  OBVIOUS
<1>1. PICK x \in Nat \ S : \A y \in Nat \ S : x <= y
  <2>. DEFINE T == Nat \ S
  <2>1. T \subseteq Nat /\ T # {}
    OBVIOUS
  <2>2. \E x \in T : \A y \in T : x <= y
    <3>. HIDE DEF T
    <3>. QED
      BY <2>1, Least
  <2>. QED
    BY <2>2
<1>2. x - 1 \in Nat \ S
  OBVIOUS
<1>. QED
  BY <1>1, <1>2

\* All checks of a series hold, or the first error among them is the result.
LEMMA FirstErrorOf ==
  ASSUME NEW n \in Nat, NEW s, DOMAIN s = 1 .. n
  PROVE  \/ /\ FirstError(s) = OK
            /\ \A i \in 1 .. n : s[i] = OK
         \/ \E i \in 1 .. n : /\ FirstError(s) = s[i] /\ s[i] # OK
                              /\ \A j \in 1 .. i - 1 : s[j] = OK
<1>1. CASE \A i \in 1 .. n : s[i] = OK
  BY <1>1 DEF FirstError
<1>2. CASE \E i \in 1 .. n : s[i] # OK
  <2>. DEFINE First(x) == s[x] # OK /\ \A j \in 1 .. x - 1 : s[j] = OK
              Bad == {i \in 1 .. n : s[i] # OK}
  <2>1. Bad \subseteq Nat /\ Bad # {}
    BY <1>2
  <2>2. \E x \in Bad : \A y \in Bad : x <= y
    <3>. HIDE DEF Bad
    <3>. QED
      BY <2>1, Least
  <2>3. \E i \in DOMAIN s : First(i)
    BY <2>2
  <2>. DEFINE c == CHOOSE x \in DOMAIN s : First(x)
  <2>4. c \in DOMAIN s /\ First(c)
    BY <2>3
  <2>5. FirstError(s) = s[c]
    BY <1>2 DEF FirstError
  <2>. QED
    BY <2>4, <2>5
<1>. QED
  BY <1>1, <1>2

\* Two functions that begin alike and go on alike are alike.
LEMMA SameRecursion ==
  ASSUME NEW k \in Nat, NEW f, NEW g, f[0] = g[0],
         \A i \in 1 .. k : f[i - 1] = g[i - 1] => f[i] = g[i]
  PROVE  \A i \in 0 .. k : f[i] = g[i]
<1>. DEFINE S == {i \in Nat : i <= k => f[i] = g[i]}
<1>1. 0 \in S
  OBVIOUS
<1>2. ASSUME NEW n \in Nat, n \in S
      PROVE  n + 1 \in S
  <2>. SUFFICES ASSUME n + 1 <= k
                PROVE  f[n + 1] = g[n + 1]
    OBVIOUS
  <2>1. f[n] = g[n] /\ n + 1 \in 1 .. k /\ (n + 1) - 1 = n
    BY <1>2
  <2>. QED
    BY <2>1
<1>3. Nat \subseteq S
  <2>. HIDE DEF S
  <2>. QED
    BY <1>1, <1>2, SetInduction
<1>. QED
  BY <1>3
-----------------------------------------------------------------------------
\* The same for the nine checks of validate_header.
LEMMA FirstErrorIs ==
  ASSUME NEW s, DOMAIN s = 1 .. 9
  PROVE  \/ /\ FirstError(s) = OK
            /\ \A i \in 1 .. 9 : s[i] = OK
         \/ \E i \in 1 .. 9 : /\ FirstError(s) = s[i] /\ s[i] # OK
                              /\ \A j \in 1 .. i - 1 : s[j] = OK
<1>. DEFINE n == 9
<1>1. n \in Nat /\ DOMAIN s = 1 .. n
  OBVIOUS
<1>. HIDE DEF n
<1>2. \/ /\ FirstError(s) = OK
         /\ \A i \in 1 .. n : s[i] = OK
      \/ \E i \in 1 .. n : /\ FirstError(s) = s[i] /\ s[i] # OK
                           /\ \A j \in 1 .. i - 1 : s[j] = OK
  BY <1>1, FirstErrorOf
<1>. QED
  BY <1>2 DEF n

\* validate_header accepts a message only if its length is what was read and
\* within the limits.
LEMMA HeaderAccepts ==
  ASSUME NEW m, m.hdr \in Nat, m.len \in Nat,
         NEW type, NEW types, NEW min, NEW max,
         ValidateHeader(m, type, types, min, max) = OK
  PROVE  m.hdr = m.len /\ m.hdr >= min /\ m.hdr <= max
<1>. DEFINE s == <<
       Check(m.len >= HeaderSize, "TOO_SHORT_MESSAGE"),
       Check(m.version = OFP_VERSION, "UNSUPPORTED_VERSION"),
       Check(m.type \in types, "UNDEFINED_TYPE"),
       Check(m.type = type, "INVALID_TYPE"),
       Check(m.hdr <= max, "TOO_LONG_MESSAGE"),
       Check(m.hdr >= min, "TOO_SHORT_MESSAGE"),
       Check(m.hdr >= m.len, "TOO_LONG_MESSAGE"),
       Check(~ShortRead(m), "TOO_SHORT_MESSAGE"),
       Check(m.len <= max, "TOO_LONG_MESSAGE") >>
<1>1. FirstError(s) = OK
  BY DEF ValidateHeader
<1>2. DOMAIN s = 1 .. 9
  OBVIOUS
<1>3. \A i \in 1 .. 9 : s[i] = OK
  <2>. HIDE DEF s
  <2>. QED
    BY <1>1, <1>2, FirstErrorIs
<1>4. s[5] = OK /\ s[6] = OK /\ s[7] = OK /\ s[8] = OK
  <2>. HIDE DEF s
  <2>. QED
    BY <1>3
<1>5. m.hdr <= max
  BY <1>4 DEF Check, OK
<1>6. m.hdr >= min
  BY <1>4 DEF Check, OK
<1>7. m.hdr >= m.len /\ ~(m.hdr > m.len)
  BY <1>4 DEF Check, OK, ShortRead
<1>. QED
  BY <1>5, <1>6, <1>7

\* What validate_header says of a message it does not accept.
LEMMA HeaderRefuses ==
  ASSUME NEW m, NEW type, NEW types, NEW min, NEW max
  PROVE  ValidateHeader(m, type, types, min, max)
           \in {OK, "TOO_SHORT_MESSAGE", "UNSUPPORTED_VERSION",
                "UNDEFINED_TYPE", "INVALID_TYPE", "TOO_LONG_MESSAGE"}
<1>. DEFINE s == <<
       Check(m.len >= HeaderSize, "TOO_SHORT_MESSAGE"),
       Check(m.version = OFP_VERSION, "UNSUPPORTED_VERSION"),
       Check(m.type \in types, "UNDEFINED_TYPE"),
       Check(m.type = type, "INVALID_TYPE"),
       Check(m.hdr <= max, "TOO_LONG_MESSAGE"),
       Check(m.hdr >= min, "TOO_SHORT_MESSAGE"),
       Check(m.hdr >= m.len, "TOO_LONG_MESSAGE"),
       Check(~ShortRead(m), "TOO_SHORT_MESSAGE"),
       Check(m.len <= max, "TOO_LONG_MESSAGE") >>
     Errors == {OK, "TOO_SHORT_MESSAGE", "UNSUPPORTED_VERSION",
                "UNDEFINED_TYPE", "INVALID_TYPE", "TOO_LONG_MESSAGE"}
<1>1. DOMAIN s = 1 .. 9
  OBVIOUS
<1>2. \A i \in 1 .. 9 : s[i] \in Errors
  BY DEF Check
<1>3. FirstError(s) \in Errors
  <2>. HIDE DEF s
  <2>. QED
    BY <1>1, <1>2, FirstErrorIs
<1>. QED
  BY <1>3 DEF ValidateHeader

\* The verdict is OK, or left to the memory, only behind an accepted header.
LEMMA AcceptedHeader ==
  ASSUME NEW m \in Messages, Validate(m) \in {OK, BEYOND}
  PROVE  ValidateHeader(m, m.type, Types, MinLength(m), MaxLength(m)) = OK
<1>. DEFINE header ==
       ValidateHeader(m, m.type, Types, MinLength(m), MaxLength(m))
<1>1. header # BEYOND
  BY HeaderRefuses DEF OK, BEYOND
<1>. HIDE DEF header
<1>2. Validate(m) \in {"UNDEFINED_TYPE", "UNSUPPORTED_STATS_TYPE", header}
      \/ header = OK
  BY DEF Validate, header
<1>3. header = OK
  BY <1>1, <1>2 DEF OK, BEYOND
<1>. QED
  BY <1>3 DEF header
-----------------------------------------------------------------------------
\* What is queued was read last, and is judged once.
IInv ==
  /\ last \in Messages \union {Null}
  /\ inbox \in {last, Null}
  /\ inbox # Null \/ last = Null => verdict = "none"
  /\ AcceptedSizes

\* Reading, judging and leaving a message keep the verdict about it.
LEMMA Invariance == Spec => []IInv
<1>1. Init => IInv
  BY DEF Init, IInv, AcceptedSizes, OK, BEYOND
<1>2. IInv /\ [Next]_vars => IInv'
  <2>. SUFFICES ASSUME IInv, [Next]_vars PROVE IInv'
    OBVIOUS
  <2>1. CASE UNCHANGED vars
    BY <2>1 DEF vars, IInv, AcceptedSizes, MinLength, MaxLength, IsStats
  <2>2. ASSUME NEW m \in Messages, Receive(m) PROVE IInv'
    <3>1. last' = m /\ inbox' \in {m, Null} /\ verdict' = verdict
      BY <2>2 DEF Receive
    <3>2. last = Null
      BY <2>2 DEF Receive
    <3>3. verdict = "none"
      BY <3>2, <2>2 DEF IInv
    <3>. QED
      BY <3>1, <3>3 DEF IInv, AcceptedSizes, OK, BEYOND
  <2>3. CASE Handle
    <3>1. /\ inbox \in Messages /\ inbox = last /\ last' = last
          /\ inbox' = Null /\ verdict' = Validate(last)
      BY <2>3 DEF Handle, IInv
    <3>2. ASSUME verdict' \in {OK, BEYOND}
          PROVE  /\ last.hdr = last.len
                 /\ MinLength(last) <= last.len /\ last.len <= MaxLength(last)
      <4>1. last.hdr \in Nat /\ last.len \in Nat
        BY <3>1, MessagesAssumption
      <4>2. ValidateHeader(last, last.type, Types, MinLength(last),
                           MaxLength(last)) = OK
        BY <3>1, <3>2, AcceptedHeader
      <4>. QED
        BY <4>1, <4>2, HeaderAccepts
    <3>3. AcceptedSizes'
      BY <3>1, <3>2 DEF AcceptedSizes
    <3>. QED
      BY <3>1, <3>3, MessagesAssumption DEF IInv
  <2>4. CASE Return
    BY <2>4 DEF Return, IInv, AcceptedSizes, OK, BEYOND
  <2>. QED
    BY <2>1, <2>2, <2>3, <2>4 DEF Next
<1>. QED
  BY <1>1, <1>2, PTL DEF Spec

\* A message that is given to a handler has the length its header says and its
\* type allows, whatever the switch sends.
THEOREM SizesAccepted == Spec => []AcceptedSizes
<1>1. IInv => AcceptedSizes
  BY DEF IInv
<1>. QED
  BY <1>1, Invariance, PTL
-----------------------------------------------------------------------------
\* Only the length of the message is wrong, so that is what validate_header
\* says: the checks in front of it hold of every message that is judged.
LEMMA HeaderNamesLength ==
  ASSUME NEW m, m.hdr \in Nat, m.len \in Nat, m.len >= HeaderSize,
         m.version = OFP_VERSION, m.type \in Types,
         NEW min \in Nat, NEW max \in Nat,
         m.hdr # m.len \/ m.hdr < min \/ m.hdr > max
  PROVE  ValidateHeader(m, m.type, Types, min, max)
           \in {"TOO_SHORT_MESSAGE", "TOO_LONG_MESSAGE"}
<1>. DEFINE s == <<
       Check(m.len >= HeaderSize, "TOO_SHORT_MESSAGE"),
       Check(m.version = OFP_VERSION, "UNSUPPORTED_VERSION"),
       Check(m.type \in Types, "UNDEFINED_TYPE"),
       Check(m.type = m.type, "INVALID_TYPE"),
       Check(m.hdr <= max, "TOO_LONG_MESSAGE"),
       Check(m.hdr >= min, "TOO_SHORT_MESSAGE"),
       Check(m.hdr >= m.len, "TOO_LONG_MESSAGE"),
       Check(~ShortRead(m), "TOO_SHORT_MESSAGE"),
       Check(m.len <= max, "TOO_LONG_MESSAGE") >>
<1>1. DOMAIN s = 1 .. 9
  OBVIOUS
<1>2. \A i \in 1 .. 9 :
        s[i] \in {OK, "TOO_SHORT_MESSAGE", "TOO_LONG_MESSAGE"}
  BY DEF Check
<1>3. FirstError(s) \in {OK, "TOO_SHORT_MESSAGE", "TOO_LONG_MESSAGE"}
  <2>. HIDE DEF s
  <2>. QED
    BY <1>1, <1>2, FirstErrorIs
<1>4. FirstError(s) # OK
  BY HeaderAccepts DEF ValidateHeader
<1>. QED
  BY <1>3, <1>4 DEF ValidateHeader

\* error_maps answers a wrong length alike for every type.
LEMMA LengthTranslated ==
  ASSUME NEW type \in Types,
         NEW error \in {"TOO_SHORT_MESSAGE", "TOO_LONG_MESSAGE"}
  PROVE  Translate(type, error) = BadRequest("BAD_LEN")
<1>. DEFINE entries == {e \in ErrorMap(type) : e[1] = error}
<1>1. \A e \in HeaderMap(type) : e[1] = error => e[2] = BadRequest("BAD_LEN")
  BY DEF HeaderMap
<1>2. \A e \in BodyMap(type) : e[1] # error
  <2>1. \A e \in ActionMap \union FlowModMap : e[1] # error
    BY DEF ActionMap, FlowModMap
  <2>2. \A e \in StatsRequestMap : e[1] # error
    BY DEF StatsRequestMap, Eperm
  <2>. QED
    BY <2>1, <2>2 DEF BodyMap, Eperm
<1>3. <<error, BadRequest("BAD_LEN")>> \in HeaderMap(type)
  BY DEF HeaderMap
<1>4. entries # {}
  BY <1>3 DEF ErrorMap
<1>5. \A e \in entries : e[2] = BadRequest("BAD_LEN")
  BY <1>1, <1>2 DEF ErrorMap
<1>. HIDE DEF entries
<1>6. (CHOOSE e \in entries : TRUE)[2] = BadRequest("BAD_LEN")
  BY <1>4, <1>5
<1>. QED
  BY <1>4, <1>6 DEF Translate, entries

\* The limits are numbers.
LEMMA Limits ==
  ASSUME NEW m, m.type \in Types,
         IsStats(m) => m.body.stype \in StatsTypes
  PROVE  MinLength(m) \in Nat /\ MaxLength(m) \in Nat
<1>1. \A t \in Types : MinSize[t] \in Nat
  BY DEF Types, MinSize
<1>2. \A t \in StatsTypes : StatsRequestSize[t] \in Nat
  BY DEF StatsTypes, StatsRequestSize
<1>3. MinLength(m) \in Nat
  BY <1>1, <1>2 DEF MinLength, IsStats
<1>4. \A t : StatsReplyMax(t) \in Nat
  BY DEF StatsReplyMax, StatsHeaderSize, USHRT_MAX
<1>. QED
  BY <1>3, <1>4 DEF MaxLength, USHRT_MAX

\* A message with a wrong length is refused with the answer for that.
LEMMA LengthRefused ==
  ASSUME NEW m \in Messages, m.len >= HeaderSize, m.version = OFP_VERSION,
         m.type \in Types, IsStats(m) => m.body.stype \in StatsTypes,
         \/ m.hdr # m.len
         \/ m.hdr < MinLength(m)
         \/ m.hdr > MaxLength(m),
         NEW outcome \in Outcomes(m, Validate(m))
  PROVE  outcome[1] = BadRequest("BAD_LEN")
<1>. DEFINE header ==
       ValidateHeader(m, m.type, Types, MinLength(m), MaxLength(m))
<1>1. m.hdr \in Nat /\ m.len \in Nat
  BY MessagesAssumption
<1>2. header \in {"TOO_SHORT_MESSAGE", "TOO_LONG_MESSAGE"}
  BY <1>1, Limits, HeaderNamesLength
<1>3. Validate(m) = header
  BY <1>2 DEF Validate, OK
<1>. HIDE DEF header
<1>4. outcome = Refused(m, header)
  BY <1>2, <1>3 DEF Outcomes, OK, BEYOND
<1>. QED
  BY <1>2, <1>4, LengthTranslated DEF Refused

\* What is queued has a header of this version.
LInv ==
  /\ IInv
  /\ inbox # Null => inbox.len >= HeaderSize /\ inbox.version = OFP_VERSION
  /\ LengthAnswered

\* Every message that is judged is answered by its length if that is wrong.
LEMMA LengthInvariance == Spec => []LInv
<1>1. Init => LInv
  BY DEF Init, LInv, IInv, AcceptedSizes, LengthAnswered, Judged, OK, BEYOND
<1>2. LInv /\ IInv' /\ [Next]_vars => LInv'
  <2>. SUFFICES ASSUME LInv, IInv', [Next]_vars PROVE LInv'
    OBVIOUS
  <2>1. CASE UNCHANGED vars
    BY <2>1 DEF vars, LInv, LengthAnswered, Judged, Known, IsStats,
                MinLength, MaxLength
  <2>2. ASSUME NEW m \in Messages, Receive(m) PROVE LInv'
    <3>1. verdict' = "none"
      BY <2>2 DEF Receive, LInv, IInv
    <3>2. inbox' # Null => inbox'.len >= HeaderSize
                            /\ inbox'.version = OFP_VERSION
      BY <2>2 DEF Receive
    <3>. QED
      BY <3>1, <3>2 DEF LInv, LengthAnswered, Judged
  <2>3. CASE Handle
    <3>1. /\ last \in Messages /\ inbox = last /\ last' = last
          /\ inbox' = Null /\ verdict' = Validate(last)
          /\ last.len >= HeaderSize /\ last.version = OFP_VERSION
      BY <2>3 DEF Handle, LInv, IInv
    <3>2. PICK outcome \in Outcomes(last, Validate(last)) :
            answer' = outcome[1]
      BY <2>3, <3>1 DEF Handle
    <3>3. LengthAnswered'
      BY <3>1, <3>2, LengthRefused
         DEF LengthAnswered, Known, IsStats, MinLength, MaxLength
    <3>. QED
      BY <3>1, <3>3 DEF LInv
  <2>4. CASE Return
    BY <2>4 DEF Return, LInv, LengthAnswered, Judged
  <2>. QED
    BY <2>1, <2>2, <2>3, <2>4 DEF Next
<1>. QED
  BY <1>1, <1>2, Invariance, PTL DEF Spec

\* Whatever else is wrong with it, a message whose length is not the one its
\* header says, or not one its type may have, is answered with BAD_LEN.  Of a
\* hello that is longer than its header the theorem says nothing.
THEOREM LengthErrors == Spec => []LengthAnswered
<1>1. LInv => LengthAnswered
  BY DEF LInv
<1>. QED
  BY <1>1, LengthInvariance, PTL

\* An answer and a handler never go together, for no outcome has both.
LEMMA OneOutcome ==
  ASSUME NEW m, NEW result, NEW outcome \in Outcomes(m, result)
  PROVE  /\ outcome[2] \in {Handlers[t] : t \in DOMAIN Handlers}
                            \union {"none"}
         /\ outcome[1] # NoAnswer => outcome[2] = "none"
<1>1. CASE outcome = Accepted(m)
  BY <1>1 DEF Accepted
<1>2. CASE outcome = Refused(m, result)
  BY <1>2 DEF Refused
<1>3. CASE outcome = <<NoAnswer, "none">>
  BY <1>3
<1>4. ASSUME NEW e \in ErrorMap(m.type), outcome = <<e[2], "none">>
      PROVE outcome[2] = "none"
  BY <1>4
<1>. QED
  BY <1>1, <1>2, <1>3, <1>4 DEF Outcomes

\* Between two events no handler runs.
TInv == TypeOK /\ (last = Null => handler = "none")

\* Whatever a switch sends, a message is either answered or handed to one of
\* the handlers that cc_select_handler knows, never both.
THEOREM TypeCorrect == Spec => []TypeOK
<1>1. Init => TInv
  BY DEF Init, TInv, TypeOK
<1>2. TInv /\ IInv /\ [Next]_vars => TInv'
  <2>. SUFFICES ASSUME TInv, IInv, [Next]_vars PROVE TInv'
    OBVIOUS
  <2>1. CASE UNCHANGED vars
    BY <2>1 DEF vars, TInv, TypeOK
  <2>2. ASSUME NEW m \in Messages, Receive(m) PROVE TInv'
    BY <2>2 DEF Receive, TInv, TypeOK, IInv
  <2>3. CASE Handle
    <3>1. PICK outcome \in Outcomes(inbox, Validate(inbox)) :
            answer' = outcome[1] /\ handler' = outcome[2]
      BY <2>3 DEF Handle
    <3>2. inbox' = Null /\ last' # Null
      BY <2>3 DEF Handle, IInv
    <3>. QED
      BY <3>1, <3>2, OneOutcome DEF TInv, TypeOK
  <2>4. CASE Return
    BY <2>4 DEF Return, TInv, TypeOK
  <2>. QED
    BY <2>1, <2>2, <2>3, <2>4 DEF Next
<1>3. TInv => TypeOK
  BY DEF TInv
<1>. QED
  BY <1>1, <1>2, <1>3, Invariance, PTL DEF Spec
-----------------------------------------------------------------------------
\* The sums of the first lengths of a list, up to the n-th.
IsSum(w, list, n) ==
  w = [i \in 0 .. n |-> IF i = 0 THEN 0 ELSE w[i - 1] + list[i].len]

\* There are such sums for every list and every n.
LEMMA SumExists ==
  ASSUME NEW list, NEW n \in Nat
  PROVE  \E w : IsSum(w, list, n)
<1>. DEFINE S == {k \in Nat : \E w : IsSum(w, list, k)}
<1>1. 0 \in S
  <2>1. IsSum([i \in 0 .. 0 |-> 0], list, 0)
    BY DEF IsSum
  <2>. QED
    BY <2>1
<1>2. ASSUME NEW k \in Nat, k \in S
      PROVE  k + 1 \in S
  <2>1. PICK w : IsSum(w, list, k)
    BY <1>2
  <2>2. PICK v : v = [i \in 0 .. k + 1 |->
                       IF i = k + 1 THEN w[k] + list[k + 1].len ELSE w[i]]
    OBVIOUS
  <2>3. ASSUME NEW i \in 0 .. k + 1
        PROVE  v[i] = IF i = 0 THEN 0 ELSE v[i - 1] + list[i].len
    <3>1. CASE i = k + 1
      BY <2>2, <3>1
    <3>2. CASE i # k + 1
      <4>1. i \in 0 .. k /\ v[i] = w[i] /\ (i # 0 => v[i - 1] = w[i - 1])
        BY <2>2, <3>2
      <4>2. w[i] = IF i = 0 THEN 0 ELSE w[i - 1] + list[i].len
        BY <2>1, <4>1 DEF IsSum
      <4>. QED
        BY <4>1, <4>2
    <3>. QED
      BY <3>1, <3>2
  <2>4. IsSum(v, list, k + 1)
    BY <2>2, <2>3 DEF IsSum
  <2>. QED
    BY <2>4
<1>3. Nat \subseteq S
  <2>. HIDE DEF S
  <2>. QED
    BY <1>1, <1>2, SetInduction
<1>. QED
  BY <1>3

\* Bytes is the last of them.
LEMMA BytesIs ==
  ASSUME NEW list, NEW n \in Nat, NEW w, IsSum(w, list, n)
  PROVE  Bytes(list, n) = w[n]
<1>. DEFINE W == CHOOSE v : IsSum(v, list, n)
<1>1. IsSum(W, list, n)
  BY SumExists
<1>2. Bytes(list, n) = W[n]
  BY DEF Bytes, IsSum
<1>. HIDE DEF W
<1>3. W[0] = w[0] /\ \A i \in 1 .. n : W[i - 1] = w[i - 1] => W[i] = w[i]
  BY <1>1 DEF IsSum
<1>. QED
  BY <1>2, <1>3, SameRecursion

\* The next element takes its length.
LEMMA BytesRec ==
  ASSUME NEW list, NEW n \in Nat
  PROVE  /\ Bytes(list, 0) = 0
         /\ Bytes(list, n + 1) = Bytes(list, n) + list[n + 1].len
<1>1. PICK z : IsSum(z, list, 0)
  BY SumExists
<1>2. Bytes(list, 0) = 0
  <2>1. Bytes(list, 0) = z[0]
    BY <1>1, BytesIs
  <2>2. z[0] = 0
    BY <1>1 DEF IsSum
  <2>. QED
    BY <2>1, <2>2
<1>3. PICK w : IsSum(w, list, n + 1)
  BY SumExists
<1>4. w[n + 1] = w[n] + list[n + 1].len
  BY <1>3 DEF IsSum
<1>5. PICK v : IsSum(v, list, n)
  BY SumExists
<1>6. v[0] = w[0] /\ \A i \in 1 .. n : v[i - 1] = w[i - 1] => v[i] = w[i]
  BY <1>3, <1>5 DEF IsSum
<1>7. v[n] = w[n]
  BY <1>6, SameRecursion
<1>. QED
  BY <1>2, <1>3, <1>4, <1>5, <1>7, BytesIs

\* The same for a list whose lengths have 16 bits.
LEMMA BytesStep ==
  ASSUME NEW list, IsList(list)
  PROVE  /\ Len(list) \in Nat /\ DOMAIN list = 1 .. Len(list)
         /\ \A n \in 0 .. Len(list) : Bytes(list, n) \in Nat
         /\ \A n \in 1 .. Len(list) :
              Bytes(list, n) = Bytes(list, n - 1) + list[n].len
<1>1. Len(list) \in Nat /\ DOMAIN list = 1 .. Len(list)
  BY DEF IsList, IsSequence
<1>2. \A n \in 1 .. Len(list) : list[n].len \in Nat
  BY <1>1 DEF IsList
<1>3. ASSUME NEW n \in 1 .. Len(list)
      PROVE  Bytes(list, n) = Bytes(list, n - 1) + list[n].len
  <2>1. n - 1 \in Nat /\ (n - 1) + 1 = n
    BY <1>1
  <2>. QED
    BY <2>1, BytesRec
<1>. DEFINE S == {n \in Nat : n <= Len(list) => Bytes(list, n) \in Nat}
<1>4. 0 \in S
  BY BytesRec
<1>5. ASSUME NEW n \in Nat, n \in S
      PROVE  n + 1 \in S
  <2>. SUFFICES ASSUME n + 1 <= Len(list)
                PROVE  Bytes(list, n + 1) \in Nat
    OBVIOUS
  <2>1. n + 1 \in 1 .. Len(list) /\ Bytes(list, n) \in Nat
    BY <1>1, <1>5
  <2>2. Bytes(list, n + 1) = Bytes(list, n) + list[n + 1].len
    BY BytesRec
  <2>3. list[n + 1].len \in Nat
    BY <1>2, <2>1
  <2>. QED
    BY <2>1, <2>2, <2>3
<1>6. Nat \subseteq S
  <2>. HIDE DEF S
  <2>. QED
    BY <1>4, <1>5, SetInduction
<1>. QED
  BY <1>1, <1>3, <1>6

\* More elements take no fewer bytes.
LEMMA BytesMono ==
  ASSUME NEW list, IsList(list), NEW i \in 0 .. Len(list)
  PROVE  \A j \in i .. Len(list) : Bytes(list, i) <= Bytes(list, j)
<1>. DEFINE S == {d \in Nat : i + d <= Len(list)
                               => Bytes(list, i) <= Bytes(list, i + d)}
<1>0. /\ Len(list) \in Nat /\ DOMAIN list = 1 .. Len(list)
      /\ \A n \in 0 .. Len(list) : Bytes(list, n) \in Nat
  BY BytesStep
<1>1. 0 \in S
  BY <1>0
<1>2. ASSUME NEW d \in Nat, d \in S
      PROVE  d + 1 \in S
  <2>. SUFFICES ASSUME i + (d + 1) <= Len(list)
                PROVE  Bytes(list, i) <= Bytes(list, i + (d + 1))
    OBVIOUS
  <2>1. i + (d + 1) \in 1 .. Len(list) /\ (i + (d + 1)) - 1 = i + d
    BY <1>0
  <2>2. Bytes(list, i + (d + 1))
          = Bytes(list, i + d) + list[i + (d + 1)].len
    BY <2>1, BytesStep
  <2>3. list[i + (d + 1)].len \in Nat
    BY <1>0, <2>1 DEF IsList
  <2>4. Bytes(list, i) <= Bytes(list, i + d)
    BY <1>0, <1>2, <2>1
  <2>. QED
    BY <1>0, <2>1, <2>2, <2>3, <2>4
<1>3. Nat \subseteq S
  <2>. HIDE DEF S
  <2>. QED
    BY <1>1, <1>2, SetInduction
<1>. QED
  <2>. SUFFICES ASSUME NEW j \in i .. Len(list)
                PROVE  Bytes(list, i) <= Bytes(list, j)
    OBVIOUS
  <2>1. j - i \in Nat /\ i + (j - i) = j
    BY <1>0
  <2>2. j - i \in S
    BY <1>3, <2>1
  <2>. QED
    BY <2>1, <2>2
-----------------------------------------------------------------------------
\* What a search gives that stops at the first position of a set.
IsSearch(w, n, stop, val) ==
  w = [i \in 1 .. n |-> IF i \in stop THEN val[i] ELSE w[i + 1]]

\* The first position of the set from i on.
NextStop(i, n, stop) ==
  CHOOSE j \in i .. n : j \in stop /\ \A l \in i .. j - 1 : l \notin stop

\* It is in the set, nothing before it is, and no other position is so.
LEMMA NextStopIs ==
  ASSUME NEW n \in Nat, NEW stop, n \in stop, NEW i \in 1 .. n
  PROVE  /\ NextStop(i, n, stop) \in (i .. n) \intersect stop
         /\ \A l \in i .. NextStop(i, n, stop) - 1 : l \notin stop
         /\ \A j \in i .. n :
              j \in stop /\ (\A l \in i .. j - 1 : l \notin stop)
                => j = NextStop(i, n, stop)
<1>. DEFINE T == (i .. n) \intersect stop
            At(j) == j \in stop /\ \A l \in i .. j - 1 : l \notin stop
<1>1. T \subseteq Nat /\ T # {}
  OBVIOUS
<1>2. \E x \in T : \A y \in T : x <= y
  <2>. HIDE DEF T
  <2>. QED
    BY <1>1, Least
<1>3. \E j \in i .. n : At(j)
  BY <1>2
<1>4. NextStop(i, n, stop) \in i .. n /\ At(NextStop(i, n, stop))
  BY <1>3 DEF NextStop
<1>5. \A j, k \in i .. n : At(j) /\ At(k) => j = k
  OBVIOUS
<1>. QED
  BY <1>4, <1>5

\* A search over finitely many positions has a result.
LEMMA SearchExists ==
  ASSUME NEW n \in Nat, NEW stop, n \in stop, NEW val
  PROVE  \E w : IsSearch(w, n, stop, val)
<1>1. PICK w : w = [i \in 1 .. n |-> val[NextStop(i, n, stop)]]
  OBVIOUS
<1>2. ASSUME NEW i \in 1 .. n
      PROVE  w[i] = IF i \in stop THEN val[i] ELSE w[i + 1]
  <2>1. CASE i \in stop
    <3>1. i = NextStop(i, n, stop)
      BY <2>1, NextStopIs
    <3>. QED
      BY <1>1, <2>1, <3>1
  <2>2. CASE i \notin stop
    <3>1. i + 1 \in 1 .. n
      BY <2>2
    <3>. DEFINE k == NextStop(i + 1, n, stop)
    <3>2. /\ k \in (i + 1) .. n /\ k \in stop
          /\ \A l \in i + 1 .. k - 1 : l \notin stop
      BY <3>1, NextStopIs
    <3>. HIDE DEF k
    <3>3. k \in i .. n /\ \A l \in i .. k - 1 : l \notin stop
      BY <2>2, <3>2
    <3>4. k = NextStop(i, n, stop)
      BY <3>2, <3>3, NextStopIs
    <3>. QED
      BY <1>1, <2>2, <3>1, <3>4 DEF k
  <2>. QED
    BY <2>1, <2>2
<1>. QED
  BY <1>1, <1>2 DEF IsSearch

\* It is the value at the first position in the set.
LEMMA SearchFinds ==
  ASSUME NEW n \in Nat, NEW stop, NEW val, NEW w, IsSearch(w, n, stop, val),
         NEW k \in 1 .. n, k \in stop, \A j \in 1 .. k - 1 : j \notin stop
  PROVE  w[1] = val[k]
<1>. DEFINE S == {j \in Nat : j + 1 <= k => w[1] = w[j + 1]}
<1>1. 0 \in S
  OBVIOUS
<1>2. ASSUME NEW j \in Nat, j \in S
      PROVE  j + 1 \in S
  <2>. SUFFICES ASSUME (j + 1) + 1 <= k
                PROVE  w[1] = w[(j + 1) + 1]
    OBVIOUS
  <2>1. j + 1 \in 1 .. n /\ j + 1 \notin stop
    OBVIOUS
  <2>2. w[j + 1] = w[(j + 1) + 1]
    BY <2>1 DEF IsSearch
  <2>. QED
    BY <1>2, <2>1, <2>2
<1>3. Nat \subseteq S
  <2>. HIDE DEF S
  <2>. QED
    BY <1>1, <1>2, SetInduction
<1>4. k - 1 \in S /\ (k - 1) + 1 = k
  BY <1>3
<1>5. w[1] = w[k]
  BY <1>4
<1>. QED
  BY <1>5 DEF IsSearch

\* The result of the walk over a list whose elements have these results.
IsWalk(w, list, length, res) ==
  w = [i \in 1 .. Len(list) + 1 |->
         IF Bytes(list, i - 1) > USHRT_MAX THEN BEYOND
         ELSE IF ~WalkOn(Bytes(list, i - 1), length) THEN OK
         ELSE IF i > Len(list) THEN BEYOND
         ELSE IF res[i] # OK THEN res[i]
         ELSE w[i + 1]]

\* Where it ends, ...
WalkStops(list, length, res) ==
  {i \in 1 .. Len(list) + 1 :
     \/ Bytes(list, i - 1) > USHRT_MAX
     \/ ~WalkOn(Bytes(list, i - 1), length)
     \/ i > Len(list)
     \/ res[i] # OK}

\* ... and with what.
WalkValue(list, length, res) ==
  [i \in 1 .. Len(list) + 1 |->
     IF Bytes(list, i - 1) > USHRT_MAX THEN BEYOND
     ELSE IF ~WalkOn(Bytes(list, i - 1), length) THEN OK
     ELSE IF i > Len(list) THEN BEYOND
     ELSE res[i]]

\* The walk is a search for the first of these positions.
LEMMA WalkIsSearch ==
  ASSUME NEW list, Len(list) \in Nat, NEW length, NEW res, NEW w
  PROVE  IsWalk(w, list, length, res)
           <=> IsSearch(w, Len(list) + 1, WalkStops(list, length, res),
                        WalkValue(list, length, res))
<1>. DEFINE Here(i) ==
              IF Bytes(list, i - 1) > USHRT_MAX THEN BEYOND
              ELSE IF ~WalkOn(Bytes(list, i - 1), length) THEN OK
              ELSE IF i > Len(list) THEN BEYOND
              ELSE IF res[i] # OK THEN res[i]
              ELSE w[i + 1]
            There(i) ==
              IF i \in WalkStops(list, length, res)
                THEN WalkValue(list, length, res)[i] ELSE w[i + 1]
<1>1. \A i \in 1 .. Len(list) + 1 : Here(i) = There(i)
  BY DEF WalkStops, WalkValue
<1>2. [i \in 1 .. Len(list) + 1 |-> Here(i)]
        = [i \in 1 .. Len(list) + 1 |-> There(i)]
  BY <1>1
<1>. QED
  BY <1>2 DEF IsWalk, IsSearch

\* A walk has a result: it ends behind the list at the latest.
LEMMA WalkExists ==
  ASSUME NEW list, IsList(list), NEW length, NEW res
  PROVE  \E w : IsWalk(w, list, length, res)
<1>. DEFINE n == Len(list) + 1
            stop == WalkStops(list, length, res)
<1>1. Len(list) \in Nat /\ n \in Nat /\ n \in stop
  BY BytesStep DEF WalkStops
<1>2. \E w : IsSearch(w, n, stop, WalkValue(list, length, res))
  <2>. HIDE DEF n, stop
  <2>. QED
    BY <1>1, SearchExists
<1>. QED
  BY <1>1, <1>2, WalkIsSearch

\* A walk ends where the offset no longer fits, where the bytes are used up,
\* behind the list, or at the first element that is wrong.
LEMMA WalkEnds ==
  ASSUME NEW list, IsList(list), NEW length \in Int, NEW res,
         NEW w, IsWalk(w, list, length, res)
  PROVE  \E k \in 1 .. Len(list) + 1 :
           /\ \A j \in 1 .. k - 1 : res[j] = OK /\ Bytes(list, j - 1) < length
           /\ \/ Bytes(list, k - 1) > USHRT_MAX /\ w[1] = BEYOND
              \/ Bytes(list, k - 1) >= length /\ w[1] = OK
              \/ /\ k = Len(list) + 1
                 /\ Bytes(list, k - 1) < length /\ w[1] = BEYOND
              \/ /\ k <= Len(list)
                 /\ Bytes(list, k - 1) < length
                 /\ res[k] # OK /\ w[1] = res[k]
<1>. DEFINE n == Len(list) + 1
            stop == WalkStops(list, length, res)
            val == WalkValue(list, length, res)
<1>1. /\ Len(list) \in Nat
      /\ \A i \in 0 .. Len(list) : Bytes(list, i) \in Nat
  BY BytesStep
<1>2. n \in Nat /\ n \in stop
  BY <1>1 DEF WalkStops
<1>3. IsSearch(w, n, stop, val)
  BY <1>1, WalkIsSearch
<1>4. PICK k \in 1 .. n : k \in stop /\ \A j \in 1 .. k - 1 : j \notin stop
  <2>1. 1 \in 1 .. n
    BY <1>1
  <2>. HIDE DEF n, stop, val
  <2>. QED
    BY <1>2, <2>1, NextStopIs
<1>5. w[1] = val[k]
  <2>. HIDE DEF n, stop, val
  <2>. QED
    BY <1>2, <1>3, <1>4, SearchFinds
<1>6. Bytes(list, k - 1) \in Nat
  BY <1>1
<1>7. ASSUME NEW j \in 1 .. k - 1
      PROVE  res[j] = OK /\ Bytes(list, j - 1) < length
  <2>1. j \in 1 .. n /\ j \notin stop /\ Bytes(list, j - 1) \in Nat
    BY <1>1, <1>4
  <2>. QED
    BY <2>1 DEF WalkStops, WalkOn
<1>8. val[k] = IF Bytes(list, k - 1) > USHRT_MAX THEN BEYOND
               ELSE IF ~(Bytes(list, k - 1) < length) THEN OK
               ELSE IF k > Len(list) THEN BEYOND
               ELSE res[k]
  BY DEF WalkValue, WalkOn
<1>9. \/ Bytes(list, k - 1) > USHRT_MAX
      \/ ~(Bytes(list, k - 1) < length)
      \/ k > Len(list)
      \/ res[k] # OK
  BY <1>4 DEF WalkStops, WalkOn
<1>10. \/ Bytes(list, k - 1) > USHRT_MAX /\ w[1] = BEYOND
       \/ Bytes(list, k - 1) >= length /\ w[1] = OK
       \/ /\ k = Len(list) + 1
          /\ Bytes(list, k - 1) < length /\ w[1] = BEYOND
       \/ /\ k <= Len(list)
          /\ Bytes(list, k - 1) < length
          /\ res[k] # OK /\ w[1] = res[k]
  <2>. HIDE DEF stop, val
  <2>1. CASE Bytes(list, k - 1) > USHRT_MAX
    BY <1>5, <1>8, <2>1
  <2>2. CASE ~(Bytes(list, k - 1) > USHRT_MAX) /\ ~(Bytes(list, k - 1) < length)
    BY <1>5, <1>6, <1>8, <2>2
  <2>3. CASE /\ ~(Bytes(list, k - 1) > USHRT_MAX) /\ Bytes(list, k - 1) < length
             /\ k > Len(list)
    BY <1>1, <1>5, <1>8, <2>3
  <2>4. CASE /\ ~(Bytes(list, k - 1) > USHRT_MAX) /\ Bytes(list, k - 1) < length
             /\ ~(k > Len(list))
    BY <1>1, <1>5, <1>8, <1>9, <2>4
  <2>. QED
    BY <2>1, <2>2, <2>3, <2>4
<1>. QED
  BY <1>7, <1>10

\* validate_actions is such a walk.
LEMMA ActionsWalked ==
  ASSUME NEW list, IsList(list), NEW length
  PROVE  \E w : /\ IsWalk(w, list, length,
                          [i \in 1 .. Len(list) |-> ValidateAction(list[i])])
                /\ ValidateActions(list, length) = w[1]
<1>. DEFINE res == [i \in 1 .. Len(list) |-> ValidateAction(list[i])]
            Step(w) ==
              [i \in 1 .. Len(list) + 1 |->
                 IF Bytes(list, i - 1) > USHRT_MAX THEN BEYOND
                 ELSE IF ~WalkOn(Bytes(list, i - 1), length) THEN OK
                 ELSE IF i > Len(list) THEN BEYOND
                 ELSE IF ValidateAction(list[i]) # OK
                   THEN ValidateAction(list[i])
                 ELSE w[i + 1]]
            W == CHOOSE w : w = Step(w)
<1>0. Len(list) \in Nat
  BY BytesStep
<1>1. ASSUME NEW w PROVE IsWalk(w, list, length, res) <=> w = Step(w)
  <2>1. \A i \in 1 .. Len(list) + 1 :
          ~(i > Len(list)) => res[i] = ValidateAction(list[i])
    BY <1>0
  <2>. HIDE DEF res
  <2>. QED
    BY <2>1 DEF IsWalk
<1>2. \E w : w = Step(w)
  <2>1. \E w : IsWalk(w, list, length, res)
    <3>. HIDE DEF res
    <3>. QED
      BY WalkExists
  <2>. HIDE DEF res, Step
  <2>. QED
    BY <1>1, <2>1
<1>3. W = Step(W)
  <2>. HIDE DEF Step
  <2>. QED
    BY <1>2
<1>4. ValidateActions(list, length) = W[1]
  BY DEF ValidateActions, Walk
<1>5. IsWalk(W, list, length, res)
  <2>. HIDE DEF W, Step, res
  <2>. QED
    BY <1>1, <1>3
<1>. QED
  <2>. HIDE DEF W
  <2>. QED
    BY <1>4, <1>5

\* The same for the properties of a queue.
LEMMA PropertiesWalked ==
  ASSUME NEW q, IsList(q.properties), ~(q.len < QueueSize + HeaderSize)
  PROVE  \E w : /\ IsWalk(w, q.properties, q.len - QueueSize,
                          [i \in 1 .. Len(q.properties) |->
                             ValidateQueueProperty(q.properties[i])])
                /\ ValidatePacketQueue(q) = w[1]
<1>. DEFINE list == q.properties
            length == q.len - QueueSize
            res == [i \in 1 .. Len(list) |-> ValidateQueueProperty(list[i])]
            Step(w) ==
              [i \in 1 .. Len(list) + 1 |->
                 IF Bytes(list, i - 1) > USHRT_MAX THEN BEYOND
                 ELSE IF ~WalkOn(Bytes(list, i - 1), length) THEN OK
                 ELSE IF i > Len(list) THEN BEYOND
                 ELSE IF ValidateQueueProperty(list[i]) # OK
                   THEN ValidateQueueProperty(list[i])
                 ELSE w[i + 1]]
            W == CHOOSE w : w = Step(w)
<1>0. Len(list) \in Nat
  BY BytesStep
<1>1. ASSUME NEW w PROVE IsWalk(w, list, length, res) <=> w = Step(w)
  <2>1. \A i \in 1 .. Len(list) + 1 :
          ~(i > Len(list)) => res[i] = ValidateQueueProperty(list[i])
    BY <1>0
  <2>. HIDE DEF res
  <2>. QED
    BY <2>1 DEF IsWalk
<1>2. \E w : w = Step(w)
  <2>1. \E w : IsWalk(w, list, length, res)
    <3>. HIDE DEF res, length
    <3>. QED
      BY WalkExists
  <2>. HIDE DEF res, Step
  <2>. QED
    BY <1>1, <2>1
<1>3. W = Step(W)
  <2>. HIDE DEF Step
  <2>. QED
    BY <1>2
<1>4. ValidatePacketQueue(q) = W[1]
  BY DEF ValidatePacketQueue, Walk
<1>5. IsWalk(W, list, length, res)
  <2>. HIDE DEF W, Step, res
  <2>. QED
    BY <1>1, <1>3
<1>. QED
  <2>. HIDE DEF W
  <2>. QED
    BY <1>4, <1>5
-----------------------------------------------------------------------------
\* USHRT_MAX is a number; ranges up to it are never spelled out.
LEMMA Short == USHRT_MAX \in Nat
BY DEF USHRT_MAX

LEMMA Width == \A n \in Nat : n <= USHRT_MAX => n < 65536
BY DEF USHRT_MAX

\* A walk over a list that fills its bytes stays in it.
LEMMA TiledWalk ==
  ASSUME NEW list, IsList(list), NEW length \in 0 .. USHRT_MAX, NEW res,
         Bytes(list, Len(list)) = length,
         \A i \in 1 .. Len(list) : res[i] # BEYOND,
         NEW w, IsWalk(w, list, length, res)
  PROVE  w[1] # BEYOND
<1>1. PICK k \in 1 .. Len(list) + 1 :
        \/ Bytes(list, k - 1) > USHRT_MAX /\ w[1] = BEYOND
        \/ Bytes(list, k - 1) >= length /\ w[1] = OK
        \/ /\ k = Len(list) + 1
           /\ Bytes(list, k - 1) < length /\ w[1] = BEYOND
        \/ /\ k <= Len(list)
           /\ res[k] # OK /\ w[1] = res[k]
  BY WalkEnds
<1>2. Len(list) \in Nat
  BY BytesStep
<1>3. Bytes(list, k - 1) <= length /\ Bytes(list, k - 1) \in Nat
  <2>1. k - 1 \in 0 .. Len(list) /\ Len(list) \in (k - 1) .. Len(list)
    BY <1>2
  <2>2. Bytes(list, k - 1) <= Bytes(list, Len(list))
    BY <2>1, BytesMono
  <2>. QED
    BY <2>1, <2>2, BytesStep
<1>4. k = Len(list) + 1 => Bytes(list, k - 1) = length
  BY <1>2
<1>5. CASE w[1] = OK
  BY <1>5 DEF OK, BEYOND
<1>6. CASE k <= Len(list) /\ w[1] = res[k]
  BY <1>2, <1>6
<1>7. ~(Bytes(list, k - 1) > USHRT_MAX)
  <2>1. length \in Int /\ length <= USHRT_MAX /\ USHRT_MAX \in Int
    BY Short
  <2>. DEFINE here == Bytes(list, k - 1)
  <2>2. here \in Nat /\ here <= length
    BY <1>3
  <2>. HIDE DEF here
  <2>3. ~(here > USHRT_MAX)
    BY <2>1, <2>2
  <2>. QED
    BY <2>3 DEF here
<1>8. ~(k = Len(list) + 1 /\ Bytes(list, k - 1) < length)
  BY <1>3, <1>4
<1>. QED
  BY <1>1, <1>5, <1>6, <1>7, <1>8
-----------------------------------------------------------------------------
\* The first error of a series stays in the message if all checks do.
LEMMA SeriesStays ==
  ASSUME NEW n \in Nat, NEW s, DOMAIN s = 1 .. n,
         \A i \in 1 .. n : s[i] # BEYOND
  PROVE  FirstError(s) # BEYOND
BY FirstErrorOf DEF OK, BEYOND

\* The same for the series the validators write out.
LEMMA TupleStays ==
  /\ \A a, b : a # BEYOND /\ b # BEYOND => FirstError(<<a, b>>) # BEYOND
  /\ \A a, b, c : a # BEYOND /\ b # BEYOND /\ c # BEYOND
                   => FirstError(<<a, b, c>>) # BEYOND
  /\ \A a, b, c, d : a # BEYOND /\ b # BEYOND /\ c # BEYOND /\ d # BEYOND
                      => FirstError(<<a, b, c, d>>) # BEYOND
  /\ \A a, b, c, d, e : /\ a # BEYOND /\ b # BEYOND /\ c # BEYOND
                        /\ d # BEYOND /\ e # BEYOND
                        => FirstError(<<a, b, c, d, e>>) # BEYOND
  /\ \A a, b, c, d, e, f : /\ a # BEYOND /\ b # BEYOND /\ c # BEYOND
                           /\ d # BEYOND /\ e # BEYOND /\ f # BEYOND
                           => FirstError(<<a, b, c, d, e, f>>) # BEYOND
<1>1. ASSUME NEW a, NEW b, a # BEYOND, b # BEYOND
      PROVE  FirstError(<<a, b>>) # BEYOND
  <2>. DEFINE s == <<a, b>>
  <2>1. DOMAIN s = 1 .. 2 /\ \A i \in 1 .. 2 : s[i] # BEYOND
    BY <1>1
  <2>. HIDE DEF s
  <2>2. FirstError(s) # BEYOND
    BY <2>1, SeriesStays
  <2>. QED
    BY <2>2 DEF s
<1>2. ASSUME NEW a, NEW b, NEW c, a # BEYOND, b # BEYOND, c # BEYOND
      PROVE  FirstError(<<a, b, c>>) # BEYOND
  <2>. DEFINE s == <<a, b, c>>
  <2>1. DOMAIN s = 1 .. 3 /\ \A i \in 1 .. 3 : s[i] # BEYOND
    BY <1>2
  <2>. HIDE DEF s
  <2>2. FirstError(s) # BEYOND
    BY <2>1, SeriesStays
  <2>. QED
    BY <2>2 DEF s
<1>3. ASSUME NEW a, NEW b, NEW c, NEW d,
             a # BEYOND, b # BEYOND, c # BEYOND, d # BEYOND
      PROVE  FirstError(<<a, b, c, d>>) # BEYOND
  <2>. DEFINE s == <<a, b, c, d>>
  <2>1. DOMAIN s = 1 .. 4 /\ \A i \in 1 .. 4 : s[i] # BEYOND
    BY <1>3
  <2>. HIDE DEF s
  <2>2. FirstError(s) # BEYOND
    BY <2>1, SeriesStays
  <2>. QED
    BY <2>2 DEF s
<1>4. ASSUME NEW a, NEW b, NEW c, NEW d, NEW e,
             a # BEYOND, b # BEYOND, c # BEYOND, d # BEYOND, e # BEYOND
      PROVE  FirstError(<<a, b, c, d, e>>) # BEYOND
  <2>. DEFINE s == <<a, b, c, d, e>>
  <2>1. DOMAIN s = 1 .. 5 /\ \A i \in 1 .. 5 : s[i] # BEYOND
    BY <1>4
  <2>. HIDE DEF s
  <2>2. FirstError(s) # BEYOND
    BY <2>1, SeriesStays
  <2>. QED
    BY <2>2 DEF s
<1>5. ASSUME NEW a, NEW b, NEW c, NEW d, NEW e, NEW f,
             a # BEYOND, b # BEYOND, c # BEYOND,
             d # BEYOND, e # BEYOND, f # BEYOND
      PROVE  FirstError(<<a, b, c, d, e, f>>) # BEYOND
  <2>. DEFINE s == <<a, b, c, d, e, f>>
  <2>1. DOMAIN s = 1 .. 6 /\ \A i \in 1 .. 6 : s[i] # BEYOND
    BY <1>5
  <2>. HIDE DEF s
  <2>2. FirstError(s) # BEYOND
    BY <2>1, SeriesStays
  <2>. QED
    BY <2>2 DEF s
<1>. QED
  BY <1>1, <1>2, <1>3, <1>4, <1>5

\* Which validators never leave the message.
LEMMA FieldsStay ==
  /\ \A no : ValidatePhyPortNo(no) # BEYOND
  /\ \A w : ValidateWildcards(w) # BEYOND
  /\ \A v : ValidateVlanVid(v) # BEYOND
  /\ \A p : ValidateVlanPcp(p) # BEYOND
  /\ \A t : ValidateNwTos(t) # BEYOND
  /\ \A c : ValidateSwitchConfig(c) # BEYOND
  /\ \A x, p : ValidatePriority(x, p) # BEYOND
BY DEF ValidatePhyPortNo, ValidateWildcards, ValidateVlanVid, ValidateVlanPcp,
       ValidateNwTos, ValidateSwitchConfig, ValidatePriority,
       Check, OK, BEYOND

\* A match is judged within what was read, ...
LEMMA MatchStays == \A x : ValidateMatch(x) # BEYOND
BY FieldsStay, TupleStays DEF ValidateMatch

\* ... and so are a port, ...
LEMMA PortStays == \A x : ValidatePhyPort(x) # BEYOND
<1>. SUFFICES ASSUME NEW x PROVE ValidatePhyPort(x) # BEYOND
  OBVIOUS
<1>1. /\ Check(x.config \subseteq PORT_CONFIG, "INVALID_PORT_CONFIG") # BEYOND
      /\ Check(x.state \subseteq PORT_STATE, "INVALID_PORT_STATE") # BEYOND
      /\ Check(x.features \subseteq PORT_FEATURES, "INVALID_PORT_FEATURES")
           # BEYOND
  BY DEF Check, OK, BEYOND
<1>. QED
  BY <1>1, FieldsStay, TupleStays DEF ValidatePhyPort

\* ... an action ...
LEMMA ActionStays == \A a : ValidateAction(a) # BEYOND
<1>. SUFFICES ASSUME NEW a PROVE ValidateAction(a) # BEYOND
  OBVIOUS
<1>1. ValidateActionArg(a) # BEYOND
  BY FieldsStay DEF ValidateActionArg, OK, BEYOND
<1>2. /\ Check(a.len >= SizeOfAction(a.type), "TOO_SHORT_ACTION_OF_TYPE")
           # BEYOND
      /\ Check(a.type = "VENDOR" \/ a.len <= SizeOfAction(a.type),
               "TOO_LONG_ACTION_OF_TYPE") # BEYOND
  BY DEF Check, OK, BEYOND
<1>3. FirstError(<<
        Check(a.len >= SizeOfAction(a.type), "TOO_SHORT_ACTION_OF_TYPE"),
        Check(a.type = "VENDOR" \/ a.len <= SizeOfAction(a.type),
              "TOO_LONG_ACTION_OF_TYPE"),
        ValidateActionArg(a) >>) # BEYOND
  BY <1>1, <1>2, TupleStays
<1>. QED
  BY <1>3 DEF ValidateAction, BEYOND

\* ... and a property of a queue.
LEMMA PropertyStays == \A p : ValidateQueueProperty(p) # BEYOND
<1>. SUFFICES ASSUME NEW p PROVE ValidateQueueProperty(p) # BEYOND
  OBVIOUS
<1>1. /\ Check(p.len >= PropertySize[p.property], "TOO_SHORT_QUEUE_PROPERTY")
           # BEYOND
      /\ Check(p.len <= PropertySize[p.property], "TOO_LONG_QUEUE_PROPERTY")
           # BEYOND
  BY DEF Check, OK, BEYOND
<1>2. FirstError(<<
        Check(p.len >= PropertySize[p.property], "TOO_SHORT_QUEUE_PROPERTY"),
        Check(p.len <= PropertySize[p.property], "TOO_LONG_QUEUE_PROPERTY") >>)
        # BEYOND
  BY <1>1, TupleStays
<1>. QED
  BY <1>2 DEF ValidateQueueProperty, BEYOND

\* Actions that fill their bytes are judged in the message.
LEMMA ActionsStay ==
  ASSUME NEW list, IsList(list), NEW length \in 0 .. USHRT_MAX,
         Bytes(list, Len(list)) = length
  PROVE  ValidateActions(list, length) # BEYOND
<1>1. PICK w : /\ IsWalk(w, list, length,
                         [i \in 1 .. Len(list) |-> ValidateAction(list[i])])
               /\ ValidateActions(list, length) = w[1]
  BY ActionsWalked
<1>. DEFINE res == [i \in 1 .. Len(list) |-> ValidateAction(list[i])]
<1>2. \A i \in 1 .. Len(list) : res[i] # BEYOND
  BY ActionStays
<1>. HIDE DEF res
<1>3. w[1] # BEYOND
  BY <1>1, <1>2, TiledWalk DEF res
<1>. QED
  BY <1>1, <1>3

\* The properties of a queue that fill it are judged in the message.
LEMMA QueueStays ==
  ASSUME NEW q, IsList(q.properties), q.len \in 0 .. USHRT_MAX,
         FillsItsLength(q, QueueSize, q.properties)
  PROVE  ValidatePacketQueue(q) # BEYOND
<1>1. CASE q.len < QueueSize + HeaderSize
  BY <1>1 DEF ValidatePacketQueue, BEYOND
<1>2. CASE ~(q.len < QueueSize + HeaderSize)
  <2>. DEFINE list == q.properties
              length == q.len - QueueSize
              res == [i \in 1 .. Len(list) |-> ValidateQueueProperty(list[i])]
  <2>1. PICK w : IsWalk(w, list, length, res) /\ ValidatePacketQueue(q) = w[1]
    BY <1>2, PropertiesWalked
  <2>2. \A i \in 1 .. Len(list) : res[i] # BEYOND
    BY PropertyStays
  <2>3. Bytes(list, Len(list)) \in Nat
    <3>. HIDE DEF list
    <3>1. IsList(list)
      BY DEF list
    <3>. QED
      BY <3>1, BytesStep
  <2>4. Bytes(list, Len(list)) = length /\ length \in 0 .. USHRT_MAX
    <3>1. PICK all \in Nat : all = Bytes(list, Len(list))
      BY <2>3
    <3>2. PICK len \in 0 .. USHRT_MAX : len = q.len
      OBVIOUS
    <3>3. 8 + all = len
      BY <3>1, <3>2 DEF FillsItsLength, QueueSize
    <3>4. all = len - 8 /\ all \in 0 .. USHRT_MAX
      BY <3>3, Short
    <3>. QED
      BY <3>1, <3>2, <3>4 DEF QueueSize
  <2>5. IsList(list)
    OBVIOUS
  <2>6. w[1] # BEYOND
    <3>. HIDE DEF list, length, res
    <3>. QED
      BY <2>1, <2>2, <2>4, <2>5, TiledWalk
  <2>. QED
    BY <2>1, <2>6
<1>. QED
  BY <1>1, <1>2
-----------------------------------------------------------------------------
\* A length is what is left of it modulo its width.
LEMMA Wraps ==
  /\ \A n \in Int : -65536 < n /\ n < 65536 /\ U16(n) = 0 => n = 0
  /\ \A n \in 0 .. USHRT_MAX : U16(n) = n
<1>1. \A n \in Int : -65536 < n /\ n < 65536 /\ U16(n) = 0 => n = 0
  BY DEF U16
<1>2. \A n \in 0 .. USHRT_MAX : U16(n) = n
  <2>. SUFFICES ASSUME NEW n \in Nat, n <= USHRT_MAX PROVE U16(n) = n
    BY Short
  <2>1. n < 65536
    BY Width
  <2>. QED
    BY <2>1 DEF U16
<1>. QED
  BY <1>1, <1>2

\* Where the loop over the flows of a reply ends, ...
FlowStops(list, length) ==
  {i \in 1 .. Len(list) + 1 :
     \/ Left(length, Bytes(list, i - 1)) = 0
     \/ i > Len(list)
     \/ ValidateFlowStats(list[i]) # OK}

\* ... and with what.
FlowValue(list, length) ==
  [i \in 1 .. Len(list) + 1 |->
     IF Left(length, Bytes(list, i - 1)) = 0 THEN OK
     ELSE IF i > Len(list) THEN BEYOND
     ELSE ValidateFlowStats(list[i])]

\* The loop ends where nothing is left, behind the list, or at the first flow
\* that is wrong.
LEMMA FlowsEnd ==
  ASSUME NEW list, IsList(list), NEW length
  PROVE  \E k \in 1 .. Len(list) + 1 :
           \/ /\ Left(length, Bytes(list, k - 1)) = 0
              /\ ValidateFlows(list, length) = OK
           \/ /\ k = Len(list) + 1
              /\ Left(length, Bytes(list, k - 1)) # 0
              /\ ValidateFlows(list, length) = BEYOND
           \/ /\ k <= Len(list)
              /\ ValidateFlowStats(list[k]) # OK
              /\ ValidateFlows(list, length) = ValidateFlowStats(list[k])
<1>. DEFINE n == Len(list) + 1
            stop == FlowStops(list, length)
            val == FlowValue(list, length)
            Here(w, i) ==
              IF Left(length, Bytes(list, i - 1)) = 0 THEN OK
              ELSE IF i > Len(list) THEN BEYOND
              ELSE IF ValidateFlowStats(list[i]) # OK
                THEN ValidateFlowStats(list[i])
              ELSE w[i + 1]
            There(w, i) == IF i \in stop THEN val[i] ELSE w[i + 1]
            W == CHOOSE w : w = [i \in 1 .. Len(list) + 1 |-> Here(w, i)]
<1>1. Len(list) \in Nat
  BY BytesStep
<1>2. n \in Nat /\ n \in stop /\ 1 \in 1 .. n
  BY <1>1 DEF FlowStops
<1>3. \A w : [i \in 1 .. Len(list) + 1 |-> Here(w, i)]
              = [i \in 1 .. Len(list) + 1 |-> There(w, i)]
  <2>. SUFFICES ASSUME NEW w
                PROVE  \A i \in 1 .. Len(list) + 1 : Here(w, i) = There(w, i)
    OBVIOUS
  <2>. QED
    BY DEF FlowStops, FlowValue
<1>4. \A w : IsSearch(w, n, stop, val)
              <=> w = [i \in 1 .. Len(list) + 1 |-> Here(w, i)]
  <2>. HIDE DEF Here, stop, val
  <2>. QED
    BY <1>3 DEF IsSearch
<1>5. IsSearch(W, n, stop, val)
  <2>1. \E w : IsSearch(w, n, stop, val)
    <3>. HIDE DEF n, stop, val
    <3>. QED
      BY <1>2, SearchExists
  <2>2. \E w : w = [i \in 1 .. Len(list) + 1 |-> Here(w, i)]
    <3>. HIDE DEF Here, n, stop, val
    <3>. QED
      BY <1>4, <2>1
  <2>3. W = [i \in 1 .. Len(list) + 1 |-> Here(W, i)]
    <3>. HIDE DEF Here
    <3>. QED
      BY <2>2
  <2>. HIDE DEF W, Here, n, stop, val
  <2>. QED
    BY <1>4, <2>3
<1>6. ValidateFlows(list, length) = W[1]
  BY DEF ValidateFlows
<1>. HIDE DEF W
<1>7. PICK k \in 1 .. n : k \in stop /\ \A j \in 1 .. k - 1 : j \notin stop
  <2>. HIDE DEF n, stop, val
  <2>. QED
    BY <1>2, NextStopIs
<1>8. W[1] = val[k]
  <2>. HIDE DEF n, stop, val
  <2>. QED
    BY <1>2, <1>5, <1>7, SearchFinds
<1>9. val[k] = IF Left(length, Bytes(list, k - 1)) = 0 THEN OK
               ELSE IF k > Len(list) THEN BEYOND
               ELSE ValidateFlowStats(list[k])
  BY DEF FlowValue
<1>10. \/ Left(length, Bytes(list, k - 1)) = 0
       \/ k > Len(list)
       \/ ValidateFlowStats(list[k]) # OK
  BY <1>7 DEF FlowStops
<1>. HIDE DEF stop, val
<1>. QED
  BY <1>1, <1>6, <1>8, <1>9, <1>10

\* A 16-bit countdown that ends at zero has taken the whole list, for its
\* elements stand in the message.
LEMMA CountdownEnds ==
  ASSUME NEW list, IsList(list), NEW length \in 0 .. USHRT_MAX,
         NEW size \in Nat, size > 0, Standing(list, size, length),
         NEW k \in 0 .. Len(list), Left(length, Bytes(list, k)) = 0
  PROVE  Bytes(list, Len(list)) = length
<1>1. /\ Len(list) \in Nat /\ DOMAIN list = 1 .. Len(list)
      /\ \A i \in 0 .. Len(list) : Bytes(list, i) \in Nat
      /\ \A i \in 1 .. Len(list) :
           Bytes(list, i) = Bytes(list, i - 1) + list[i].len
  BY BytesStep
<1>2. \A i \in 1 .. Len(list) : Bytes(list, i - 1) + size <= length
  BY <1>1 DEF Standing
<1>3. length \in Nat /\ length < 65536
  <2>1. length \in Nat /\ length <= USHRT_MAX
    BY Short
  <2>. QED
    BY <2>1, Width
<1>4. Bytes(list, k) - length < 65536
  <2>1. CASE k = 0
    BY <1>3, <2>1, BytesRec
  <2>2. CASE k # 0
    <3>1. k \in 1 .. Len(list)
      BY <1>1, <2>2
    <3>2. PICK e \in Nat : e = list[k].len /\ e <= USHRT_MAX
      BY SMTT(30), <1>1, <3>1, Short DEF IsList
    <3>3. e < 65536
      BY <3>2, Width
    <3>4. PICK b \in Nat : b = Bytes(list, k - 1)
      BY <1>1, <3>1
    <3>5. b + size <= length /\ Bytes(list, k) = b + e
      BY <1>1, <1>2, <3>1, <3>2, <3>4
    <3>. QED
      BY <1>3, <3>3, <3>5
  <2>. QED
    BY <2>1, <2>2
<1>5. PICK b \in Nat : b = Bytes(list, k)
  BY <1>1
<1>6. length - b \in Int /\ -65536 < length - b /\ length - b < 65536
  BY SMTT(30), <1>3, <1>4, <1>5
<1>7. U16(length - b) = 0
  BY <1>5 DEF Left
<1>8. b = length
  BY <1>3, <1>6, <1>7, Wraps
<1>9. k = Len(list)
  <2>. SUFFICES ASSUME k # Len(list) PROVE FALSE
    OBVIOUS
  <2>0. Len(list) \in Nat
    BY <1>1
  <2>. DEFINE n == Len(list)
  <2>1. k + 1 \in 1 .. n /\ (k + 1) - 1 = k
    <3>1. k \in 0 .. n /\ n \in Nat /\ k # n
      BY <2>0
    <3>. HIDE DEF n
    <3>. QED
      BY <3>1
  <2>2. b + size <= length
    BY <1>2, <1>5, <2>1
  <2>. QED
    BY <1>3, <1>8, <2>2
<1>. QED
  BY <1>5, <1>8, <1>9

\* A list of entries of a fixed size is judged within what was read.
LEMMA SequenceStays ==
  ASSUME NEW list, IsSequence(list)
  PROVE  /\ FirstOf(list, ValidatePhyPort) # BEYOND
         /\ FirstOf(list, ValidateWildcards) # BEYOND
         /\ FirstOf(list, ValidatePhyPortNo) # BEYOND
<1>1. Len(list) \in Nat
  BY DEF IsSequence
<1>2. FirstOf(list, ValidatePhyPort) # BEYOND
  <2>. DEFINE s == [i \in 1 .. Len(list) |-> ValidatePhyPort(list[i])]
  <2>1. DOMAIN s = 1 .. Len(list) /\ \A i \in 1 .. Len(list) : s[i] # BEYOND
    BY PortStays
  <2>2. FirstError(s) # BEYOND
    <3>. HIDE DEF s
    <3>. QED
      BY <1>1, <2>1, SeriesStays
  <2>. QED
    BY <2>2 DEF FirstOf
<1>3. FirstOf(list, ValidateWildcards) # BEYOND
  <2>. DEFINE s == [i \in 1 .. Len(list) |-> ValidateWildcards(list[i])]
  <2>1. DOMAIN s = 1 .. Len(list) /\ \A i \in 1 .. Len(list) : s[i] # BEYOND
    BY FieldsStay
  <2>2. FirstError(s) # BEYOND
    <3>. HIDE DEF s
    <3>. QED
      BY <1>1, <2>1, SeriesStays
  <2>. QED
    BY <2>2 DEF FirstOf
<1>4. FirstOf(list, ValidatePhyPortNo) # BEYOND
  <2>. DEFINE s == [i \in 1 .. Len(list) |-> ValidatePhyPortNo(list[i])]
  <2>1. DOMAIN s = 1 .. Len(list) /\ \A i \in 1 .. Len(list) : s[i] # BEYOND
    BY FieldsStay
  <2>2. FirstError(s) # BEYOND
    <3>. HIDE DEF s
    <3>. QED
      BY <1>1, <2>1, SeriesStays
  <2>. QED
    BY <2>2 DEF FirstOf
<1>. QED
  BY <1>2, <1>3, <1>4

\* The bodies without a list of elements of their own length.
LEMMA BodiesStay ==
  ASSUME NEW b
  PROVE  /\ ValidatePacketIn(b) # BEYOND
         /\ ValidateFlowRemoved(b) # BEYOND
         /\ ValidatePortStatus(b) # BEYOND
         /\ ValidatePortMod(b) # BEYOND
         /\ ValidateStatsRequestBody(b) # BEYOND
         /\ \A length : IsSequence(b.ports)
                         => ValidateFeaturesReply(b, length) # BEYOND
<1>1. ValidatePacketIn(b) # BEYOND
  <2>1. Check(b.reason <= 1, "INVALID_PACKET_IN_REASON") # BEYOND
    BY DEF Check, OK, BEYOND
  <2>. QED
    BY <2>1, FieldsStay, TupleStays DEF ValidatePacketIn
<1>2. ValidateFlowRemoved(b) # BEYOND
  <2>1. Check(b.reason <= 2, "INVALID_FLOW_REMOVED_REASON") # BEYOND
    BY DEF Check, OK, BEYOND
  <2>. QED
    BY <2>1, FieldsStay, MatchStays, TupleStays DEF ValidateFlowRemoved
<1>3. ValidatePortStatus(b) # BEYOND
  <2>1. Check(b.reason <= 2, "INVALID_PORT_STATUS_REASON") # BEYOND
    BY DEF Check, OK, BEYOND
  <2>. QED
    BY <2>1, PortStays, TupleStays DEF ValidatePortStatus
<1>4. ValidatePortMod(b) # BEYOND
  <2>1. /\ Check(b.port_no > OFPP_MAX => b.port_no = OFPP_LOCAL,
                 "INVALID_PORT_NO") # BEYOND
        /\ Check(b.config \subseteq PORT_CONFIG, "INVALID_PORT_CONFIG") # BEYOND
        /\ Check(b.mask \subseteq PORT_CONFIG, "INVALID_PORT_MASK") # BEYOND
        /\ Check(b.advertise \subseteq PORT_CONFIG, "INVALID_PORT_FEATURES")
             # BEYOND
    BY DEF Check, OK, BEYOND
  <2>. QED
    BY <2>1, FieldsStay, TupleStays DEF ValidatePortMod
<1>5. ValidateStatsRequestBody(b) # BEYOND
  <2>1. /\ Check(b.flags = 0, "INVALID_STATS_REQUEST_FLAGS") # BEYOND
        /\ Check(b.stype = "PORT" /\ b.port > OFPP_MAX
                   => b.port \in {OFPP_NONE, OFPP_LOCAL}, "INVALID_PORT_NO")
             # BEYOND
        /\ OK # BEYOND
    BY DEF Check, OK, BEYOND
  <2>2. /\ (IF b.stype \in {"FLOW", "AGGREGATE"}
              THEN ValidateMatch(b.match) ELSE OK) # BEYOND
        /\ (IF b.stype \in {"FLOW", "AGGREGATE", "PORT", "QUEUE"}
              THEN ValidatePhyPortNo(b.port) ELSE OK) # BEYOND
    BY <2>1, FieldsStay, MatchStays
  <2>. QED
    BY <2>1, <2>2, TupleStays DEF ValidateStatsRequestBody
<1>6. ASSUME NEW length, IsSequence(b.ports)
      PROVE  ValidateFeaturesReply(b, length) # BEYOND
  <2>1. /\ Check(b.n_tables # 0, "NO_TABLE_AVAILABLE") # BEYOND
        /\ Check(length % 48 = 0, "INVALID_LENGTH") # BEYOND
    BY DEF Check, OK, BEYOND
  <2>. QED
    BY <1>6, <2>1, SequenceStays, TupleStays DEF ValidateFeaturesReply
<1>. QED
  BY <1>1, <1>2, <1>3, <1>4, <1>5, <1>6

\* The flows of a reply that fill it are judged in the message.
LEMMA FlowsStay ==
  ASSUME NEW list, IsList(list), NEW length \in 0 .. USHRT_MAX,
         Bytes(list, Len(list)) = length,
         \A i \in DOMAIN list : IsList(list[i].actions),
         \A i \in DOMAIN list :
           FillsItsLength(list[i], FlowStatsSize, list[i].actions)
  PROVE  ValidateFlows(list, length) # BEYOND
<1>1. Len(list) \in Nat /\ DOMAIN list = 1 .. Len(list)
  BY BytesStep
<1>2. ASSUME NEW i \in DOMAIN list
      PROVE  ValidateFlowStats(list[i]) # BEYOND
  <2>1. PICK f : f = list[i]
    OBVIOUS
  <2>2. PICK actions : actions = f.actions
    OBVIOUS
  <2>3. IsList(actions)
    BY <2>1, <2>2
  <2>4. PICK all \in Nat : all = Bytes(actions, Len(actions))
    <3>1. Len(actions) \in Nat
      BY <2>3, BytesStep
    <3>2. Bytes(actions, Len(actions)) \in Nat
      BY <2>3, <3>1, BytesStep
    <3>. QED
      BY <3>2
  <2>5. PICK len \in 0 .. USHRT_MAX : len = f.len
    BY <2>1 DEF IsList
  <2>6. 88 + all = len
    BY <2>1, <2>2, <2>4, <2>5 DEF FillsItsLength, FlowStatsSize
  <2>7. len - 88 \in 0 .. USHRT_MAX /\ all = len - 88
    BY <2>6, Short
  <2>8. U16(len - FlowStatsSize) = all /\ all \in 0 .. USHRT_MAX
    BY <2>7, Wraps DEF FlowStatsSize
  <2>9. ValidateActions(actions, all) # BEYOND
    BY <2>3, <2>4, <2>8, ActionsStay
  <2>10. ValidateActions(f.actions, U16(f.len - FlowStatsSize)) # BEYOND
    BY <2>2, <2>5, <2>8, <2>9
  <2>11. ValidateFlowStats(f) # BEYOND
    BY <2>10, MatchStays, FieldsStay, TupleStays DEF ValidateFlowStats
  <2>. QED
    BY <2>1, <2>11
<1>3. PICK k \in 1 .. Len(list) + 1 :
        \/ ValidateFlows(list, length) = OK
        \/ /\ k = Len(list) + 1
           /\ Left(length, Bytes(list, k - 1)) # 0
        \/ /\ k <= Len(list)
           /\ ValidateFlows(list, length) = ValidateFlowStats(list[k])
  BY FlowsEnd
<1>4. k # Len(list) + 1 \/ Left(length, Bytes(list, k - 1)) = 0
  <2>1. length - length = 0
    BY Short
  <2>2. U16(0) = 0
    BY DEF U16
  <2>3. Left(length, Bytes(list, Len(list))) = 0
    BY <2>1, <2>2 DEF Left
  <2>. QED
    BY <1>1, <2>3
<1>5. k <= Len(list) => k \in DOMAIN list
  BY <1>1
<1>. QED
  BY <1>2, <1>3, <1>4, <1>5 DEF OK, BEYOND

\* The two passes over the queues of a reply.
LEMMA QueuesEnd ==
  ASSUME NEW list, IsList(list), NEW length
  PROVE  \/ /\ ValidateQueues(list, length) = BEYOND
            /\ \A n \in 0 .. Len(list) :
                 (\A i \in 1 .. n : list[i].len > 0)
                   => ~(Left(length, Bytes(list, n)) <= QueueSize)
         \/ /\ ValidateQueues(list, length) = "INVALID_LENGTH"
            /\ \E n \in 0 .. Len(list) :
                 /\ Left(length, Bytes(list, n)) <= QueueSize
                 /\ Left(length, Bytes(list, n)) # 0
         \/ \E n \in 0 .. Len(list) :
              /\ Left(length, Bytes(list, n)) = 0
              /\ ValidateQueues(list, length)
                   = FirstOf(SubSeq(list, 1, n), ValidatePacketQueue)
<1>. DEFINE left(n) == Left(length, Bytes(list, n))
            stops == {n \in 0 .. Len(list) :
                        left(n) <= QueueSize
                        /\ \A i \in 1 .. n : list[i].len > 0}
            c == CHOOSE k \in stops : \A j \in stops : k <= j
<1>0. Len(list) \in Nat
  BY BytesStep
<1>1. ValidateQueues(list, length)
        = IF stops = {} THEN BEYOND
          ELSE IF left(c) # 0 THEN "INVALID_LENGTH"
          ELSE FirstOf(SubSeq(list, 1, c), ValidatePacketQueue)
  BY DEF ValidateQueues
<1>2. CASE stops = {}
  BY <1>1, <1>2
<1>3. CASE stops # {}
  <2>1. stops \subseteq Nat
    BY <1>0
  <2>2. \E k \in stops : \A j \in stops : k <= j
    <3>. HIDE DEF stops
    <3>. QED
      BY <1>3, <2>1, Least
  <2>3. c \in stops
    <3>. HIDE DEF stops
    <3>. QED
      BY <2>2
  <2>4. c \in 0 .. Len(list) /\ left(c) <= QueueSize
    BY <2>3
  <2>. HIDE DEF c, stops
  <2>5. CASE left(c) # 0
    BY <1>1, <1>3, <2>4, <2>5
  <2>6. CASE left(c) = 0
    <3>1. ValidateQueues(list, length)
            = FirstOf(SubSeq(list, 1, c), ValidatePacketQueue)
      BY <1>1, <1>3, <2>6
    <3>. QED
      BY <2>4, <2>6, <3>1
  <2>. QED
    BY <2>5, <2>6
<1>. QED
  BY <1>2, <1>3

\* The first n elements of a list.
LEMMA BeginningIs ==
  ASSUME NEW list, IsSequence(list), NEW n \in 0 .. Len(list)
  PROVE  /\ Len(SubSeq(list, 1, n)) = n
         /\ \A i \in 1 .. n : SubSeq(list, 1, n)[i] = list[i]
<1>1. PICK S : list \in Seq(S)
  BY DEF IsSequence
<1>2. Len(list) \in Nat
  BY <1>1
<1>. QED
  BY <1>1, <1>2

\* The queues of a reply that fill it are judged in the message.
LEMMA QueuesStay ==
  ASSUME NEW list, IsList(list), NEW length \in 0 .. USHRT_MAX,
         Bytes(list, Len(list)) = length,
         \A i \in DOMAIN list : IsList(list[i].properties),
         \A i \in DOMAIN list :
           FillsItsLength(list[i], QueueSize, list[i].properties)
  PROVE  ValidateQueues(list, length) # BEYOND
<1>1. Len(list) \in Nat /\ DOMAIN list = 1 .. Len(list)
  BY BytesStep
<1>2. ASSUME NEW i \in DOMAIN list
      PROVE  ValidatePacketQueue(list[i]) # BEYOND /\ list[i].len > 0
  <2>1. PICK q : q = list[i]
    OBVIOUS
  <2>2. IsList(q.properties) /\ q.len \in 0 .. USHRT_MAX
        /\ FillsItsLength(q, QueueSize, q.properties)
    BY <2>1 DEF IsList
  <2>3. ValidatePacketQueue(q) # BEYOND
    BY <2>2, QueueStays
  <2>4. q.len > 0
    <3>1. PICK list2 : list2 = q.properties
      OBVIOUS
    <3>2. IsList(list2) /\ Len(list2) \in Nat
      BY <2>2, <3>1, BytesStep
    <3>3. PICK all \in Nat : all = Bytes(list2, Len(list2))
      <4>1. Bytes(list2, Len(list2)) \in Nat
        BY <3>2, BytesStep
      <4>. QED
        BY <4>1
    <3>. QED
      BY <2>2, <3>1, <3>3 DEF FillsItsLength, QueueSize
  <2>. QED
    BY <2>1, <2>3, <2>4
<1>3. Left(length, Bytes(list, Len(list))) <= QueueSize
  <2>1. length - length = 0
    BY Short
  <2>2. U16(0) = 0
    BY DEF U16
  <2>. QED
    BY <2>1, <2>2 DEF Left, QueueSize
<1>4. Len(list) \in 0 .. Len(list) /\ \A i \in 1 .. Len(list) : list[i].len > 0
  BY <1>1, <1>2
<1>5. ASSUME NEW n \in 0 .. Len(list)
      PROVE  FirstOf(SubSeq(list, 1, n), ValidatePacketQueue) # BEYOND
  <2>. DEFINE part == SubSeq(list, 1, n)
              s == [i \in 1 .. Len(part) |-> ValidatePacketQueue(part[i])]
  <2>1. Len(part) = n /\ \A i \in 1 .. n : part[i] = list[i]
    BY BeginningIs DEF IsList
  <2>. HIDE DEF part
  <2>2. n \in Nat /\ DOMAIN s = 1 .. n /\ \A i \in 1 .. n : s[i] # BEYOND
    BY <1>1, <1>2, <2>1
  <2>3. FirstError(s) # BEYOND
    <3>. HIDE DEF s
    <3>. QED
      BY <2>2, SeriesStays
  <2>. QED
    BY <2>3 DEF FirstOf, part
<1>. QED
  BY <1>3, <1>4, <1>5, QueuesEnd DEF BEYOND

\* What is left for the list of a message, as the validators compute it.
LEMMA ListLengthIs ==
  ASSUME NEW m \in Messages, m.hdr >= MinLength(m), HasList(m)
  PROVE  /\ ListLength(m) \in 0 .. USHRT_MAX
         /\ m.type = "FLOW_MOD" => U16(m.hdr - 72) = ListLength(m)
         /\ m.type = "PACKET_OUT" => m.body.actions_len = ListLength(m)
         /\ m.type = "STATS_REPLY"
              => U16(m.hdr - StatsHeaderSize) = ListLength(m)
         /\ m.type = "QUEUE_GET_CONFIG_REPLY"
              => U16(m.hdr - 16) = ListLength(m)
<1>1. CASE m.type = "FLOW_MOD"
  <2>1. m.hdr >= 72
    BY <1>1 DEF MinLength, MinSize
  <2>2. m.hdr \in 0 .. USHRT_MAX
    BY MessagesAssumption
  <2>3. m.hdr - 72 \in 0 .. USHRT_MAX
    BY <2>1, <2>2, Short
  <2>. QED
    BY <1>1, <2>3, Wraps DEF ListLength
<1>2. CASE m.type = "PACKET_OUT"
  BY <1>2, BodiesAssumption DEF ListLength
<1>3. CASE m.type = "STATS_REPLY"
  <2>1. m.hdr >= 12
    BY <1>3 DEF MinLength, MinSize
  <2>2. m.hdr \in 0 .. USHRT_MAX
    BY MessagesAssumption
  <2>3. m.hdr - 12 \in 0 .. USHRT_MAX
    BY <2>1, <2>2, Short
  <2>. QED
    BY <1>3, <2>3, Wraps DEF ListLength, StatsHeaderSize
<1>4. CASE m.type = "QUEUE_GET_CONFIG_REPLY"
  <2>1. m.hdr >= 24
    BY <1>4 DEF MinLength, MinSize
  <2>2. m.hdr \in 0 .. USHRT_MAX
    BY MessagesAssumption
  <2>3. m.hdr - 16 \in 0 .. USHRT_MAX
    BY <2>1, <2>2, Short
  <2>. QED
    BY <1>4, <2>3, Wraps DEF ListLength
<1>. QED
  BY <1>1, <1>2, <1>3, <1>4 DEF HasList

\* A message without such a list is judged within what was read.
LEMMA OthersStay ==
  ASSUME NEW m \in Messages, ~HasList(m)
  PROVE  ValidateBody(m) # BEYOND
<1>. DEFINE b == m.body
<1>1. CASE m.type = "FEATURES_REPLY"
  <2>1. IsSequence(m.body.ports)
    BY <1>1, BodiesAssumption
  <2>2. ValidateBody(m) = ValidateFeaturesReply(m.body, U16(m.hdr - 32))
    BY <1>1 DEF ValidateBody
  <2>. QED
    BY <2>1, <2>2, BodiesStay
<1>2. CASE m.type = "STATS_REPLY"
  <2>1. m.body.stype # "FLOW"
    BY <1>2 DEF HasList
  <2>2. ValidateBody(m)
          = ValidateStatsReplyBody(m.body, U16(m.hdr - StatsHeaderSize))
    BY <1>2 DEF ValidateBody
  <2>3. ASSUME NEW length, m.body.stype \in DOMAIN EntrySize
        PROVE  ValidateEntries(m.body, length) # BEYOND
    <3>1. IsSequence(m.body.entries)
      BY <1>2, <2>3, BodiesAssumption
    <3>2. FirstOf(m.body.entries, ValidateWildcards) # BEYOND
      BY <3>1, SequenceStays
    <3>3. FirstOf(m.body.entries, ValidatePhyPortNo) # BEYOND
      BY <3>1, SequenceStays
    <3>. QED
      BY <3>2, <3>3 DEF ValidateEntries, BEYOND
  <2>4. Check(m.body.flags = 0 \/ (m.body.flags = 1 /\ m.body.stype \notin
                {"DESC", "AGGREGATE"}), "INVALID_STATS_REPLY_FLAGS") # BEYOND
    BY DEF Check, OK, BEYOND
  <2>5. OK # BEYOND
    BY DEF OK, BEYOND
  <2>. DEFINE length == U16(m.hdr - StatsHeaderSize)
              second == CASE m.body.stype = "FLOW" ->
                               ValidateFlows(m.body.entries, length)
                          [] m.body.stype \in DOMAIN EntrySize ->
                               ValidateEntries(m.body, length)
                          [] OTHER -> OK
  <2>6. second # BEYOND
    <3>. HIDE DEF length
    <3>1. CASE m.body.stype \in DOMAIN EntrySize
      BY <2>1, <2>3, <3>1
    <3>2. CASE m.body.stype \notin DOMAIN EntrySize
      BY <2>1, <2>5, <3>2
    <3>. QED
      BY <3>1, <3>2
  <2>7. ValidateStatsReplyBody(m.body, length)
          = FirstError(<< Check(m.body.flags = 0 \/ (m.body.flags = 1
                            /\ m.body.stype \notin {"DESC", "AGGREGATE"}),
                            "INVALID_STATS_REPLY_FLAGS"), second >>)
    BY DEF ValidateStatsReplyBody
  <2>. HIDE DEF second, length
  <2>8. ValidateStatsReplyBody(m.body, length) # BEYOND
    BY <2>4, <2>6, <2>7, TupleStays
  <2>. QED
    BY <2>2, <2>8 DEF length
<1>3. CASE m.type \notin {"FEATURES_REPLY", "STATS_REPLY"}
  <2>1. OK # BEYOND
    BY DEF OK, BEYOND
  <2>2. m.type \notin {"FLOW_MOD", "PACKET_OUT", "QUEUE_GET_CONFIG_REPLY"}
    BY DEF HasList
  <2>. QED
    BY <1>3, <2>1, <2>2, BodiesStay, FieldsStay DEF ValidateBody
<1>. QED
  BY <1>1, <1>2, <1>3

\* A message whose list fills its bytes is judged within what was read.
LEMMA FittingStays ==
  ASSUME NEW m \in Messages, m.hdr >= MinLength(m), Tiles(m)
  PROVE  ValidateBody(m) # BEYOND
<1>. SUFFICES ASSUME HasList(m) PROVE ValidateBody(m) # BEYOND
  BY OthersStay
<1>1. PICK list : list = ListOf(m)
  OBVIOUS
<1>2. PICK length : length = ListLength(m)
  OBVIOUS
<1>3. length \in 0 .. USHRT_MAX
  BY <1>2, ListLengthIs
<1>4. IsList(list) /\ Bytes(list, Len(list)) = length
  BY <1>1, <1>2, BodiesAssumption DEF Tiles
<1>5. CASE m.type = "FLOW_MOD"
  <2>1. ValidateBody(m) = ValidateFlowMod(m.body, length)
    BY <1>2, <1>5, ListLengthIs DEF ValidateBody
  <2>2. ValidateActions(m.body.actions, length) # BEYOND
    BY <1>1, <1>3, <1>4, <1>5, ActionsStay DEF ListOf
  <2>3. /\ Check(m.body.command <= 4, "UNDEFINED_FLOW_MOD_COMMAND") # BEYOND
        /\ Check(m.body.flags \subseteq FLOW_MOD_FLAGS,
                 "INVALID_FLOW_MOD_FLAGS") # BEYOND
        /\ OK # BEYOND
    BY DEF Check, OK, BEYOND
  <2>4. (IF m.body.command \in {3, 4} /\ m.body.out_port # OFPP_NONE
          THEN ValidatePhyPortNo(m.body.out_port) ELSE OK) # BEYOND
    BY <2>3, FieldsStay
  <2>5. ValidateFlowMod(m.body, length) # BEYOND
    BY <2>2, <2>3, <2>4, MatchStays, FieldsStay, TupleStays
       DEF ValidateFlowMod
  <2>. QED
    BY <2>1, <2>5
<1>6. CASE m.type = "PACKET_OUT"
  <2>1. ValidateBody(m) = ValidatePacketOut(m.body)
    BY <1>6 DEF ValidateBody
  <2>2. ValidateActions(m.body.actions, m.body.actions_len) # BEYOND
    BY <1>1, <1>2, <1>3, <1>4, <1>6, ActionsStay DEF ListOf, ListLength
  <2>3. ValidatePacketOut(m.body) # BEYOND
    BY <2>2, FieldsStay, TupleStays DEF ValidatePacketOut
  <2>. QED
    BY <2>1, <2>3
<1>7. CASE m.type = "STATS_REPLY"
  <2>1. m.body.stype = "FLOW" /\ list = m.body.entries
    BY <1>1, <1>7 DEF HasList, ListOf
  <2>2. ValidateBody(m) = ValidateStatsReplyBody(m.body, length)
    BY <1>2, <1>7, ListLengthIs DEF ValidateBody
  <2>3. /\ \A i \in DOMAIN list : IsList(list[i].actions)
        /\ \A i \in DOMAIN list :
             FillsItsLength(list[i], FlowStatsSize, list[i].actions)
    BY <1>1, <1>7, BodiesAssumption DEF Tiles
  <2>4. ValidateFlows(list, length) # BEYOND
    BY <1>3, <1>4, <2>3, FlowsStay
  <2>5. Check(m.body.flags = 0 \/ (m.body.flags = 1 /\ m.body.stype \notin
                {"DESC", "AGGREGATE"}), "INVALID_STATS_REPLY_FLAGS") # BEYOND
    BY DEF Check, OK, BEYOND
  <2>6. ValidateStatsReplyBody(m.body, length)
          = FirstError(<< Check(m.body.flags = 0 \/ (m.body.flags = 1
                            /\ m.body.stype \notin {"DESC", "AGGREGATE"}),
                            "INVALID_STATS_REPLY_FLAGS"),
                          ValidateFlows(list, length) >>)
    <3>1. "FLOW" \notin DOMAIN EntrySize
      BY DEF EntrySize
    <3>. QED
      BY <2>1, <3>1 DEF ValidateStatsReplyBody
  <2>. QED
    BY <2>2, <2>4, <2>5, <2>6, TupleStays
<1>8. CASE m.type = "QUEUE_GET_CONFIG_REPLY"
  <2>1. list = m.body.queues
    BY <1>1, <1>8 DEF ListOf
  <2>2. ValidateBody(m) = ValidateQueueReply(m.body, length)
    BY <1>2, <1>8, ListLengthIs DEF ValidateBody
  <2>3. /\ \A i \in DOMAIN list : IsList(list[i].properties)
        /\ \A i \in DOMAIN list :
             FillsItsLength(list[i], QueueSize, list[i].properties)
    BY <1>1, <1>8, BodiesAssumption DEF Tiles
  <2>4. ValidateQueues(list, length) # BEYOND
    BY <1>3, <1>4, <2>3, QueuesStay
  <2>. QED
    BY <2>1, <2>2, <2>4, FieldsStay, TupleStays DEF ValidateQueueReply
<1>. QED
  BY <1>5, <1>6, <1>7, <1>8 DEF HasList

\* Both checks of a pair pass if their series does.
LEMMA PairPasses ==
  ASSUME NEW a, NEW b, FirstError(<<a, b>>) = OK
  PROVE  a = OK /\ b = OK
<1>. DEFINE s == <<a, b>>
<1>1. DOMAIN s = 1 .. 2
  OBVIOUS
<1>2. \A i \in 1 .. 2 : s[i] = OK
  <2>. HIDE DEF s
  <2>. QED
    BY <1>1, FirstErrorOf DEF s
<1>3. s[1] = OK /\ s[2] = OK
  <2>. HIDE DEF s
  <2>. QED
    BY <1>2
<1>. QED
  BY <1>3

\* Where five checks pass, the sixth decides.
LEMMA SixthDecides ==
  ASSUME NEW a, NEW b, NEW c, NEW d, NEW e, NEW f, NEW g,
         FirstError(<<a, b, c, d, e, f>>) = OK
  PROVE  FirstError(<<a, b, c, d, e, g>>) = g
<1>. DEFINE s == <<a, b, c, d, e, f>>
            r == <<a, b, c, d, e, g>>
<1>1. DOMAIN s = 1 .. 6 /\ DOMAIN r = 1 .. 6
  OBVIOUS
<1>2. FirstError(s) = OK
  OBVIOUS
<1>3. \A i \in 1 .. 6 : s[i] = OK
  <2>. HIDE DEF s
  <2>. QED
    BY <1>1, <1>2, FirstErrorOf
<1>4. s[1] = OK /\ s[2] = OK /\ s[3] = OK /\ s[4] = OK /\ s[5] = OK
  <2>. HIDE DEF s
  <2>. QED
    BY <1>3
<1>5. \A i \in 1 .. 5 : r[i] = OK
  BY <1>4
<1>6. r[6] = g
  OBVIOUS
<1>7. FirstError(r) = g
  <2>. HIDE DEF r
  <2>1. CASE FirstError(r) = OK /\ \A i \in 1 .. 6 : r[i] = OK
    BY <1>6, <2>1
  <2>2. ASSUME NEW i \in 1 .. 6, FirstError(r) = r[i], r[i] # OK
        PROVE  FirstError(r) = g
    BY <1>5, <1>6, <2>2
  <2>. QED
    BY ZenonT(60), <1>1, <2>1, <2>2, FirstErrorOf
<1>. QED
  BY <1>7

\* An accepted reply's countdown ended at zero, so its list fills it.
LEMMA AcceptedFill ==
  ASSUME NEW m \in Messages, Validate(m) = OK, HasList(m),
         m.type \in {"STATS_REPLY", "QUEUE_GET_CONFIG_REPLY"}
  PROVE  Bytes(ListOf(m), Len(ListOf(m))) = ListLength(m)
<1>0. m.hdr = m.len /\ m.hdr >= MinLength(m)
  <2>1. m.hdr \in Nat /\ m.len \in Nat
    BY MessagesAssumption, Short
  <2>. QED
    BY <2>1, AcceptedHeader, HeaderAccepts
<1>1. ValidateBody(m) = OK
  <2>1. ValidateHeader(m, m.type, Types, MinLength(m), MaxLength(m)) = OK
    BY AcceptedHeader
  <2>2. "UNDEFINED_TYPE" # OK /\ "UNSUPPORTED_STATS_TYPE" # OK
    BY DEF OK
  <2>. QED
    BY <2>1, <2>2 DEF Validate
<1>2. PICK list : list = ListOf(m)
  OBVIOUS
<1>3. PICK length : length = ListLength(m)
  OBVIOUS
<1>4. IsList(list) /\ length \in 0 .. USHRT_MAX
  BY <1>0, <1>2, <1>3, ListLengthIs, BodiesAssumption
<1>5. Standing(list, ElementSize(m), length)
  BY <1>0, <1>2, <1>3, BodiesAssumption
<1>6. ElementSize(m) \in Nat /\ ElementSize(m) > 0
  BY DEF ElementSize, FlowStatsSize, QueueSize, HeaderSize
<1>7. Len(list) \in Nat
  BY <1>4, BytesStep
<1>8. \E k \in 0 .. Len(list) : Left(length, Bytes(list, k)) = 0
  <2>1. CASE m.type = "STATS_REPLY"
    <3>1. m.body.stype = "FLOW" /\ list = m.body.entries
      BY <1>2, <2>1 DEF HasList, ListOf
    <3>2. ValidateStatsReplyBody(m.body, length) = OK
      BY <1>0, <1>1, <1>3, <2>1, ListLengthIs DEF ValidateBody
    <3>3. "FLOW" \notin DOMAIN EntrySize
      BY DEF EntrySize
    <3>4. ValidateFlows(list, length) = OK
      BY <3>1, <3>2, <3>3, PairPasses DEF ValidateStatsReplyBody
    <3>5. PICK k \in 1 .. Len(list) + 1 :
            Left(length, Bytes(list, k - 1)) = 0
      BY <1>4, <3>4, FlowsEnd DEF OK, BEYOND
    <3>. QED
      BY <1>7, <3>5
  <2>2. CASE m.type = "QUEUE_GET_CONFIG_REPLY"
    <3>1. list = m.body.queues
      BY <1>2, <2>2 DEF ListOf
    <3>2. ValidateQueueReply(m.body, length) = OK
      BY <1>0, <1>1, <1>3, <2>2, ListLengthIs DEF ValidateBody
    <3>3. ValidateQueues(list, length) = OK
      BY <3>1, <3>2, PairPasses DEF ValidateQueueReply
    <3>. QED
      BY <1>4, <3>3, QueuesEnd DEF OK, BEYOND
  <2>. QED
    BY <2>1, <2>2
<1>. QED
  BY <1>2, <1>3, <1>4, <1>5, <1>6, <1>8, CountdownEnds

\* A walk over actions that fill the message finds the first bad one.
LEMMA WalkDecides ==
  ASSUME NEW list, IsList(list), NEW length \in 0 .. USHRT_MAX,
         Bytes(list, Len(list)) = length, Standing(list, HeaderSize, length),
         ValidateActions(list, length) # BEYOND
  PROVE  ValidateActions(list, length) = FirstOf(list, ValidateAction)
<1>. DEFINE res == [i \in 1 .. Len(list) |-> ValidateAction(list[i])]
<1>1. PICK w : /\ IsWalk(w, list, length, res)
               /\ ValidateActions(list, length) = w[1]
  BY ActionsWalked
<1>2. /\ Len(list) \in Nat /\ DOMAIN list = 1 .. Len(list)
      /\ \A i \in 0 .. Len(list) : Bytes(list, i) \in Nat
  BY BytesStep
<1>3. DOMAIN res = 1 .. Len(list)
  OBVIOUS
<1>4. FirstOf(list, ValidateAction) = FirstError(res)
  BY DEF FirstOf
<1>. HIDE DEF res
<1>5. PICK k \in 1 .. Len(list) + 1 :
        /\ \A j \in 1 .. k - 1 : res[j] = OK
        /\ \/ Bytes(list, k - 1) > USHRT_MAX /\ w[1] = BEYOND
           \/ Bytes(list, k - 1) >= length /\ w[1] = OK
           \/ /\ k = Len(list) + 1 /\ w[1] = BEYOND
           \/ /\ k <= Len(list)
              /\ res[k] # OK /\ w[1] = res[k]
  BY <1>1, WalkEnds
<1>6. CASE Bytes(list, k - 1) >= length /\ w[1] = OK
  <2>1. k = Len(list) + 1
    <3>. SUFFICES ASSUME k # Len(list) + 1 PROVE FALSE
      OBVIOUS
    <3>1. k \in DOMAIN list
      BY <1>2
    <3>2. Bytes(list, k - 1) + 8 <= length
      BY <3>1 DEF Standing, HeaderSize
    <3>3. PICK b \in Nat : b = Bytes(list, k - 1)
      BY <1>2
    <3>. QED
      BY <1>6, <3>2, <3>3, Short
  <2>2. \A i \in 1 .. Len(list) : res[i] = OK
    BY <1>2, <1>5, <2>1
  <2>. QED
    BY <1>1, <1>2, <1>3, <1>4, <1>6, <2>2, FirstErrorOf
<1>7. CASE k <= Len(list) /\ res[k] # OK /\ w[1] = res[k]
  <2>1. k \in 1 .. Len(list)
    BY <1>2, <1>7
  <2>2. \A i \in 1 .. Len(list) :
          res[i] # OK /\ (\A j \in 1 .. i - 1 : res[j] = OK) => i = k
    BY <1>2, <1>5, <1>7, <2>1
  <2>. QED
    BY <1>1, <1>2, <1>3, <1>4, <1>7, <2>1, <2>2, FirstErrorOf
<1>. QED
  BY <1>1, <1>5, <1>6, <1>7

\* A flow_mod with nothing else wrong is judged by its first bad action.
LEMMA FirstBadAction ==
  ASSUME NEW m \in Messages, m.type = "FLOW_MOD", Tiles(m),
         Validate(m) # BEYOND,
         ValidateHeader(m, "FLOW_MOD", Types, 72, USHRT_MAX) = OK,
         ValidateFlowMod([m.body EXCEPT !.actions = <<>>], 0) = OK
  PROVE  Validate(m) = FirstOf(m.body.actions, ValidateAction)
<1>1. HasList(m) /\ MinLength(m) = 72 /\ MaxLength(m) = USHRT_MAX
      /\ m.type \in Types /\ ~IsStats(m)
  BY DEF HasList, MinLength, MaxLength, MinSize, Types, OpenEnded, IsStats
<1>2. m.hdr = m.len /\ m.hdr >= MinLength(m)
  <2>1. m.hdr \in Nat /\ m.len \in Nat
    BY MessagesAssumption, Short
  <2>. QED
    BY <1>1, <2>1, HeaderAccepts
<1>3. Validate(m) = ValidateBody(m)
  BY <1>1 DEF Validate
<1>4. PICK list : list = m.body.actions
  OBVIOUS
<1>5. PICK length : length = ListLength(m)
  OBVIOUS
<1>6. ListOf(m) = list /\ ElementSize(m) = HeaderSize
  BY <1>4 DEF ListOf, ElementSize
<1>7. /\ IsList(list) /\ length \in 0 .. USHRT_MAX
      /\ Bytes(list, Len(list)) = length
      /\ Standing(list, HeaderSize, length)
  BY <1>1, <1>2, <1>5, <1>6, ListLengthIs, BodiesAssumption DEF Tiles
<1>8. ValidateBody(m) = ValidateFlowMod(m.body, length)
  BY <1>1, <1>2, <1>5, ListLengthIs DEF ValidateBody
<1>9. ValidateFlowMod(m.body, length) = ValidateActions(list, length)
  <2>. DEFINE b == m.body
              e == [m.body EXCEPT !.actions = <<>>]
  <2>1. {"match", "command", "priority", "out_port", "flags", "actions"}
          \subseteq DOMAIN b
    BY BodiesAssumption
  <2>2. /\ e.match = b.match /\ e.command = b.command
        /\ e.priority = b.priority /\ e.out_port = b.out_port
        /\ e.flags = b.flags
    BY <2>1
  <2>. DEFINE One == ValidateMatch(b.match)
              Two == Check(b.command <= 4, "UNDEFINED_FLOW_MOD_COMMAND")
              Three == ValidatePriority(b.match, b.priority)
              Four == IF b.command \in {3, 4} /\ b.out_port # OFPP_NONE
                        THEN ValidatePhyPortNo(b.out_port) ELSE OK
              Five == Check(b.flags \subseteq FLOW_MOD_FLAGS,
                            "INVALID_FLOW_MOD_FLAGS")
  <2>3. FirstError(<<One, Two, Three, Four, Five,
                     ValidateActions(e.actions, 0)>>) = OK
    <3>. HIDE DEF e
    <3>. QED
      BY <2>2 DEF ValidateFlowMod, e
  <2>4. ValidateFlowMod(b, length)
          = FirstError(<<One, Two, Three, Four, Five,
                         ValidateActions(list, length)>>)
    BY <1>4 DEF ValidateFlowMod
  <2>. HIDE DEF One, Two, Three, Four, Five, e
  <2>. QED
    BY <2>3, <2>4, SixthDecides
<1>10. ValidateActions(list, length) = FirstOf(list, ValidateAction)
  BY <1>3, <1>7, <1>8, <1>9, WalkDecides
<1>. QED
  BY <1>3, <1>4, <1>8, <1>9, <1>10
-----------------------------------------------------------------------------
\* The verdict is about the message that was read last.
JudgedLast == Judged => last \in Messages /\ verdict = Validate(last)

\* Every message is judged by Validate, and once.
LEMMA JudgedInvariance == Spec => []JudgedLast
<1>1. Init => JudgedLast
  BY DEF Init, JudgedLast, Judged
<1>2. IInv /\ JudgedLast /\ [Next]_vars => JudgedLast'
  <2>. SUFFICES ASSUME IInv, JudgedLast, [Next]_vars PROVE JudgedLast'
    OBVIOUS
  <2>1. CASE UNCHANGED vars
    BY <2>1 DEF vars, JudgedLast, Judged
  <2>2. ASSUME NEW m \in Messages, Receive(m) PROVE JudgedLast'
    BY <2>2 DEF Receive, IInv, JudgedLast, Judged
  <2>3. CASE Handle
    BY <2>3 DEF Handle, IInv, JudgedLast, Judged
  <2>4. CASE Return
    BY <2>4 DEF Return, JudgedLast, Judged
  <2>. QED
    BY <2>1, <2>2, <2>3, <2>4 DEF Next
<1>. QED
  BY <1>1, <1>2, Invariance, PTL DEF Spec

\* No validator reads beyond what was received of a message whose length fields
\* agree, whatever the lists in it: validate_actions, validate_flow_stats,
\* validate_packet_queues and validate_queue_properties all stop inside it.
THEOREM OnlyMisfitsLeave == Spec => []BeyondOnlyIfMisfit
<1>1. JudgedLast => BeyondOnlyIfMisfit
  <2>. SUFFICES ASSUME JudgedLast, verdict = BEYOND, Tiles(last) PROVE FALSE
    BY DEF BeyondOnlyIfMisfit
  <2>1. last \in Messages /\ Validate(last) = BEYOND
    BY DEF JudgedLast, Judged, BEYOND
  <2>2. ValidateHeader(last, last.type, Types, MinLength(last),
                       MaxLength(last)) = OK
    BY <2>1, AcceptedHeader
  <2>3. last.hdr >= MinLength(last)
    <3>1. last.hdr \in Nat /\ last.len \in Nat
      BY <2>1, MessagesAssumption, Short
    <3>. QED
      BY <2>2, <3>1, HeaderAccepts
  <2>4. ValidateBody(last) = BEYOND
    <3>1. "UNDEFINED_TYPE" # BEYOND /\ "UNSUPPORTED_STATS_TYPE" # BEYOND
      BY DEF BEYOND
    <3>. QED
      BY <2>1, <2>2, <3>1 DEF Validate
  <2>. QED
    BY <2>1, <2>3, <2>4, FittingStays
<1>. QED
  BY <1>1, JudgedInvariance, PTL

\* The flows of a statistics reply that is found good by its own bytes, and the
\* queues of such a queue reply, however many, fill it to the byte: the 16-bit
\* countdown, where it wraps, never comes out at 0 before the last of them.
THEOREM ListsFilled == Spec => []GoodListsFill
<1>1. JudgedLast => GoodListsFill
  <2>1. OK # "none"
    BY DEF OK
  <2>. QED
    BY <2>1, AcceptedFill DEF JudgedLast, Judged, GoodListsFill
<1>. QED
  BY <1>1, JudgedInvariance, PTL

\* validate_actions judges a list that fills a flow_mod like its first bad
\* action, the one at the very end included, for lists of any length.
THEOREM BadActionDecides == Spec => []FirstBadActionDecides
<1>1. JudgedLast => FirstBadActionDecides
  BY FirstBadAction DEF JudgedLast, Judged, FirstBadActionDecides
<1>. QED
  BY <1>1, JudgedInvariance, PTL
-----------------------------------------------------------------------------
(***************************************************************************)
(* What is made of valid parts is valid.                                   *)
(***************************************************************************)
\* Actions that are valid and fill their bytes pass the walk.
LEMMA ActionsPass ==
  ASSUME NEW list, IsList(list), NEW length \in 0 .. USHRT_MAX,
         Bytes(list, Len(list)) = length,
         \A i \in DOMAIN list : ValidateAction(list[i]) = OK
  PROVE  ValidateActions(list, length) = OK
<1>. DEFINE res == [i \in 1 .. Len(list) |-> ValidateAction(list[i])]
<1>1. PICK w : /\ IsWalk(w, list, length, res)
               /\ ValidateActions(list, length) = w[1]
  BY ActionsWalked
<1>2. /\ Len(list) \in Nat /\ DOMAIN list = 1 .. Len(list)
      /\ \A i \in 0 .. Len(list) : Bytes(list, i) \in Nat
  BY BytesStep
<1>3. \A i \in 1 .. Len(list) : res[i] = OK
  BY <1>2
<1>. HIDE DEF res
<1>4. PICK k \in 1 .. Len(list) + 1 :
        \/ Bytes(list, k - 1) > USHRT_MAX /\ w[1] = BEYOND
        \/ Bytes(list, k - 1) >= length /\ w[1] = OK
        \/ /\ k = Len(list) + 1
           /\ Bytes(list, k - 1) < length /\ w[1] = BEYOND
        \/ /\ k <= Len(list)
           /\ res[k] # OK /\ w[1] = res[k]
  BY <1>1, WalkEnds
<1>5. ~(Bytes(list, k - 1) > USHRT_MAX)
  <2>1. k - 1 \in 0 .. Len(list) /\ Len(list) \in k - 1 .. Len(list)
    BY <1>2
  <2>2. Bytes(list, k - 1) <= length /\ Bytes(list, k - 1) \in Nat
    BY <1>2, <2>1, BytesMono
  <2>. QED
    BY <2>2, Short
<1>6. ~(k = Len(list) + 1 /\ Bytes(list, k - 1) < length)
  <2>1. (Len(list) + 1) - 1 = Len(list)
    BY <1>2
  <2>. QED
    BY <2>1, Short
<1>7. ~(k <= Len(list) /\ res[k] # OK)
  BY <1>2, <1>3
<1>. QED
  BY <1>1, <1>4, <1>5, <1>6, <1>7

\* A length less all that fills it leaves nothing.
LEMMA NothingLeft ==
  ASSUME NEW n \in 0 .. USHRT_MAX
  PROVE  Left(n, n) = 0
<1>1. n - n = 0
  BY Short
<1>. QED
  BY <1>1 DEF Left, U16

\* Flows that are valid and fill their bytes pass the countdown.
LEMMA FlowsPass ==
  ASSUME NEW list, IsList(list), NEW length \in 0 .. USHRT_MAX,
         Bytes(list, Len(list)) = length,
         \A i \in DOMAIN list : ValidateFlowStats(list[i]) = OK
  PROVE  ValidateFlows(list, length) = OK
<1>1. Len(list) \in Nat /\ DOMAIN list = 1 .. Len(list)
  BY BytesStep
<1>2. (Len(list) + 1) - 1 = Len(list)
  BY <1>1
<1>3. \A k \in 1 .. Len(list) + 1 : k <= Len(list) => k \in DOMAIN list
  BY <1>1
<1>. QED
  BY <1>2, <1>3, NothingLeft, FlowsEnd

\* Queues that are valid and fill their bytes pass both loops: what is left
\* before the last one is more than the header of a queue.
LEMMA QueuesPass ==
  ASSUME NEW list, IsList(list), NEW length \in 0 .. USHRT_MAX,
         Bytes(list, Len(list)) = length,
         \A i \in DOMAIN list : ValidatePacketQueue(list[i]) = OK
  PROVE  ValidateQueues(list, length) = OK
<1>0. Len(list) \in Nat /\ DOMAIN list = 1 .. Len(list)
  BY BytesStep
<1>1. /\ \A n \in 0 .. Len(list) : Bytes(list, n) \in Nat
      /\ \A n \in 1 .. Len(list) :
           Bytes(list, n) = Bytes(list, n - 1) + list[n].len
  BY BytesStep
<1>2. ASSUME NEW i \in DOMAIN list
      PROVE  list[i].len \in Nat /\ list[i].len >= 16
  <2>1. ~(list[i].len < QueueSize + HeaderSize)
    BY DEF ValidatePacketQueue, OK
  <2>2. list[i].len \in Nat
    BY Short DEF IsList
  <2>. QED
    BY <2>1, <2>2 DEF QueueSize, HeaderSize
<1>3. ASSUME NEW n \in 0 .. Len(list)
      PROVE  \/ Left(length, Bytes(list, n)) = 0
             \/ ~(Left(length, Bytes(list, n)) <= QueueSize)
  <2>1. CASE n = Len(list)
    BY <2>1, NothingLeft
  <2>2. CASE n # Len(list)
    <3>0. \A l \in Nat : \A k \in 0 .. l :
            k # l => k + 1 \in 1 .. l /\ (k + 1) - 1 = k
      BY SMTT(30)
    <3>1. n + 1 \in 1 .. Len(list) /\ (n + 1) - 1 = n
      BY <1>0, <2>2, <3>0
    <3>2. n + 1 \in 0 .. Len(list) /\ Len(list) \in n + 1 .. Len(list)
      BY <1>0, <3>1
    <3>3. PICK a \in Nat : a = Bytes(list, n)
      BY <1>1
    <3>4. PICK b \in Nat : b = Bytes(list, n + 1)
      BY <1>1, <3>2
    <3>5. b <= length
      BY <3>2, <3>4, BytesMono
    <3>6. PICK z \in Nat : z = list[n + 1].len /\ z >= 16
      BY <1>0, <1>2, <3>1
    <3>7. b = a + z
      BY <1>1, <3>1, <3>3, <3>4, <3>6
    <3>8. length - a \in 0 .. USHRT_MAX /\ length - a >= 16
      BY SMTT(30), <3>5, <3>6, <3>7, Short
    <3>9. Left(length, a) = length - a
      BY <3>8, Wraps DEF Left
    <3>10. PICK d \in Nat : d = Left(length, a) /\ d >= 16
      BY <3>8, <3>9, Short
    <3>. QED
      BY <3>3, <3>10 DEF QueueSize
  <2>. QED
    BY <2>1, <2>2
<1>4. \A i \in 1 .. Len(list) : list[i].len > 0
  BY <1>0, <1>2
<1>5. Left(length, Bytes(list, Len(list))) <= QueueSize
  BY NothingLeft DEF QueueSize
<1>6. Len(list) \in 0 .. Len(list)
  BY <1>0
<1>7. ASSUME NEW n \in 0 .. Len(list)
      PROVE  FirstOf(SubSeq(list, 1, n), ValidatePacketQueue) = OK
  <2>. DEFINE part == SubSeq(list, 1, n)
              s == [i \in 1 .. Len(part) |-> ValidatePacketQueue(part[i])]
  <2>1. Len(part) = n /\ \A i \in 1 .. n : part[i] = list[i]
    BY BeginningIs DEF IsList
  <2>. HIDE DEF part
  <2>2. n \in Nat /\ DOMAIN s = 1 .. n /\ \A i \in 1 .. n : s[i] = OK
    BY <1>0, <2>1
  <2>3. FirstError(s) = OK
    <3>. HIDE DEF s
    <3>. QED
      BY <2>2, FirstErrorOf
  <2>. QED
    BY <2>3 DEF FirstOf, part
<1>. QED
  BY <1>3, <1>4, <1>5, <1>6, <1>7, QueuesEnd

\* Elements that are all valid have no first error.
LEMMA AllPass ==
  ASSUME NEW list, IsSequence(list)
  PROVE  /\ (\A i \in DOMAIN list : ValidatePhyPort(list[i]) = OK)
              => FirstOf(list, ValidatePhyPort) = OK
         /\ (\A i \in DOMAIN list : ValidateWildcards(list[i]) = OK)
              => FirstOf(list, ValidateWildcards) = OK
         /\ (\A i \in DOMAIN list : ValidatePhyPortNo(list[i]) = OK)
              => FirstOf(list, ValidatePhyPortNo) = OK
<1>. DEFINE p == [i \in 1 .. Len(list) |-> ValidatePhyPort(list[i])]
            q == [i \in 1 .. Len(list) |-> ValidateWildcards(list[i])]
            r == [i \in 1 .. Len(list) |-> ValidatePhyPortNo(list[i])]
<1>1. Len(list) \in Nat /\ DOMAIN list = 1 .. Len(list)
  BY DEF IsSequence
<1>2. \A s : /\ DOMAIN s = 1 .. Len(list)
             /\ \A i \in 1 .. Len(list) : s[i] = OK
             => FirstError(s) = OK
  BY <1>1, FirstErrorOf
<1>3. (\A i \in DOMAIN list : ValidatePhyPort(list[i]) = OK)
        => FirstError(p) = OK
  BY <1>1, <1>2
<1>4. (\A i \in DOMAIN list : ValidateWildcards(list[i]) = OK)
        => FirstError(q) = OK
  BY <1>1, <1>2
<1>5. (\A i \in DOMAIN list : ValidatePhyPortNo(list[i]) = OK)
        => FirstError(r) = OK
  BY <1>1, <1>2
<1>. QED
  BY <1>3, <1>4, <1>5 DEF FirstOf

\* A series of checks of which the last alone may differ.
LEMMA PairIs ==
  ASSUME NEW a, NEW b, NEW c, FirstError(<<a, b>>) = OK
  PROVE  FirstError(<<a, c>>) = c
<1>. DEFINE s == <<a, c>>
<1>1. DOMAIN s = 1 .. 2
  OBVIOUS
<1>0. s[1] = a /\ s[2] = c
  OBVIOUS
<1>2. a = OK
  BY PairPasses
<1>3. FirstError(s) = c
  <2>. HIDE DEF s
  <2>1. CASE FirstError(s) = OK /\ \A i \in 1 .. 2 : s[i] = OK
    BY <1>0, <2>1
  <2>2. ASSUME NEW i \in 1 .. 2, FirstError(s) = s[i], s[i] # OK
        PROVE  FirstError(s) = c
    BY <1>0, <1>2, <2>2
  <2>. QED
    BY <1>1, <2>1, <2>2, FirstErrorOf
<1>. QED
  BY <1>3

\* Where the first of three checks passes, two others may follow it.
LEMMA ThreePass ==
  ASSUME NEW a, NEW b, NEW c, FirstError(<<a, b, c>>) = OK
  PROVE  FirstError(<<a, OK, OK>>) = OK
<1>. DEFINE s == <<a, b, c>>
            r == <<a, OK, OK>>
<1>1. DOMAIN s = 1 .. 3 /\ DOMAIN r = 1 .. 3
  OBVIOUS
<1>2. \A i \in 1 .. 3 : s[i] = OK
  <2>. HIDE DEF s
  <2>. QED
    BY <1>1, FirstErrorOf DEF s
<1>3. s[1] = OK
  <2>. HIDE DEF s
  <2>. QED
    BY <1>2
<1>4. \A i \in 1 .. 3 : r[i] = OK
  BY <1>3
<1>5. FirstError(r) = OK
  <2>. HIDE DEF r
  <2>. QED
    BY <1>1, <1>4, FirstErrorOf
<1>. QED
  BY <1>5

\* The bodies with a list are valid if they would be with another list and
\* the list itself is: of a packet_out, ...
LEMMA PacketOutPasses ==
  ASSUME NEW b, NEW c, b.in_port = c.in_port, ValidatePacketOut(c) = OK,
         ValidateActions(b.actions, b.actions_len) = OK
  PROVE  ValidatePacketOut(b) = OK
BY PairIs DEF ValidatePacketOut

\* ... of a flow_mod, ...
LEMMA FlowModPasses ==
  ASSUME NEW b, NEW c, b.match = c.match, b.command = c.command,
         b.priority = c.priority, b.out_port = c.out_port, b.flags = c.flags,
         NEW n, ValidateFlowMod(c, n) = OK,
         NEW length, ValidateActions(b.actions, length) = OK
  PROVE  ValidateFlowMod(b, length) = OK
<1>. DEFINE One == ValidateMatch(c.match)
            Two == Check(c.command <= 4, "UNDEFINED_FLOW_MOD_COMMAND")
            Three == ValidatePriority(c.match, c.priority)
            Four == IF c.command \in {3, 4} /\ c.out_port # OFPP_NONE
                      THEN ValidatePhyPortNo(c.out_port) ELSE OK
            Five == Check(c.flags \subseteq FLOW_MOD_FLAGS,
                          "INVALID_FLOW_MOD_FLAGS")
<1>1. FirstError(<<One, Two, Three, Four, Five,
                   ValidateActions(c.actions, n)>>) = OK
  BY DEF ValidateFlowMod
<1>2. ValidateFlowMod(b, length)
        = FirstError(<<One, Two, Three, Four, Five,
                       ValidateActions(b.actions, length)>>)
  BY DEF ValidateFlowMod
<1>. HIDE DEF One, Two, Three, Four, Five
<1>. QED
  BY <1>1, <1>2, SixthDecides

\* ... of a features reply, ...
LEMMA FeaturesPass ==
  ASSUME NEW b, NEW c, b.n_tables = c.n_tables,
         NEW n, ValidateFeaturesReply(c, n) = OK,
         NEW length, length % 48 = 0, FirstOf(b.ports, ValidatePhyPort) = OK
  PROVE  ValidateFeaturesReply(b, length) = OK
<1>1. FirstError(<<Check(c.n_tables # 0, "NO_TABLE_AVAILABLE"),
                   Check(n % 48 = 0, "INVALID_LENGTH"),
                   FirstOf(c.ports, ValidatePhyPort)>>) = OK
  BY DEF ValidateFeaturesReply
<1>2. Check(length % 48 = 0, "INVALID_LENGTH") = OK
  BY DEF Check
<1>3. FirstError(<<Check(c.n_tables # 0, "NO_TABLE_AVAILABLE"),
                   OK, OK>>) = OK
  BY <1>1, ThreePass
<1>. QED
  BY <1>2, <1>3 DEF ValidateFeaturesReply

\* ... of a queue reply ...
LEMMA QueueReplyPasses ==
  ASSUME NEW b, NEW c, b.port = c.port,
         NEW n, ValidateQueueReply(c, n) = OK,
         NEW length, ValidateQueues(b.queues, length) = OK
  PROVE  ValidateQueueReply(b, length) = OK
BY PairIs DEF ValidateQueueReply

\* ... and of a statistics reply.
LEMMA StatsReplyPasses ==
  ASSUME NEW b, NEW c, b.flags = c.flags, b.stype = c.stype,
         NEW n, ValidateStatsReplyBody(c, n) = OK,
         NEW length,
         \/ b.stype = "FLOW" /\ ValidateFlows(b.entries, length) = OK
         \/ b.stype \in DOMAIN EntrySize /\ ValidateEntries(b, length) = OK
  PROVE  ValidateStatsReplyBody(b, length) = OK
<1>. DEFINE flags == Check(c.flags = 0
                           \/ (c.flags = 1
                               /\ c.stype \notin {"DESC", "AGGREGATE"}),
                           "INVALID_STATS_REPLY_FLAGS")
            Rest(x, l) ==
              CASE x.stype = "FLOW" -> ValidateFlows(x.entries, l)
                [] x.stype \in DOMAIN EntrySize -> ValidateEntries(x, l)
                [] OTHER -> OK
<1>1. FirstError(<<flags, Rest(c, n)>>) = OK
  BY DEF ValidateStatsReplyBody
<1>2. ValidateStatsReplyBody(b, length)
        = FirstError(<<flags, Rest(b, length)>>)
  BY DEF ValidateStatsReplyBody
<1>3. Rest(b, length) = OK
  BY DEF EntrySize
<1>. HIDE DEF flags, Rest
<1>. QED
  BY <1>1, <1>2, <1>3, PairIs

\* Entries that are valid and fill their bytes are accepted.
LEMMA EntriesPass ==
  ASSUME NEW b, b.stype \in DOMAIN EntrySize, IsSequence(b.entries),
         NEW length, length % EntrySize[b.stype] = 0,
         \A i \in DOMAIN b.entries :
           IF b.stype = "TABLE" THEN ValidateWildcards(b.entries[i]) = OK
           ELSE ValidatePhyPortNo(b.entries[i]) = OK
  PROVE  ValidateEntries(b, length) = OK
<1>1. PICK list : list = b.entries
  OBVIOUS
<1>2. IF b.stype = "TABLE" THEN FirstOf(list, ValidateWildcards) = OK
      ELSE FirstOf(list, ValidatePhyPortNo) = OK
  BY <1>1, AllPass
<1>. QED
  BY <1>1, <1>2 DEF ValidateEntries

\* A header that says what the message is passes.
LEMMA HeaderPasses ==
  ASSUME NEW m, m.hdr \in Nat, m.len = m.hdr, m.len >= HeaderSize,
         m.version = OFP_VERSION, m.type \in Types,
         NEW min \in Nat, NEW max \in Nat, min <= m.hdr, m.hdr <= max
  PROVE  ValidateHeader(m, m.type, Types, min, max) = OK
<1>. DEFINE s == <<
              Check(m.len >= HeaderSize, "TOO_SHORT_MESSAGE"),
              Check(m.version = OFP_VERSION, "UNSUPPORTED_VERSION"),
              Check(m.type \in Types, "UNDEFINED_TYPE"),
              Check(m.type = m.type, "INVALID_TYPE"),
              Check(m.hdr <= max, "TOO_LONG_MESSAGE"),
              Check(m.hdr >= min, "TOO_SHORT_MESSAGE"),
              Check(m.hdr >= m.len, "TOO_LONG_MESSAGE"),
              Check(~ShortRead(m), "TOO_SHORT_MESSAGE"),
              Check(m.len <= max, "TOO_LONG_MESSAGE") >>
<1>1. DOMAIN s = 1 .. 9
  OBVIOUS
<1>2. ~ShortRead(m) /\ m.hdr >= m.len /\ m.hdr >= min /\ m.len <= max
  BY DEF ShortRead
<1>3. \A i \in 1 .. 9 : s[i] = OK
  BY <1>2 DEF Check
<1>4. FirstError(s) = OK
  <2>. HIDE DEF s
  <2>. QED
    BY <1>1, <1>3, FirstErrorIs
<1>. QED
  BY <1>4 DEF ValidateHeader
=============================================================================
