------------------------- MODULE ConnectionsProofs --------------------------
(***************************************************************************)
(* Proofs about the requests of the connections (Connections), for any     *)
(* connections, any requests and any limit of pending groups.              *)
(***************************************************************************)
EXTENDS Connections, SequenceTheorems, TLAPS

LEMMA RequestTypes ==
    ASSUME RequestsTypeOK
    PROVE  /\ groups \in Seq(Group) /\ Len(groups) \in Nat
           /\ \A i \in 1 .. Len(groups) : groups[i] \in Group
           /\ \A c \in Ofconns :
                /\ blocked[c] \in Seq(Message) /\ inbox[c] \in Seq(Message) /\ replies[c] \in Seq(Reply)
                /\ Len(blocked[c]) \in Nat /\ Len(blocked[c]) <= 1 /\ Len(replies[c]) \in Nat
                /\ {sent[c], handled[c], requests[c]} \subseteq 0 .. MaxRequests
                /\ \A i \in 1 .. Len(replies[c]) : replies[c][i] \in Reply
  BY RequestsAssumption, SMTT(60) DEF RequestsTypeOK

(* A connection that a step leaves alone.                                  *)
LEMMA Untouched ==
    ASSUME NEW d \in Ofconns, Orderly(d), Running(d)' \subseteq Running(d),
           conn_status'[d] = conn_status[d], inbox'[d] = inbox[d], blocked'[d] = blocked[d],
           replies'[d] = replies[d], sent'[d] = sent[d], handled'[d] = handled[d]
    PROVE  Orderly(d)'
<1>1. Queued(d)' = Queued(d)
  BY DEF Queued
<1>2. OnceInOrder(d)' /\ BarrierHolds(d)'
  BY <1>1, ZenonT(30) DEF Orderly, OnceInOrder, BarrierHolds
<1>3. NothingLeftOver(d)' /\ AnswersDealtWith(d)'
  BY DEF Orderly, NothingLeftOver, AnswersDealtWith
<1> QED
  BY <1>2, <1>3 DEF Orderly

LEMMA Counting ==
    \A h, s, i \in Nat : /\ h + (i + 1) = (h + 1) + i /\ h + ((s - h) + 1) = s + 1
                         /\ (s - h) + 1 = (s + 1) - h /\ (s - h) - 1 = s - (h + 1)
  OBVIOUS

LEMMA AppendBehind ==
    ASSUME NEW s \in Seq(Message), NEW t \in Seq(Message), NEW x \in Message
    PROVE  s \o Append(t, x) = Append(s \o t, x)
<1>1. <<x>> \in Seq(Message) /\ s \o t \in Seq(Message)
  BY ConcatProperties
<1>2. Append(t, x) = t \o <<x>>
  BY AppendIsConcat
<1>3. Append(s \o t, x) = (s \o t) \o <<x>>
  BY <1>1, AppendIsConcat
<1>4. (s \o t) \o <<x>> = s \o (t \o <<x>>)
  BY <1>1, ConcatAssociative, SMTT(60)
<1> QED
  BY <1>2, <1>3, <1>4, ZenonT(30)

LEMMA AtMostOne ==
    ASSUME NEW k \in Nat, k # 0, k <= 1
    PROVE  k = 1 /\ 1 \in 1 .. k
  OBVIOUS

(* Receiving takes the request at the head of the queue, which stays there *)
(* if it is postponed.                                                     *)
LEMMA QueueMoves ==
    ASSUME NEW b \in Seq(Message), NEW s \in Seq(Message), Len(b) <= 1, b \o s # <<>>
    PROVE  LET q == b \o s
               m == Head(q)
               r == IF b = <<>> THEN Tail(s) ELSE s
           IN  /\ m \in Message /\ m = q[1] /\ r \in Seq(Message) /\ Len(q) \in Nat \ {0}
               /\ Len(<<m>> \o r) = Len(q) /\ \A i \in 1 .. Len(q) : (<<m>> \o r)[i] = q[i]
               /\ Len(r) = Len(q) - 1 /\ \A i \in 1 .. Len(q) - 1 : r[i] = q[i + 1]
<1>1. CASE b = <<>>
  <2>1. b \o s = s /\ s # <<>>
    BY <1>1
  <2> DEFINE t == Tail(s)
             x == Head(s)
  <2>2. /\ x \in Message /\ t \in Seq(Message) /\ x = s[1] /\ Len(s) \in Nat \ {0}
        /\ Len(t) = Len(s) - 1 /\ \A i \in 1 .. Len(s) - 1 : t[i] = s[i + 1]
    BY <2>1
  <2> HIDE DEF t, x
  <2>3. /\ Len(<<x>> \o t) = 1 + Len(t)
        /\ \A i \in 1 .. 1 + Len(t) : (<<x>> \o t)[i] = IF i <= 1 THEN x ELSE t[i - 1]
    BY <2>2
  <2>4. ASSUME NEW i \in 1 .. Len(s) PROVE (<<x>> \o t)[i] = s[i]
    <3>1. CASE i = 1
      BY <2>2, <2>3, <3>1
    <3>2. CASE i # 1
      <4>1. i - 1 \in 1 .. Len(s) - 1 /\ (i - 1) + 1 = i
        BY <2>2, <3>2
      <4> QED
        BY <2>2, <2>3, <3>2, <4>1
    <3> QED
      BY <3>1, <3>2, ZenonT(30)
  <2>5. Len(<<x>> \o t) = Len(s)
    BY <2>2, <2>3
  <2> QED
    BY <1>1, <2>1, <2>2, <2>4, <2>5, ZenonT(30) DEF t, x
<1>2. CASE b # <<>>
  <2>1. Len(b) = 1 /\ b[1] \in Message /\ Len(s) \in Nat
    <3>1. Len(b) \in Nat /\ Len(s) \in Nat
      BY LenProperties, ZenonT(30)
    <3>2. Len(b) # 0
      BY <1>2, EmptySeq, ZenonT(30)
    <3>3. Len(b) = 1 /\ 1 \in 1 .. Len(b)
      BY <3>1, <3>2, AtMostOne, ZenonT(30)
    <3> QED
      BY <3>1, <3>3, ElementOfSeq, ZenonT(30)
  <2>2. /\ b \o s \in Seq(Message) /\ Len(b \o s) = Len(b) + Len(s)
        /\ \A i \in 1 .. Len(b) + Len(s) : (b \o s)[i] = IF i <= Len(b) THEN b[i] ELSE s[i - Len(b)]
    BY ConcatProperties
  <2>3. /\ Len(<<b[1]>> \o s) = 1 + Len(s)
        /\ \A i \in 1 .. 1 + Len(s) : (<<b[1]>> \o s)[i] = IF i <= 1 THEN b[1] ELSE s[i - 1]
    BY <2>1
  <2>4. Head(b \o s) = b[1] /\ (b \o s)[1] = b[1]
    BY <2>1, <2>2
  <2>5. \A i \in 1 .. Len(s) : (b \o s)[i + 1] = s[i]
    <3>1. \A i \in 1 .. Len(s) : i + 1 \in 1 .. Len(b) + Len(s) /\ ~(i + 1 <= Len(b)) /\ i + 1 - Len(b) = i
      BY <2>1
    <3> QED
      BY <2>2, <3>1, SMTT(60)
  <2>6. \A i \in 1 .. 1 + Len(s) : (<<b[1]>> \o s)[i] = (b \o s)[i]
    BY <2>1, <2>2, <2>3
  <2> QED
    BY <1>2, <2>1, <2>2, <2>3, <2>4, <2>5, <2>6
<1> QED
  BY <1>1, <1>2

(* What handle_openflow may answer: nothing is sent for a request that is  *)
(* postponed, a barrier is answered only if nothing is running, and a      *)
(* group is left pending only below the limit.                             *)
LEMMA Outcomes ==
    ASSUME RequestsTypeOK, NEW c \in Ofconns, NEW m \in Message, NEW o \in handle_openflow(c, m)
    PROVE  /\ o.postpone \in BOOLEAN /\ o.nxm \in BOOLEAN /\ o.failed \in BOOLEAN
           /\ o.reply \in {"none", "error", "barrier"} /\ o.group \in {"none", "pending", "done"}
           /\ o.postpone => o.reply = "none" /\ o.group = "none"
           /\ o.reply # "none" => o.group = "none"
           /\ o.reply = "barrier" => ~ofconn_has_pending_opgroups(c)
           /\ o.group = "pending" => Len(groups) < PendingLimit
<1> USE DEF Outcome, Postpone
<1>1. m.kind \in {"mod", "buffered", "barrier", "format"}
  BY RequestsAssumption, ZenonT(30) DEF Message
<1>2. CASE m.kind \in {"mod", "buffered"}
  <2>1. o \in handle_flow_mod__(c, m)
    BY <1>2 DEF handle_openflow
  <2>2. CASE Len(groups) >= PendingLimit
    BY <2>1, <2>2, ZenonT(30) DEF handle_flow_mod__
  <2>3. CASE ~(Len(groups) >= PendingLimit)
    <3>1. Len(groups) < PendingLimit
      BY <2>3, RequestTypes, RequestsAssumption
    <3>2. \/ o = Postpone \/ o = [Outcome EXCEPT !.reply = "error"]
          \/ o = [Outcome EXCEPT !.group = "pending"]
          \/ \E f \in BOOLEAN : o = [Outcome EXCEPT !.group = "done", !.failed = f]
      BY <2>1, <2>3, ZenonT(30) DEF handle_flow_mod__
    <3> QED
      BY <3>1, <3>2, ZenonT(30)
  <2> QED
    BY <2>2, <2>3
<1>3. CASE m.kind = "barrier"
  <2>1. o \in handle_barrier_request(c)
    BY <1>3 DEF handle_openflow
  <2> QED
    BY <2>1, ZenonT(30) DEF handle_barrier_request
<1>4. CASE m.kind = "format"
  <2>1. o \in handle_nxt_set_flow_format(c)
    BY <1>4 DEF handle_openflow
  <2> QED
    BY <2>1, ZenonT(30) DEF handle_nxt_set_flow_format
<1> QED
  BY <1>1, <1>2, <1>3, <1>4

(* One turn of ofconn_run's loop: the request at the head of the queue is  *)
(* postponed, or it is dealt with and at most one reply or one running     *)
(* group comes of it.                                                      *)
LEMMA Received ==
    ASSUME RequestsTypeOK, NEW c \in Ofconns, Receive(c)
    PROVE  LET q == Queued(c)
               n == q[1].n
           IN  /\ conn_status[c] = "up" /\ q \in Seq(Message) /\ Len(q) \in Nat \ {0} /\ n \in 1 .. MaxRequests
               /\ UNCHANGED <<conn_status, sent, requests>>
               /\ inbox' \in [Ofconns -> Seq(Message)] /\ blocked' \in [Ofconns -> Seq(Message)]
               /\ Len(blocked'[c]) <= 1 /\ retry' \in [Ofconns -> BOOLEAN] /\ nxm' \in [Ofconns -> BOOLEAN]
               /\ \A d \in Ofconns : d # c => inbox'[d] = inbox[d] /\ blocked'[d] = blocked[d]
               /\ \/ /\ Len(Queued(c)') = Len(q) /\ \A i \in 1 .. Len(q) : Queued(c)'[i] = q[i]
                     /\ UNCHANGED <<replies, groups, handled>>
                  \/ /\ Len(Queued(c)') = Len(q) - 1 /\ \A i \in 1 .. Len(q) - 1 : Queued(c)'[i] = q[i + 1]
                     /\ handled' = [handled EXCEPT ![c] = n]
                     /\ \/ UNCHANGED <<replies, groups>>
                        \/ \E k \in {"error", "barrier"} :
                              /\ k = "barrier" => ~ofconn_has_pending_opgroups(c)
                              /\ replies' = [replies EXCEPT ![c] = Append(@, [n |-> n, kind |-> k])]
                              /\ UNCHANGED groups
                        \/ \E buf \in BOOLEAN :
                              /\ groups' = Append(groups, [conn |-> c, n |-> n, attached |-> TRUE, buffered |-> buf])
                              /\ Len(groups) < PendingLimit /\ UNCHANGED replies
<1> DEFINE b == blocked[c]
           s == inbox[c]
           q == b \o s
           m == Head(q)
           r == IF b = <<>> THEN Tail(s) ELSE s
           g == [conn |-> c, n |-> m.n, attached |-> TRUE, buffered |-> m.kind = "buffered"]
           S(o) == IF o.group = "done"
                   THEN ofopgroup_complete([replies |-> replies, retry |-> retry], g, o.failed)
                   ELSE [replies |-> replies, retry |-> retry]
<1>1. b \in Seq(Message) /\ s \in Seq(Message) /\ Len(b) <= 1 /\ q # <<>> /\ conn_status[c] = "up"
  BY RequestTypes, ZenonT(30) DEF Receive
<1>2. /\ m \in Message /\ m = q[1] /\ r \in Seq(Message) /\ q \in Seq(Message) /\ Len(q) \in Nat \ {0}
      /\ Len(<<m>> \o r) = Len(q) /\ \A i \in 1 .. Len(q) : (<<m>> \o r)[i] = q[i]
      /\ Len(r) = Len(q) - 1 /\ \A i \in 1 .. Len(q) - 1 : r[i] = q[i + 1]
  <2>1. q \in Seq(Message)
    BY <1>1, ConcatProperties, ZenonT(30)
  <2> QED
    BY <1>1, <2>1, QueueMoves, ZenonT(30)
<1>3. PICK o \in handle_openflow(c, m) :
        /\ blocked' = [blocked EXCEPT ![c] = IF o.postpone THEN <<m>> ELSE <<>>]
        /\ retry' = IF o.postpone THEN [S(o).retry EXCEPT ![c] = FALSE] ELSE S(o).retry
        /\ replies' = IF o.reply = "none" THEN S(o).replies
                      ELSE ofconn_send_reply(S(o).replies, c, [n |-> m.n, kind |-> o.reply])
        /\ nxm' = [nxm EXCEPT ![c] = @ \/ o.nxm]
        /\ groups' = IF o.group = "pending" THEN Append(groups, g) ELSE groups
        /\ handled' = IF o.postpone THEN handled ELSE [handled EXCEPT ![c] = m.n]
  BY ZenonT(30) DEF Receive
<1>4. inbox' = [inbox EXCEPT ![c] = r] /\ UNCHANGED <<conn_status, sent, requests>>
  <2>1. inbox' = IF b = <<>> THEN [inbox EXCEPT ![c] = Tail(s)] ELSE inbox
    BY ZenonT(30) DEF Receive
  <2>2. inbox = [inbox EXCEPT ![c] = s]
    BY DEF RequestsTypeOK
  <2> QED
    BY <2>1, <2>2, ZenonT(30) DEF Receive
<1>5. /\ o.postpone \in BOOLEAN /\ o.nxm \in BOOLEAN /\ o.failed \in BOOLEAN
      /\ o.reply \in {"none", "error", "barrier"} /\ o.group \in {"none", "pending", "done"}
      /\ o.postpone => o.reply = "none" /\ o.group = "none"
      /\ o.reply # "none" => o.group = "none"
      /\ o.reply = "barrier" => ~ofconn_has_pending_opgroups(c)
      /\ o.group = "pending" => Len(groups) < PendingLimit
  BY <1>2, Outcomes, ZenonT(30)
<1>6. /\ S(o).retry \in [Ofconns -> BOOLEAN]
      /\ S(o).replies = IF o.group = "done" /\ o.failed
                        THEN [replies EXCEPT ![c] = Append(@, [n |-> m.n, kind |-> "error"])] ELSE replies
  <2>1. CASE o.group = "done"
    BY <1>1, <2>1, ZenonT(30) DEF ofopgroup_complete, ofconn_send_reply, connmgr_retry, RequestsTypeOK
  <2>2. CASE o.group # "done"
    BY <2>2 DEF RequestsTypeOK
  <2> QED
    BY <2>1, <2>2, ZenonT(30)
<1>7. Queued(c) = q /\ Queued(c)' = IF o.postpone THEN <<m>> \o r ELSE r
  <2>1. blocked'[c] = (IF o.postpone THEN <<m>> ELSE <<>>) /\ inbox'[c] = r /\ <<>> \o r = r
    BY <1>2, <1>3, <1>4, ConcatEmptySeq, ZenonT(30) DEF RequestsTypeOK
  <2> QED
    BY <2>1, ZenonT(30) DEF Queued
<1>8. /\ inbox' \in [Ofconns -> Seq(Message)] /\ blocked' \in [Ofconns -> Seq(Message)]
      /\ Len(blocked'[c]) <= 1 /\ retry' \in [Ofconns -> BOOLEAN] /\ nxm' \in [Ofconns -> BOOLEAN]
      /\ \A d \in Ofconns : d # c => inbox'[d] = inbox[d] /\ blocked'[d] = blocked[d]
  <2> HIDE DEF b, s, q, m, r, g, S
  <2>1. <<m>> \in Seq(Message) /\ <<>> \in Seq(Message) /\ Len(<<m>>) <= 1 /\ Len(<<>>) <= 1
    BY <1>2
  <2>2. inbox' \in [Ofconns -> Seq(Message)] /\ \A d \in Ofconns : d # c => inbox'[d] = inbox[d]
    BY <1>2, <1>4 DEF RequestsTypeOK
  <2>3. /\ blocked' \in [Ofconns -> Seq(Message)] /\ Len(blocked'[c]) <= 1
        /\ \A d \in Ofconns : d # c => blocked'[d] = blocked[d]
    BY <1>3, <2>1, SMTT(60) DEF RequestsTypeOK
  <2>4. retry' \in [Ofconns -> BOOLEAN]
    BY <1>3, <1>6
  <2>5. nxm' \in [Ofconns -> BOOLEAN]
    BY <1>3, <1>5 DEF RequestsTypeOK
  <2> QED
    BY <2>2, <2>3, <2>4, <2>5, ZenonT(30)
<1>9. m.n = Queued(c)[1].n /\ m.n \in 1 .. MaxRequests
  BY <1>2, <1>7, ZenonT(30) DEF Message
<1>10. CASE o.postpone
  <2>1. UNCHANGED <<replies, groups, handled>>
    BY <1>3, <1>5, <1>6, <1>10, ZenonT(30)
  <2> QED
    BY <1>1, <1>2, <1>4, <1>7, <1>8, <1>9, <1>10, <2>1, ZenonT(30)
<1>11. CASE ~o.postpone
  <2>1. handled' = [handled EXCEPT ![c] = m.n]
    BY <1>3, <1>11, ZenonT(30)
  <2>2. \/ UNCHANGED <<replies, groups>>
        \/ \E k \in {"error", "barrier"} :
              /\ k = "barrier" => ~ofconn_has_pending_opgroups(c)
              /\ replies' = [replies EXCEPT ![c] = Append(@, [n |-> m.n, kind |-> k])]
              /\ UNCHANGED groups
        \/ \E buf \in BOOLEAN :
              /\ groups' = Append(groups, [conn |-> c, n |-> m.n, attached |-> TRUE, buffered |-> buf])
              /\ Len(groups) < PendingLimit /\ UNCHANGED replies
    <3>1. CASE o.reply # "none"
      <4>1. replies' = [replies EXCEPT ![c] = Append(@, [n |-> m.n, kind |-> o.reply])] /\ UNCHANGED groups
        BY <1>1, <1>3, <1>5, <1>6, <3>1, ZenonT(30) DEF ofconn_send_reply
      <4> QED
        BY <1>5, <3>1, <4>1, ZenonT(30)
    <3>2. CASE o.reply = "none" /\ o.group = "done"
      BY <1>3, <1>5, <1>6, <3>2, ZenonT(30)
    <3>3. CASE o.reply = "none" /\ o.group = "pending"
      BY <1>3, <1>5, <1>6, <3>3, ZenonT(30)
    <3>4. CASE o.reply = "none" /\ o.group = "none"
      BY <1>3, <1>5, <1>6, <3>4, ZenonT(30)
    <3> QED
      BY <1>5, <3>1, <3>2, <3>3, <3>4, ZenonT(30)
  <2>3. /\ Len(Queued(c)') = Len(Queued(c)) - 1
        /\ \A i \in 1 .. Len(Queued(c)) - 1 : Queued(c)'[i] = Queued(c)[i + 1]
    <3>1. Queued(c)' = r
      BY <1>7, <1>11
    <3> QED
      BY <1>2, <1>7, <3>1, ZenonT(30)
  <2> HIDE DEF b, s, q, m, r, g, S
  <2> QED
    BY <1>1, <1>2, <1>4, <1>7, <1>8, <1>9, <2>1, <2>2, <2>3, ZenonT(30)
<1> QED
  BY <1>5, <1>10, <1>11, ZenonT(30)

(* What is running, by request: those of the attached groups.              *)
LEMMA RunningTypes ==
    ASSUME RequestsTypeOK, NEW c \in Ofconns
    PROVE  /\ Running(c) \subseteq 1 .. MaxRequests
           /\ ~ofconn_has_pending_opgroups(c) => Running(c) = {}
<1>1. Running(c) \subseteq 1 .. MaxRequests
  BY RequestTypes DEF Running, Group
<1>2. DOMAIN groups = 1 .. Len(groups)
  BY RequestTypes, LenProperties, ZenonT(30)
<1>3. ASSUME ~ofconn_has_pending_opgroups(c) PROVE Running(c) = {}
  BY <1>2, <1>3, ZenonT(30) DEF Running, ofconn_has_pending_opgroups
<1> QED
  BY <1>1, <1>3

LEMMA GroupStarted ==
    ASSUME RequestsTypeOK, NEW g \in Group, groups' = Append(groups, g)
    PROVE  /\ groups' \in Seq(Group) /\ Len(groups') = Len(groups) + 1
           /\ \A d \in Ofconns : Running(d)' \subseteq Running(d) \cup (IF g.conn = d THEN {g.n} ELSE {})
<1>1. groups \in Seq(Group) /\ Len(groups) \in Nat
  BY RequestTypes
<1>2. /\ groups' \in Seq(Group) /\ Len(groups') = Len(groups) + 1
      /\ \A i \in 1 .. Len(groups) : groups'[i] = groups[i]
      /\ groups'[Len(groups) + 1] = g
  BY <1>1, AppendProperties
<1>3. ASSUME NEW d \in Ofconns, NEW n \in Running(d)'
      PROVE  n \in Running(d) \cup (IF g.conn = d THEN {g.n} ELSE {})
  <2>1. PICK i \in 1 .. Len(groups') : groups'[i].attached /\ groups'[i].conn = d /\ groups'[i].n = n
    BY <1>3, ZenonT(30) DEF Running
  <2>2. i \in 1 .. Len(groups) \/ i = Len(groups) + 1
    BY <1>1, <1>2, <2>1
  <2> QED
    BY <1>2, <2>1, <2>2, ZenonT(30) DEF Running
<1> QED
  BY <1>2, <1>3

LEMMA GroupsDetached ==
    ASSUME RequestsTypeOK, NEW c \in Ofconns, groups' = Detached(groups, c)
    PROVE  /\ groups' \in Seq(Group) /\ Len(groups') = Len(groups)
           /\ Running(c)' = {} /\ \A d \in Ofconns : Running(d)' \subseteq Running(d)
<1>1. groups \in Seq(Group) /\ Len(groups) \in Nat /\ DOMAIN groups = 1 .. Len(groups)
      /\ \A i \in 1 .. Len(groups) : groups[i] \in Group
  BY RequestTypes, LenProperties, ZenonT(30)
<1>2. ASSUME NEW i \in 1 .. Len(groups)
      PROVE  /\ groups'[i] \in Group /\ groups'[i].n = groups[i].n /\ groups'[i].conn = groups[i].conn
             /\ groups'[i].attached <=> groups[i].attached /\ groups[i].conn # c
  BY <1>1, ZenonT(30) DEF Detached, Group
<1>3. groups' \in [1 .. Len(groups) -> Group]
  BY <1>1, <1>2, ZenonT(30) DEF Detached
<1>4. groups' \in Seq(Group) /\ Len(groups') = Len(groups)
  BY <1>1, <1>3, SeqDef, LenProperties
<1>5. Running(c)' = {}
  BY <1>2, <1>4, ZenonT(30) DEF Running
<1>6. ASSUME NEW d \in Ofconns PROVE Running(d)' \subseteq Running(d)
  BY <1>2, <1>4, ZenonT(30) DEF Running
<1> QED
  BY <1>4, <1>5, <1>6

(* A request that is dealt with is the next one; a reply to it comes after *)
(* the replies on their way, and a barrier reply finds nothing running.    *)
LEMMA NextIsAnswered ==
    ASSUME RequestsTypeOK, NEW c \in Ofconns, Orderly(c), NEW L, L = Len(replies[c]),
           handled'[c] = handled[c] + 1, Running(c)' \subseteq Running(c) \cup {handled[c] + 1},
           Len(replies'[c]) \in {L, L + 1}, \A i \in 1 .. L : replies'[c][i] = replies[c][i],
           Len(replies'[c]) = L + 1 =>
               /\ replies'[c][L + 1].n = handled[c] + 1
               /\ replies'[c][L + 1].kind = "barrier" => Running(c)' = {}
    PROVE  BarrierHolds(c)' /\ AnswersDealtWith(c)'
<1>1. /\ L \in Nat /\ handled[c] \in Nat /\ Running(c) \subseteq Nat
      /\ \A i \in 1 .. L : replies[c][i].n \in Nat
  BY RequestTypes, RunningTypes, RequestsAssumption, SMTT(60) DEF Reply
<1>2. /\ \A i \in 1 .. L : replies[c][i].n <= handled[c]
      /\ \A n \in Running(c) : n <= handled[c]
  BY DEF Orderly, AnswersDealtWith
<1> DEFINE M == Len(replies'[c])
<1>3. /\ M = L \/ M = L + 1
      /\ \A i \in 1 .. M : i \in 1 .. L \/ (M = L + 1 /\ i = L + 1)
  BY <1>1, SMTT(60)
<1>4. ASSUME NEW i \in 1 .. M PROVE replies'[c][i].n \in Nat /\ replies'[c][i].n <= handled[c] + 1
  <2>1. CASE i \in 1 .. L
    BY <1>1, <1>2, <2>1, SMTT(60)
  <2>2. CASE M = L + 1 /\ i = L + 1
    BY <1>1, <2>2, SMTT(60)
  <2> QED
    BY <1>3, <2>1, <2>2, ZenonT(30)
<1>5. AnswersDealtWith(c)'
  <2>1. ASSUME NEW i \in 1 .. M PROVE replies'[c][i].n <= handled'[c]
    BY <1>4, ZenonT(30)
  <2>2. ASSUME NEW n \in Running(c)' PROVE n <= handled'[c]
    BY <1>1, <1>2, SMTT(60)
  <2> QED
    BY <2>1, <2>2, ZenonT(30) DEF AnswersDealtWith
<1>6. ASSUME NEW i \in 1 .. M, replies'[c][i].kind = "barrier"
      PROVE  /\ \A n \in Running(c)' : n > replies'[c][i].n
             /\ \A j \in i + 1 .. M : replies'[c][j].n > replies'[c][i].n
  <2>1. CASE i \in 1 .. L
    <3>1. /\ \A n \in Running(c) : n > replies[c][i].n
          /\ \A j \in i + 1 .. L : replies[c][j].n > replies[c][i].n
      BY <1>6, <2>1, ZenonT(30) DEF Orderly, BarrierHolds
    <3>2. ASSUME NEW n \in Running(c)' PROVE n > replies'[c][i].n
      BY <1>1, <1>2, <2>1, <3>1, SMTT(60)
    <3>3. ASSUME NEW j \in i + 1 .. M PROVE replies'[c][j].n > replies'[c][i].n
      <4>1. j \in i + 1 .. L \/ (M = L + 1 /\ j = L + 1)
        BY <1>1, <1>3
      <4>2. CASE j \in i + 1 .. L
        <5>1. j \in 1 .. L
          BY ONLY <1>1, <4>2, SMTT(60)
        <5> QED
          BY <2>1, <3>1, <4>2, <5>1, ZenonT(30)
      <4>3. CASE M = L + 1 /\ j = L + 1
        <5>1. replies'[c][j].n = handled[c] + 1 /\ replies'[c][i].n = replies[c][i].n
          BY <2>1, <4>3, ZenonT(30)
        <5> QED
          BY <1>1, <1>2, <2>1, <5>1, SMTT(60)
      <4> QED
        BY <4>1, <4>2, <4>3
    <3> QED
      BY <3>2, <3>3, ZenonT(30)
  <2>2. CASE M = L + 1 /\ i = L + 1
    <3>1. Running(c)' = {}
      BY <1>6, <2>2, ZenonT(30)
    <3>2. i + 1 .. M = {}
      BY <1>1, <2>2
    <3> QED
      BY <3>1, <3>2, ZenonT(30)
  <2> QED
    BY <1>3, <2>1, <2>2, ZenonT(30)
<1> QED
  BY <1>5, <1>6, ZenonT(30) DEF BarrierHolds

LEMMA ReceiveStep ==
    ASSUME RequestsInv, NEW c \in Ofconns, Receive(c)
    PROVE  RequestsInv'
<1> DEFINE q == Queued(c)
           n == q[1].n
<1>1. RequestsTypeOK /\ Orderly(c)
  BY DEF RequestsInv
<1>2. /\ conn_status[c] = "up" /\ q \in Seq(Message) /\ Len(q) \in Nat \ {0} /\ n \in 1 .. MaxRequests
      /\ UNCHANGED <<conn_status, sent, requests>>
      /\ inbox' \in [Ofconns -> Seq(Message)] /\ blocked' \in [Ofconns -> Seq(Message)]
      /\ Len(blocked'[c]) <= 1 /\ retry' \in [Ofconns -> BOOLEAN] /\ nxm' \in [Ofconns -> BOOLEAN]
      /\ \A d \in Ofconns : d # c => inbox'[d] = inbox[d] /\ blocked'[d] = blocked[d]
  BY <1>1, Received, ZenonT(30)
<1>3. /\ Len(q) = sent[c] - handled[c] /\ \A i \in 1 .. Len(q) : q[i].n = handled[c] + i
      /\ handled[c] \in Nat /\ sent[c] \in Nat /\ n = handled[c] + 1
  <2>1. Len(q) = sent[c] - handled[c] /\ \A i \in 1 .. Len(q) : q[i].n = handled[c] + i
    BY <1>1, <1>2 DEF Orderly, OnceInOrder
  <2>2. handled[c] \in Nat /\ sent[c] \in Nat
    BY <1>1, RequestTypes
  <2> QED
    BY <1>2, <2>1, <2>2
<1> DEFINE Kept ==
             /\ handled' \in [Ofconns -> 0 .. MaxRequests] /\ replies' \in [Ofconns -> Seq(Reply)]
             /\ groups' \in Seq(Group) /\ Len(groups') <= PendingLimit
             /\ \A d \in Ofconns : d # c =>
                  handled'[d] = handled[d] /\ replies'[d] = replies[d] /\ Running(d)' \subseteq Running(d)
             /\ OnceInOrder(c)' /\ BarrierHolds(c)' /\ AnswersDealtWith(c)'
<1>4. Kept
  <2> DEFINE L == Len(replies[c])
             Postponed == /\ Len(Queued(c)') = Len(q) /\ \A i \in 1 .. Len(q) : Queued(c)'[i] = q[i]
                          /\ UNCHANGED <<replies, groups, handled>>
             Taken == /\ Len(Queued(c)') = Len(q) - 1 /\ \A i \in 1 .. Len(q) - 1 : Queued(c)'[i] = q[i + 1]
                      /\ handled' = [handled EXCEPT ![c] = n]
             Silent == UNCHANGED <<replies, groups>>
             Replied(k) == /\ k = "barrier" => ~ofconn_has_pending_opgroups(c)
                           /\ replies' = [replies EXCEPT ![c] = Append(@, [n |-> n, kind |-> k])]
                           /\ UNCHANGED groups
             Started(buf) == /\ groups' = Append(groups, [conn |-> c, n |-> n, attached |-> TRUE, buffered |-> buf])
                             /\ Len(groups) < PendingLimit /\ UNCHANGED replies
  <2>1. \/ Postponed
        \/ Taken /\ (Silent \/ (\E k \in {"error", "barrier"} : Replied(k)) \/ (\E buf \in BOOLEAN : Started(buf)))
    BY <1>1, Received, ZenonT(30)
  <2>2. CASE Postponed
    <3>1. Running(c)' = Running(c)
      BY <2>2, ZenonT(30) DEF Running
    <3>2. OnceInOrder(c)'
      BY <1>2, <1>3, <2>2, ZenonT(30) DEF OnceInOrder
    <3>3. BarrierHolds(c)' /\ AnswersDealtWith(c)'
      BY <1>1, <2>2, <3>1, ZenonT(30) DEF Orderly, BarrierHolds, AnswersDealtWith
    <3> QED
      BY <1>1, <2>2, <3>2, <3>3, ZenonT(30) DEF RequestsTypeOK, Running
  <2>3. CASE Taken /\ (Silent \/ (\E k \in {"error", "barrier"} : Replied(k)) \/ (\E buf \in BOOLEAN : Started(buf)))
    <3>1. /\ handled' \in [Ofconns -> 0 .. MaxRequests] /\ handled'[c] = handled[c] + 1
          /\ \A d \in Ofconns : d # c => handled'[d] = handled[d]
      <4>1. handled \in [Ofconns -> 0 .. MaxRequests] /\ n \in 0 .. MaxRequests
        BY <1>1, <1>2, RequestsAssumption, SMTT(60) DEF RequestsTypeOK
      <4> HIDE DEF n
      <4> QED
        BY <1>3, <2>3, <4>1, ZenonT(30)
    <3>2. OnceInOrder(c)'
      <4>1. Len(Queued(c)') = sent'[c] - handled'[c]
        <5>1. Len(Queued(c)') = (sent[c] - handled[c]) - 1 /\ sent'[c] = sent[c]
          BY <1>2, <1>3, <2>3, ZenonT(30)
        <5>2. (sent[c] - handled[c]) - 1 = sent[c] - (handled[c] + 1)
          BY <1>3, Counting, ZenonT(30)
        <5> QED
          BY <3>1, <5>1, <5>2, ZenonT(30)
      <4>2. ASSUME NEW i \in 1 .. Len(Queued(c)') PROVE Queued(c)'[i].n = handled'[c] + i
        <5>1. i \in 1 .. Len(q) - 1 /\ i + 1 \in 1 .. Len(q)
          BY <1>2, <2>3
        <5>2. Queued(c)'[i] = q[i + 1] /\ q[i + 1].n = handled[c] + (i + 1)
          BY <1>3, <2>3, <5>1, ZenonT(30)
        <5>3. handled[c] + (i + 1) = (handled[c] + 1) + i
          <6>1. i \in Nat
            OBVIOUS
          <6> QED
            BY <1>3, <6>1, Counting, ZenonT(30)
        <5> QED
          BY <3>1, <5>2, <5>3, ZenonT(30)
      <4> QED
        BY <4>1, <4>2 DEF OnceInOrder
    <3>3. L \in Nat /\ replies[c] \in Seq(Reply) /\ replies \in [Ofconns -> Seq(Reply)] /\ groups \in Seq(Group)
          /\ Len(groups) \in Nat /\ Len(groups) <= PendingLimit
      BY <1>1, RequestTypes DEF RequestsTypeOK
    <3>4. CASE Silent
      <4>1. \A d \in Ofconns : Running(d)' = Running(d)
        BY <3>4, ZenonT(30) DEF Running
      <4>2. BarrierHolds(c)' /\ AnswersDealtWith(c)'
        <5>1. L # L + 1
          BY <3>3
        <5> QED
          BY <1>1, <3>1, <3>4, <4>1, <5>1, NextIsAnswered, ZenonT(30)
      <4> QED
        BY <3>1, <3>2, <3>3, <3>4, <4>1, <4>2, ZenonT(30)
    <3>5. ASSUME NEW k \in {"error", "barrier"}, Replied(k) PROVE Kept
      <4> DEFINE x == [n |-> n, kind |-> k]
      <4>1. \A d \in Ofconns : Running(d)' = Running(d)
        BY <3>5, ZenonT(30) DEF Running
      <4>2. x \in Reply /\ x.n = handled[c] + 1 /\ x.kind = k
        BY <1>2, <1>3, ZenonT(30) DEF Reply
      <4> HIDE DEF x
      <4>3. /\ Append(replies[c], x) \in Seq(Reply) /\ Len(Append(replies[c], x)) = L + 1
            /\ \A i \in 1 .. L : Append(replies[c], x)[i] = replies[c][i]
            /\ Append(replies[c], x)[L + 1] = x
        BY <3>3, <4>2, AppendProperties
      <4>4. /\ replies' \in [Ofconns -> Seq(Reply)] /\ replies'[c] = Append(replies[c], x)
            /\ \A d \in Ofconns : d # c => replies'[d] = replies[d]
        BY <3>3, <3>5, <4>3, ZenonT(30) DEF x
      <4>5. k = "barrier" => Running(c)' = {}
        BY <1>1, <3>5, <4>1, RunningTypes, ZenonT(30)
      <4>6. BarrierHolds(c)' /\ AnswersDealtWith(c)'
        BY <1>1, <3>1, <4>1, <4>2, <4>3, <4>4, <4>5, NextIsAnswered, ZenonT(30)
      <4> QED
        BY <3>1, <3>2, <3>3, <3>5, <4>1, <4>4, <4>6, ZenonT(30)
    <3>6. ASSUME NEW buf \in BOOLEAN, Started(buf) PROVE Kept
      <4> DEFINE x == [conn |-> c, n |-> n, attached |-> TRUE, buffered |-> buf]
      <4>1. x \in Group /\ x.n = handled[c] + 1 /\ x.conn = c
        BY <1>2, <1>3, ZenonT(30) DEF Group
      <4> HIDE DEF x
      <4>2. groups' = Append(groups, x)
        BY <3>6 DEF x
      <4>3. /\ groups' \in Seq(Group) /\ Len(groups') = Len(groups) + 1
            /\ \A d \in Ofconns : Running(d)' \subseteq Running(d) \cup (IF x.conn = d THEN {x.n} ELSE {})
        BY <1>1, <4>1, <4>2, GroupStarted, ZenonT(30)
      <4>4. Len(groups') <= PendingLimit
        BY <3>3, <3>6, <4>3, RequestsAssumption, SMTT(60)
      <4>5. BarrierHolds(c)' /\ AnswersDealtWith(c)'
        <5>1. L # L + 1
          BY <3>3
        <5>2. Running(c)' \subseteq Running(c) \cup {handled[c] + 1}
          BY <4>1, <4>3, ZenonT(30)
        <5> QED
          BY <1>1, <3>1, <3>6, <5>1, <5>2, NextIsAnswered, ZenonT(30)
      <4>6. \A d \in Ofconns : d # c => Running(d)' \subseteq Running(d)
        BY <4>1, <4>3, ZenonT(30)
      <4> QED
        BY <3>1, <3>2, <3>3, <3>6, <4>3, <4>4, <4>5, <4>6, ZenonT(30)
    <3> QED
      BY <2>3, <3>4, <3>5, <3>6, ZenonT(30)
  <2> QED
    BY <2>1, <2>2, <2>3, ZenonT(30)
<1>5. RequestsTypeOK'
  BY <1>1, <1>2, <1>4, ZenonT(30) DEF RequestsTypeOK
<1>6. ASSUME NEW d \in Ofconns, d # c PROVE Orderly(d)'
  BY <1>2, <1>4, <1>6, Untouched DEF RequestsInv
<1>7. Orderly(c)'
  BY <1>2, <1>4, ZenonT(30) DEF Orderly, NothingLeftOver
<1> QED
  BY <1>5, <1>6, <1>7 DEF RequestsInv

(* The controller's own steps.                                             *)
LEMMA AskStep ==
    ASSUME RequestsInv, NEW c \in Ofconns, NEW k \in Kinds, Ask(c, k)
    PROVE  RequestsInv'
<1> DEFINE x == [n |-> sent[c] + 1, kind |-> k]
           q == Queued(c)
<1>1. RequestsTypeOK /\ Orderly(c) /\ conn_status[c] = "up" /\ requests[c] < MaxRequests
  BY DEF RequestsInv, Ask
<1>2. /\ blocked[c] \in Seq(Message) /\ inbox[c] \in Seq(Message) /\ inbox \in [Ofconns -> Seq(Message)]
      /\ sent \in [Ofconns -> 0 .. MaxRequests] /\ requests \in [Ofconns -> 0 .. MaxRequests]
      /\ sent[c] \in Nat /\ handled[c] \in Nat /\ sent[c] <= requests[c] /\ requests[c] \in Nat
  BY <1>1, RequestTypes, SMTT(60) DEF RequestsTypeOK
<1>3. sent[c] + 1 \in 1 .. MaxRequests /\ sent[c] + 1 <= requests[c] + 1 /\ requests[c] + 1 \in 0 .. MaxRequests
  BY <1>1, <1>2, RequestsAssumption, SMTT(60)
<1>4. x \in Message /\ x.n = sent[c] + 1
  BY <1>3, ZenonT(30) DEF Message
<1> HIDE DEF x
<1>5. /\ inbox' = [inbox EXCEPT ![c] = Append(@, x)]
      /\ UNCHANGED <<conn_status, blocked, retry, nxm, groups, replies, handled>>
  BY DEF Ask, x
<1>6. /\ inbox' \in [Ofconns -> Seq(Message)] /\ inbox'[c] = Append(inbox[c], x)
      /\ \A d \in Ofconns : d # c => inbox'[d] = inbox[d]
  <2>1. Append(inbox[c], x) \in Seq(Message)
    BY <1>2, <1>4, AppendProperties, ZenonT(30)
  <2> QED
    BY <1>2, <1>5, <2>1, ZenonT(30)
<1>7. /\ sent' \in [Ofconns -> 0 .. MaxRequests] /\ requests' \in [Ofconns -> 0 .. MaxRequests]
      /\ sent'[c] = sent[c] + 1 /\ requests'[c] = requests[c] + 1
      /\ \A d \in Ofconns : d # c => sent'[d] = sent[d] /\ requests'[d] = requests[d]
  <2>1. sent[c] + 1 \in 0 .. MaxRequests
    BY <1>2, <1>3
  <2> QED
    BY <1>2, <1>3, <2>1, ZenonT(30) DEF Ask
<1>8. \A d \in Ofconns : Running(d)' = Running(d)
  BY <1>5, ZenonT(30) DEF Running
<1>9. RequestsTypeOK'
  <2>1. \A d \in Ofconns : sent'[d] <= requests'[d] /\ Len(blocked'[d]) <= 1
    BY <1>1, <1>3, <1>5, <1>7, ZenonT(30) DEF RequestsTypeOK
  <2> QED
    BY <1>1, <1>5, <1>6, <1>7, <2>1, ZenonT(30) DEF RequestsTypeOK
<1>10. OnceInOrder(c)'
  <2>1. q \in Seq(Message) /\ Len(q) \in Nat /\ Queued(c)' = Append(q, x)
    <3>1. Queued(c)' = blocked[c] \o Append(inbox[c], x)
      BY <1>5, <1>6, ZenonT(30) DEF Queued
    <3>2. blocked[c] \o Append(inbox[c], x) = Append(q, x)
      <4>1. blocked[c] \in Seq(Message) /\ inbox[c] \in Seq(Message) /\ x \in Message
        BY <1>2, <1>4, ZenonT(30)
      <4> QED
        BY <4>1, AppendBehind, ZenonT(30) DEF Queued
    <3>3. q \in Seq(Message)
      BY <1>2, ConcatProperties, ZenonT(30) DEF Queued
    <3> QED
      BY <3>1, <3>2, <3>3, LenProperties, ZenonT(30)
  <2> HIDE DEF q
  <2>2. /\ Len(Queued(c)') = Len(q) + 1 /\ Queued(c)'[Len(q) + 1] = x
        /\ \A i \in 1 .. Len(q) : Queued(c)'[i] = q[i]
    BY <1>4, <2>1, AppendProperties, SMTT(60)
  <2>3. Len(q) = sent[c] - handled[c] /\ \A i \in 1 .. Len(q) : q[i].n = handled[c] + i
    BY <1>1 DEF Orderly, OnceInOrder, q
  <2>4. Len(Queued(c)') = sent'[c] - handled'[c]
    <3>1. Len(Queued(c)') = (sent[c] - handled[c]) + 1
      BY <2>2, <2>3, ZenonT(30)
    <3>2. (sent[c] - handled[c]) + 1 = (sent[c] + 1) - handled[c]
      BY <1>2, Counting, ZenonT(30)
    <3> QED
      BY <1>5, <1>7, <3>1, <3>2, ZenonT(30)
  <2>5. ASSUME NEW i \in 1 .. Len(q) + 1 PROVE Queued(c)'[i].n = handled'[c] + i
    <3>1. CASE i \in 1 .. Len(q)
      BY <1>5, <2>2, <2>3, <3>1, ZenonT(30)
    <3>2. CASE i = Len(q) + 1
      <4>1. Queued(c)'[i].n = sent[c] + 1
        BY <1>4, <2>2, <3>2, ZenonT(30)
      <4>2. sent[c] + 1 = handled[c] + i
        <5>1. handled[c] + ((sent[c] - handled[c]) + 1) = sent[c] + 1
          BY <1>2, Counting, ZenonT(30)
        <5> QED
          BY <2>3, <3>2, <5>1, ZenonT(30)
      <4> QED
        BY <1>5, <4>1, <4>2, ZenonT(30)
    <3> QED
      BY <2>1, <3>1, <3>2
  <2> QED
    BY <2>2, <2>4, <2>5, ZenonT(30) DEF OnceInOrder
<1>11. Orderly(c)'
  <2>1. conn_status'[c] = "up" /\ replies'[c] = replies[c] /\ handled'[c] = handled[c]
    BY <1>1, <1>5, ZenonT(30)
  <2>2. BarrierHolds(c)' /\ AnswersDealtWith(c)'
    BY <1>1, <1>8, <2>1, ZenonT(30) DEF Orderly, BarrierHolds, AnswersDealtWith
  <2>3. NothingLeftOver(c)'
    BY <2>1 DEF NothingLeftOver
  <2> QED
    BY <1>10, <2>2, <2>3 DEF Orderly
<1>12. ASSUME NEW d \in Ofconns, d # c PROVE Orderly(d)'
  BY <1>5, <1>6, <1>7, <1>8, <1>12, Untouched, ZenonT(30) DEF RequestsInv
<1> QED
  BY <1>9, <1>11, <1>12, ZenonT(30) DEF RequestsInv

LEMMA TakeReplyStep ==
    ASSUME RequestsInv, NEW c \in Ofconns, TakeReply(c)
    PROVE  RequestsInv'
<1> DEFINE s == replies[c]
           t == Tail(s)
<1>1. RequestsTypeOK /\ Orderly(c) /\ s # <<>>
  BY DEF RequestsInv, TakeReply
<1>2. s \in Seq(Reply) /\ replies \in [Ofconns -> Seq(Reply)]
  BY <1>1, RequestTypes, ZenonT(30) DEF RequestsTypeOK
<1>3. replies' = [replies EXCEPT ![c] = t]
      /\ UNCHANGED <<conn_status, inbox, blocked, retry, nxm, groups, sent, handled, requests>>
  BY DEF TakeReply
<1> HIDE DEF s
<1>4. t \in Seq(Reply) /\ Len(s) \in Nat /\ Len(t) = Len(s) - 1 /\ \A i \in 1 .. Len(t) : t[i] = s[i + 1]
  BY <1>1, <1>2
<1> HIDE DEF t
<1>5. /\ replies' \in [Ofconns -> Seq(Reply)] /\ replies'[c] = t
      /\ \A d \in Ofconns : d # c => replies'[d] = replies[d]
  BY <1>2, <1>3, <1>4, ZenonT(30)
<1>6. RequestsTypeOK'
  BY <1>1, <1>3, <1>5, ZenonT(30) DEF RequestsTypeOK
<1>7. \A d \in Ofconns : Running(d)' = Running(d) /\ Queued(d)' = Queued(d)
  BY <1>3, ZenonT(30) DEF Running, Queued
<1>8. OnceInOrder(c)' /\ NothingLeftOver(c)'
  <2>1. conn_status[c] = "up"
    BY <1>1, ZenonT(30) DEF Orderly, NothingLeftOver, s
  <2> QED
    BY <1>1, <1>3, <1>7, <2>1, ZenonT(30) DEF Orderly, OnceInOrder, NothingLeftOver
<1>9. /\ \A i \in 1 .. Len(s) : s[i].n <= handled[c]
      /\ \A i \in 1 .. Len(s) : s[i].kind = "barrier" =>
           /\ \A n \in Running(c) : n > s[i].n
           /\ \A j \in i + 1 .. Len(s) : s[j].n > s[i].n
      /\ \A n \in Running(c) : n <= handled[c]
  BY <1>1, ZenonT(30) DEF Orderly, BarrierHolds, AnswersDealtWith, s
<1>10. \A i \in 1 .. Len(t) :
          /\ i + 1 \in 1 .. Len(s)
          /\ \A j \in i + 1 .. Len(t) : j \in 1 .. Len(t) /\ j + 1 \in i + 1 + 1 .. Len(s)
  BY <1>4
<1>11. AnswersDealtWith(c)'
  BY <1>3, <1>4, <1>5, <1>7, <1>9, <1>10, ZenonT(30) DEF AnswersDealtWith
<1>12. BarrierHolds(c)'
  <2>1. ASSUME NEW i \in 1 .. Len(t), t[i].kind = "barrier"
        PROVE  /\ \A n \in Running(c) : n > t[i].n
               /\ \A j \in i + 1 .. Len(t) : t[j].n > t[i].n
    BY <1>4, <1>9, <1>10, <2>1, ZenonT(30)
  <2> QED
    BY <1>5, <1>7, <2>1, ZenonT(30) DEF BarrierHolds
<1>13. Orderly(c)'
  BY <1>8, <1>11, <1>12 DEF Orderly
<1>14. ASSUME NEW d \in Ofconns, d # c PROVE Orderly(d)'
  BY <1>3, <1>5, <1>7, <1>14, Untouched, ZenonT(30) DEF RequestsInv
<1> QED
  BY <1>6, <1>13, <1>14, ZenonT(30) DEF RequestsInv

(* Connections are lost, noticed, come back, and are removed.              *)
LEMMA LoseStep ==
    ASSUME RequestsInv, NEW c \in Ofconns, Lose(c)
    PROVE  RequestsInv'
<1>1. RequestsTypeOK /\ Orderly(c)
  BY DEF RequestsInv
<1>2. /\ conn_status' \in [Ofconns -> {"up", "broken", "down", "gone"}] /\ conn_status'[c] = "broken"
      /\ inbox' \in [Ofconns -> Seq(Message)] /\ inbox'[c] = <<>>
      /\ replies' \in [Ofconns -> Seq(Reply)] /\ replies'[c] = <<>>
      /\ \A d \in Ofconns : d # c =>
            conn_status'[d] = conn_status[d] /\ inbox'[d] = inbox[d] /\ replies'[d] = replies[d]
      /\ UNCHANGED <<blocked, retry, nxm, groups, sent, handled, requests>>
  <2>1. <<>> \in Seq(Message) /\ <<>> \in Seq(Reply)
    OBVIOUS
  <2> QED
    BY <1>1, <2>1, ZenonT(30) DEF Lose, RequestsTypeOK
<1>3. RequestsTypeOK'
  BY <1>1, <1>2, ZenonT(30) DEF RequestsTypeOK
<1>4. \A d \in Ofconns : Running(d)' = Running(d)
  <2>1. groups' = groups
    BY ONLY <1>2, ZenonT(30)
  <2> QED
    BY <2>1, ZenonT(30) DEF Running
<1>5. Orderly(c)'
  <2>1. 1 .. Len(replies'[c]) = {}
    BY <1>2
  <2>2. \A n \in Running(c)' : n <= handled'[c]
    BY <1>1, <1>2, <1>4, ZenonT(30) DEF Orderly, AnswersDealtWith
  <2> QED
    BY ONLY <1>2, <2>1, <2>2, ZenonT(30)
       DEF Orderly, OnceInOrder, BarrierHolds, NothingLeftOver, AnswersDealtWith
<1>6. ASSUME NEW d \in Ofconns, d # c PROVE Orderly(d)'
  BY <1>2, <1>4, <1>6, Untouched, ZenonT(30) DEF RequestsInv
<1> QED
  BY <1>3, <1>5, <1>6, ZenonT(30) DEF RequestsInv

LEMMA FlushRequestsStep ==
    ASSUME RequestsInv, NEW c \in Ofconns, Notice(c) \/ ofconn_destroy(c)
    PROVE  RequestsInv'
<1>1. RequestsTypeOK /\ Orderly(c) /\ ofconn_flush_requests(c)
  BY DEF RequestsInv, Notice, ofconn_destroy
<1>2. /\ groups' \in Seq(Group) /\ Len(groups') = Len(groups)
      /\ Running(c)' = {} /\ \A d \in Ofconns : Running(d)' \subseteq Running(d)
  BY <1>1, GroupsDetached, ZenonT(30) DEF ofconn_flush_requests
<1>3. /\ blocked' \in [Ofconns -> Seq(Message)] /\ blocked'[c] = <<>> /\ nxm' \in [Ofconns -> BOOLEAN]
      /\ \A d \in Ofconns : d # c => blocked'[d] = blocked[d]
  <2>1. <<>> \in Seq(Message)
    BY SMTT(60)
  <2> QED
    BY <1>1, <2>1, ZenonT(30) DEF ofconn_flush_requests, RequestsTypeOK
<1>4. /\ inbox' \in [Ofconns -> Seq(Message)] /\ inbox'[c] = <<>>
      /\ replies' \in [Ofconns -> Seq(Reply)] /\ replies'[c] = <<>>
      /\ conn_status' \in [Ofconns -> {"up", "broken", "down", "gone"}] /\ conn_status'[c] \in {"down", "gone"}
      /\ \A d \in Ofconns : d # c =>
            conn_status'[d] = conn_status[d] /\ inbox'[d] = inbox[d] /\ replies'[d] = replies[d]
      /\ UNCHANGED <<retry, sent, handled, requests>>
  <2>1. CASE Notice(c)
    <3>1. inbox[c] = <<>> /\ replies[c] = <<>>
      BY <1>1, <2>1 DEF Notice, Orderly, NothingLeftOver
    <3> QED
      BY <1>1, <2>1, <3>1, ZenonT(30) DEF Notice, RequestsTypeOK
  <2>2. CASE ofconn_destroy(c)
    <3>1. <<>> \in Seq(Message) /\ <<>> \in Seq(Reply)
      OBVIOUS
    <3> QED
      BY <1>1, <2>2, <3>1, ZenonT(30) DEF ofconn_destroy, RequestsTypeOK
  <2> QED
    BY <2>1, <2>2
<1>5. RequestsTypeOK'
  <2>1. Len(<<>>) <= 1
    OBVIOUS
  <2>2. \A d \in Ofconns : Len(blocked'[d]) <= 1
    BY <1>1, <1>3, <2>1, ZenonT(30) DEF RequestsTypeOK
  <2> QED
    BY <1>1, <1>2, <1>3, <1>4, <2>2, ZenonT(30) DEF RequestsTypeOK
<1>6. Orderly(c)'
  <2>1. 1 .. Len(replies'[c]) = {}
    BY <1>4
  <2> QED
    BY <1>2, <1>3, <1>4, <2>1, ZenonT(30)
       DEF Orderly, OnceInOrder, BarrierHolds, NothingLeftOver, AnswersDealtWith
<1>7. ASSUME NEW d \in Ofconns, d # c PROVE Orderly(d)'
  BY <1>2, <1>3, <1>4, <1>7, Untouched, ZenonT(30) DEF RequestsInv
<1> QED
  BY <1>5, <1>6, <1>7, ZenonT(30) DEF RequestsInv

LEMMA ReturnStep ==
    ASSUME RequestsInv, NEW c \in Ofconns, Return(c)
    PROVE  RequestsInv'
<1>1. RequestsTypeOK /\ Orderly(c) /\ conn_status[c] = "down"
  BY DEF RequestsInv, Return
<1>2. inbox[c] = <<>> /\ replies[c] = <<>> /\ blocked[c] = <<>> /\ Running(c) = {}
  BY <1>1 DEF Orderly, NothingLeftOver
<1>3. /\ conn_status' \in [Ofconns -> {"up", "broken", "down", "gone"}] /\ conn_status'[c] = "up"
      /\ sent' \in [Ofconns -> 0 .. MaxRequests] /\ handled' \in [Ofconns -> 0 .. MaxRequests]
      /\ sent'[c] = 0 /\ handled'[c] = 0
      /\ \A d \in Ofconns : d # c => conn_status'[d] = conn_status[d] /\ sent'[d] = sent[d] /\ handled'[d] = handled[d]
      /\ UNCHANGED <<inbox, blocked, retry, nxm, groups, replies, requests>>
  <2>1. 0 \in 0 .. MaxRequests
    BY RequestsAssumption
  <2>2. sent \in [Ofconns -> 0 .. MaxRequests] /\ handled \in [Ofconns -> 0 .. MaxRequests]
    BY <1>1, ZenonT(30) DEF RequestsTypeOK
  <2> QED
    BY <1>1, <2>1, <2>2, ZenonT(30) DEF Return, RequestsTypeOK
<1>4. RequestsTypeOK'
  <2>1. 0 <= requests[c]
    BY <1>1, RequestTypes
  <2>2. \A d \in Ofconns : sent'[d] <= requests'[d]
    BY <1>1, <1>3, <2>1, ZenonT(30) DEF RequestsTypeOK
  <2> QED
    BY <1>1, <1>3, <2>2, ZenonT(30) DEF RequestsTypeOK
<1>5. \A d \in Ofconns : Running(d)' = Running(d)
  <2>1. groups' = groups
    BY <1>3, SMTT(60)
  <2> QED
    BY <2>1, ZenonT(30) DEF Running
<1>6. Orderly(c)'
  <2>1. Len(Queued(c)') = 0 /\ 1 .. Len(Queued(c)') = {} /\ 1 .. Len(replies'[c]) = {}
    <3>1. Queued(c)' = <<>> \o <<>> /\ replies'[c] = <<>>
      BY <1>2, <1>3, ZenonT(30) DEF Queued
    <3>2. <<>> \o <<>> = <<>> /\ Len(<<>>) = 0 /\ 1 .. Len(<<>>) = {}
      OBVIOUS
    <3> QED
      BY <3>1, <3>2, ZenonT(30)
  <2>2. OnceInOrder(c)'
    BY <1>3, <2>1 DEF OnceInOrder
  <2> QED
    BY <1>2, <1>3, <1>5, <2>1, <2>2 DEF Orderly, BarrierHolds, NothingLeftOver, AnswersDealtWith
<1>7. ASSUME NEW d \in Ofconns, d # c PROVE Orderly(d)'
  BY <1>3, <1>5, <1>7, Untouched, ZenonT(30) DEF RequestsInv
<1> QED
  BY <1>4, <1>6, <1>7, ZenonT(30) DEF RequestsInv

(* The errors of the groups that fail are about requests that were still   *)
(* running, so that they may follow any barrier reply.                     *)
LEMMA ErrorsOfRunning ==
    ASSUME RequestsTypeOK, NEW c \in Ofconns, NEW e \in Failures(c)
    PROVE  /\ Errors(e) \in Seq(Reply)
           /\ \A j \in 1 .. Len(Errors(e)) : Errors(e)[j].n \in Running(c) /\ Errors(e)[j].kind = "error"
<1> DEFINE I == {i \in DOMAIN groups : groups[i].buffered /\ groups[i].attached /\ groups[i].conn = c}
<1>1. DOMAIN groups = 1 .. Len(groups) /\ Len(groups) \in Nat
  BY RequestTypes, LenProperties, ZenonT(30)
<1>2. PICK k \in 0 .. Len(groups) : e \in [1 .. k -> I]
  BY ZenonT(30) DEF Failures
<1>3. k \in Nat
  BY <1>1, <1>2, SMTT(60)
<1>4. ASSUME NEW j \in 1 .. k
      PROVE  /\ Errors(e)[j].n \in Running(c) /\ Errors(e)[j].kind = "error"
             /\ Errors(e)[j] \in Reply
  <2>1. e[j] \in 1 .. Len(groups) /\ groups[e[j]].attached /\ groups[e[j]].conn = c
    BY <1>1, <1>2, ZenonT(30)
  <2>2. groups[e[j]].n \in Running(c)
    BY <2>1, ZenonT(30) DEF Running
  <2>3. groups[e[j]].n \in 1 .. MaxRequests
    BY <2>2, RunningTypes, ZenonT(30)
  <2>4. Errors(e)[j] = [n |-> groups[e[j]].n, kind |-> "error"]
    BY <1>2, ZenonT(30) DEF Errors
  <2> QED
    BY <2>2, <2>3, <2>4 DEF Reply
<1>5. Errors(e) \in [1 .. k -> Reply]
  BY <1>2, <1>4, ZenonT(30) DEF Errors
<1>6. Errors(e) \in Seq(Reply) /\ Len(Errors(e)) = k
  BY <1>3, <1>5, SeqDef, LenProperties
<1> QED
  BY <1>4, <1>6, ZenonT(30)

LEMMA ErrorsFollow ==
    ASSUME RequestsTypeOK, NEW c \in Ofconns, Orderly(c), Running(c)' = {}, handled'[c] = handled[c],
           NEW t \in Seq(Reply), \A j \in 1 .. Len(t) : t[j].n \in Running(c) /\ t[j].kind = "error",
           replies'[c] = replies[c] \o t
    PROVE  replies'[c] \in Seq(Reply) /\ BarrierHolds(c)' /\ AnswersDealtWith(c)'
<1> DEFINE s == replies[c]
           u == replies'[c]
<1>1. s \in Seq(Reply) /\ Len(s) \in Nat /\ Len(t) \in Nat
  BY RequestTypes, LenProperties, ZenonT(30)
<1>2. /\ \A i \in 1 .. Len(s) : s[i].n <= handled[c]
      /\ \A i \in 1 .. Len(s) : s[i].kind = "barrier" =>
           /\ \A n \in Running(c) : n > s[i].n
           /\ \A j \in i + 1 .. Len(s) : s[j].n > s[i].n
      /\ \A n \in Running(c) : n <= handled[c]
  BY SMTT(60) DEF Orderly, BarrierHolds, AnswersDealtWith
<1>3. u = s \o t
  OBVIOUS
<1> HIDE DEF s
<1>4. /\ s \o t \in Seq(Reply) /\ Len(s \o t) = Len(s) + Len(t)
      /\ \A i \in 1 .. Len(s) + Len(t) : (s \o t)[i] = IF i <= Len(s) THEN s[i] ELSE t[i - Len(s)]
  BY <1>1, ConcatProperties
<1>5. u \in Seq(Reply) /\ Len(u) = Len(s) + Len(t)
  BY <1>3, <1>4, ZenonT(30)
<1>6. /\ \A i \in 1 .. Len(s) : u[i] = s[i]
      /\ \A i \in Len(s) + 1 .. Len(u) : \E j \in 1 .. Len(t) : u[i] = t[j]
  <2>1. ASSUME NEW i \in 1 .. Len(s) PROVE u[i] = s[i]
    <3>1. i \in 1 .. Len(s) + Len(t) /\ i <= Len(s)
      BY <1>1
    <3> QED
      BY <1>3, <1>4, <3>1, ZenonT(30)
  <2>2. ASSUME NEW i \in Len(s) + 1 .. Len(u) PROVE \E j \in 1 .. Len(t) : u[i] = t[j]
    <3>1. i \in 1 .. Len(s) + Len(t) /\ ~(i <= Len(s)) /\ i - Len(s) \in 1 .. Len(t)
      BY <1>1, <1>5
    <3> QED
      BY <1>3, <1>4, <3>1, ZenonT(30)
  <2> QED
    BY <2>1, <2>2, ZenonT(30)
<1>7. \A i \in 1 .. Len(u) : i \in 1 .. Len(s) \/ i \in Len(s) + 1 .. Len(u)
  BY <1>1, <1>5
<1> HIDE DEF u
<1>8. AnswersDealtWith(c)'
  BY <1>2, <1>6, <1>7, ZenonT(30) DEF AnswersDealtWith, u
<1>9. ASSUME NEW i \in 1 .. Len(u), u[i].kind = "barrier", NEW j \in i + 1 .. Len(u)
      PROVE  u[j].n > u[i].n
  <2>1. i \in 1 .. Len(s) /\ u[i] = s[i]
    <3>1. CASE i \in Len(s) + 1 .. Len(u)
      <4>1. u[i].kind = "error"
        BY <1>6, <3>1, ZenonT(30)
      <4> QED
        BY <1>9, <4>1
    <3> QED
      BY <1>6, <1>7, <3>1, ZenonT(30)
  <2>2. j \in i + 1 .. Len(s) \/ j \in Len(s) + 1 .. Len(u)
    BY <1>1, <1>5, <2>1
  <2>3. CASE j \in i + 1 .. Len(s)
    <3>1. j \in 1 .. Len(s)
      BY <1>1, <2>1, <2>3
    <3> QED
      BY <1>2, <1>6, <1>9, <2>1, <2>3, <3>1, ZenonT(30)
  <2>4. CASE j \in Len(s) + 1 .. Len(u)
    BY <1>2, <1>6, <1>9, <2>1, <2>4, ZenonT(30)
  <2> QED
    BY <2>2, <2>3, <2>4
<1> QED
  BY <1>5, <1>8, <1>9, ZenonT(30) DEF BarrierHolds, u

LEMMA CompleteGroupsStep ==
    ASSUME RequestsInv, CompleteGroups
    PROVE  RequestsInv'
<1>1. RequestsTypeOK /\ \A c \in Ofconns : Orderly(c)
  BY DEF RequestsInv
<1>2. PICK E \in [Ofconns -> UNION {Failures(c) : c \in Ofconns}] :
        /\ \A c \in Ofconns : E[c] \in Failures(c)
        /\ replies' = [c \in Ofconns |->
                         IF conn_status[c] # "up" THEN replies[c] ELSE replies[c] \o Errors(E[c])]
  BY ZenonT(30) DEF CompleteGroups
<1>3. groups' = <<>> /\ UNCHANGED <<conn_status, inbox, blocked, nxm, sent, handled, requests>>
  BY DEF CompleteGroups
<1>4. groups' \in Seq(Group) /\ Len(groups') <= PendingLimit /\ \A c \in Ofconns : Running(c)' = {}
  <2>1. <<>> \in Seq(Group) /\ Len(<<>>) <= PendingLimit /\ 1 .. Len(<<>>) = {}
    BY RequestsAssumption
  <2> QED
    BY <1>3, <2>1, ZenonT(30) DEF Running
<1>5. retry' \in [Ofconns -> BOOLEAN]
  <2>1. \A d \in Ofconns : retry[d] \in BOOLEAN
    BY <1>1, ZenonT(30) DEF RequestsTypeOK
  <2> QED
    BY <2>1, ZenonT(30) DEF CompleteGroups
<1>6. ASSUME NEW c \in Ofconns
      PROVE  replies'[c] \in Seq(Reply) /\ BarrierHolds(c)' /\ AnswersDealtWith(c)'
             /\ (conn_status[c] # "up" => replies'[c] = replies[c])
  <2>1. CASE conn_status[c] # "up"
    <3>1. replies'[c] = <<>> /\ replies[c] = <<>>
      BY <1>1, <1>2, <2>1, ZenonT(30) DEF Orderly, NothingLeftOver
    <3>2. <<>> \in Seq(Reply) /\ 1 .. Len(<<>>) = {}
      OBVIOUS
    <3> QED
      BY <1>4, <3>1, <3>2, ZenonT(30) DEF BarrierHolds, AnswersDealtWith
  <2>2. CASE conn_status[c] = "up"
    <3>1. replies'[c] = replies[c] \o Errors(E[c]) /\ E[c] \in Failures(c)
      BY <1>2, <2>2, ZenonT(30)
    <3>2. /\ Errors(E[c]) \in Seq(Reply)
          /\ \A j \in 1 .. Len(Errors(E[c])) : Errors(E[c])[j].n \in Running(c) /\ Errors(E[c])[j].kind = "error"
      BY <1>1, <3>1, ErrorsOfRunning, ZenonT(30)
    <3>3. handled'[c] = handled[c]
      BY <1>3
    <3> QED
      BY <1>1, <1>4, <2>2, <3>1, <3>2, <3>3, ErrorsFollow, ZenonT(30)
  <2> QED
    BY <2>1, <2>2
<1>7. RequestsTypeOK'
  <2>1. replies' \in [Ofconns -> Seq(Reply)]
    BY <1>2, <1>6, ZenonT(30)
  <2> QED
    BY <1>1, <1>3, <1>4, <1>5, <2>1, ZenonT(30) DEF RequestsTypeOK
<1>8. ASSUME NEW c \in Ofconns PROVE OnceInOrder(c)' /\ NothingLeftOver(c)'
  <2>1. Orderly(c) /\ Queued(c)' = Queued(c)
    BY <1>1, <1>3, ZenonT(30) DEF Queued
  <2> QED
    BY <1>3, <1>4, <1>6, <2>1 DEF Orderly, OnceInOrder, NothingLeftOver
<1> QED
  BY <1>6, <1>7, <1>8, ZenonT(30) DEF RequestsInv, Orderly

(* Every request is dealt with once and in order on its connection, and    *)
(* when a barrier reply is on its way, the operations of all earlier       *)
(* requests have completed and their errors are ahead of it, for every     *)
(* set of connections and every limit: ofconn_run and handle_openflow with *)
(* postponed requests, ofopgroup_complete, ofconn_flush and ofconn_destroy *)
(* (connmgr.c:1104-1126, 1253-1275, ofproto.c:4619-4633, 5326-5332).       *)
THEOREM RequestsInductive == RequestsSpec => []RequestsInv
<1>1. RequestsInit => RequestsInv
  <2> SUFFICES ASSUME RequestsInit PROVE RequestsInv
    OBVIOUS
  <2>1. /\ <<>> \in Seq(Message) /\ <<>> \in Seq(Reply) /\ <<>> \in Seq(Group) /\ 1 .. Len(<<>>) = {}
        /\ <<>> \o <<>> = <<>> /\ Len(<<>>) = 0 /\ 0 <= 1 /\ 0 <= 0 /\ 0 - 0 = 0
        /\ 0 \in 0 .. MaxRequests /\ 0 <= PendingLimit
    BY RequestsAssumption
  <2>2. RequestsTypeOK
    BY <2>1, ZenonT(30) DEF RequestsInit, RequestsTypeOK
  <2>3. \A c \in Ofconns : Running(c) = {} /\ Queued(c) = <<>>
    BY <2>1, ZenonT(30) DEF RequestsInit, Running, Queued
  <2>4. ASSUME NEW c \in Ofconns PROVE Orderly(c)
    <3>1. OnceInOrder(c)
      BY <2>1, <2>3, ZenonT(30) DEF OnceInOrder, RequestsInit
    <3>2. BarrierHolds(c) /\ AnswersDealtWith(c)
      BY <2>1, <2>3, ZenonT(30) DEF BarrierHolds, AnswersDealtWith, RequestsInit
    <3>3. NothingLeftOver(c)
      BY DEF NothingLeftOver, RequestsInit
    <3> QED
      BY <3>1, <3>2, <3>3 DEF Orderly
  <2> QED
    BY <2>2, <2>4 DEF RequestsInv
<1>2. RequestsInv /\ [RequestsNext]_requestVars => RequestsInv'
  <2> SUFFICES ASSUME RequestsInv, [RequestsNext]_requestVars PROVE RequestsInv'
    OBVIOUS
  <2>1. CASE CompleteGroups
    BY <2>1, CompleteGroupsStep
  <2>2. CASE ClogGroups \/ UNCHANGED requestVars
    <3>1. UNCHANGED <<conn_status, inbox, blocked, retry, nxm, groups, replies, sent, handled, requests>>
      BY <2>2 DEF ClogGroups, requestVars
    <3>2. RequestsTypeOK'
      BY <3>1, ZenonT(30) DEF RequestsInv, RequestsTypeOK
    <3>3. \A c \in Ofconns : Running(c)' = Running(c)
      BY <3>1, ZenonT(30) DEF Running
    <3>4. ASSUME NEW c \in Ofconns PROVE Orderly(c)'
      BY <3>1, <3>3, Untouched DEF RequestsInv
    <3> QED
      BY <3>2, <3>4 DEF RequestsInv
  <2>3. ASSUME NEW c \in Ofconns, Receive(c) PROVE RequestsInv'
    BY <2>3, ReceiveStep
  <2>4. ASSUME NEW c \in Ofconns, TakeReply(c) PROVE RequestsInv'
    BY <2>4, TakeReplyStep
  <2>5. ASSUME NEW c \in Ofconns, Lose(c) PROVE RequestsInv'
    BY <2>5, LoseStep
  <2>6. ASSUME NEW c \in Ofconns, Notice(c) \/ ofconn_destroy(c) PROVE RequestsInv'
    BY <2>6, FlushRequestsStep
  <2>7. ASSUME NEW c \in Ofconns, Return(c) PROVE RequestsInv'
    BY <2>7, ReturnStep
  <2>8. ASSUME NEW c \in Ofconns, NEW k \in Kinds, Ask(c, k) PROVE RequestsInv'
    BY <2>8, AskStep
  <2> QED
    BY <2>1, <2>2, <2>3, <2>4, <2>5, <2>6, <2>7, <2>8, ZenonT(30) DEF RequestsNext
<1> QED
  BY <1>1, <1>2, PTL DEF RequestsSpec
=============================================================================
