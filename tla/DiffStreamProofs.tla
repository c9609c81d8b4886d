---------------------------- MODULE DiffStreamProofs ----------------------------
(***************************************************************************)
(* Theorems of DiffStream for any clients, PVs, values, outages, failures  *)
(* and hang-ups, and for closes that suspend as well as for closes that do *)
(* not.                                                                    *)
(***************************************************************************)
EXTENDS DiffStream, SequenceTheorems, TLAPS

USE ClientsAssumption, CloseAssumption, BoundsAssumption

ClosingTyped == closing \in [Coroutines -> Clients \cup {NoClient}]
LocalTyped ==
  conns \subseteq Clients /\ subs \in [Clients -> SUBSET PVs] /\ index \in [PVs -> SUBSET Clients]

(* What disconnect does after its close leaves the two views well typed. *)
LEMMA RemoveTyped ==
  ASSUME LocalTyped, NEW c \in Clients, Remove(c)
  PROVE  LocalTyped'
BY DEF LocalTyped, Remove

(* So does a task whose send has failed, whether or not the close suspends. *)
LEMMA TaskDropsTyped ==
  ASSUME LocalTyped, ClosingTyped, NEW k \in Tasks, NEW c \in Clients, TaskDrops(k, c)
  PROVE  LocalTyped' /\ ClosingTyped'
BY RemoveTyped DEF LocalTyped, ClosingTyped, local, TaskDrops, Coroutines

GapTyped == gap \subseteq Clients \X PVs

(* What is lost for everyone, or for one client, is a set of pairs. *)
LEMMA GapsTyped ==
  ASSUME GapTyped
  PROVE  /\ \A pv \in PVs : gap \cup Everyone({pv}) \subseteq Clients \X PVs
         /\ \A pv \in PVs : gap \ Everyone({pv}) \subseteq Clients \X PVs
         /\ \A c \in Clients, S \in SUBSET PVs : gap \cup ({c} \X S) \subseteq Clients \X PVs
         /\ \A c \in Clients : \A S : gap \ ({c} \X S) \subseteq Clients \X PVs
         /\ \A S \in SUBSET PVs : gap \cup Everyone(S) \subseteq Clients \X PVs
BY DEF GapTyped, Everyone

(* Every variable keeps its type; the flush and the listener only ever
   handle values a PV has had. *)
THEOREM TypeCorrect == Spec => []TypeOK
<1>1. Init => TypeOK
  BY DEF Init, TypeOK, Values, Nothing
<1>2. TypeOK /\ [Next]_vars => TypeOK'
  <2> SUFFICES ASSUME TypeOK, [Next]_vars
               PROVE  TypeOK'
    OBVIOUS
  <2> USE DEF store, local, tasks, endpoints, sent, peers
  <2>g. GapTyped
    BY DEF TypeOK, GapTyped
  <2>f. Failure => failures' \in 0..MaxFailures
    BY DEF Failure, TypeOK
  <2>1. ASSUME NEW pv \in PVs, WriteCache(pv) PROVE TypeOK'
    BY <2>1 DEF WriteCache, TypeOK, Values
  <2>21. ASSUME NEW pv \in PVs, WriteSilently(pv) PROVE TypeOK'
    <3>1. gap' \subseteq Clients \X PVs
      BY <2>21, <2>g, GapsTyped DEF WriteSilently
    <3>2. cache' \in [PVs -> Values]
      BY <2>21 DEF WriteSilently, TypeOK, Values
    <3>3. UNCHANGED <<toPublish, wire, listening, outages, failures, local, tasks, endpoints, closing, sent>>
      BY <2>21 DEF WriteSilently
    <3> QED
      BY <3>1, <3>2, <3>3 DEF TypeOK
  <2>22. ASSUME NEW pv \in PVs, PublishFails(pv) PROVE TypeOK'
    <3>1. gap' \subseteq Clients \X PVs /\ failures' \in 0..MaxFailures
      BY <2>22, <2>f, <2>g, GapsTyped DEF PublishFails
    <3>2. toPublish' \subseteq PVs
      BY <2>22 DEF PublishFails, TypeOK
    <3>3. UNCHANGED <<cache, wire, listening, outages, local, tasks, endpoints, closing, sent>>
      BY <2>22 DEF PublishFails
    <3> QED
      BY <3>1, <3>2, <3>3 DEF TypeOK
  <2>23. ASSUME NEW c \in Clients, ReadFails(c) PROVE TypeOK'
    <3>1. failures' \in 0..MaxFailures
      BY <2>23, <2>f DEF ReadFails
    <3>2. /\ pc' \in [Clients -> {"new", "receive", "read", "initial", "all", "done"}]
          /\ asked' \in [Clients -> SUBSET PVs]
      BY <2>23 DEF ReadFails, TypeOK
    <3>3. UNCHANGED <<cache, toPublish, wire, listening, outages, local, tasks, read, closing, peers>>
      BY <2>23 DEF ReadFails
    <3> QED
      BY <3>1, <3>2, <3>3 DEF TypeOK
  <2>2. ASSUME NEW pv \in PVs, Publish(pv) PROVE TypeOK'
    <3>1. [pv |-> pv, val |-> cache[pv]] \in [pv : PVs, val : Values]
      BY DEF TypeOK
    <3>2. wire' \in Seq([pv : PVs, val : Values])
      <4>1. wire \in Seq([pv : PVs, val : Values])
        BY DEF TypeOK
      <4>2. wire' = Append(wire, [pv |-> pv, val |-> cache[pv]]) \/ wire' = wire
        BY <2>2 DEF Publish
      <4>3. Append(wire, [pv |-> pv, val |-> cache[pv]]) \in Seq([pv : PVs, val : Values])
        BY <3>1, <4>1, AppendProperties
      <4> QED
        BY <4>1, <4>2, <4>3
    <3>3. toPublish' \subseteq PVs
          /\ UNCHANGED <<cache, listening, outages, failures, local, tasks, endpoints, closing, sent>>
      BY <2>2 DEF Publish, TypeOK
    <3>4. gap' \subseteq Clients \X PVs
      BY <2>2, <2>g, GapsTyped DEF Publish
    <3> QED
      BY <3>2, <3>3, <3>4 DEF TypeOK
  <2>3. CASE Listen
    BY <2>3 DEF Listen, TypeOK, Values
  <2>4. CASE Outage
    <3>1. wire' \in Seq([pv : PVs, val : Values])
      BY <2>4, EmptySeq DEF Outage
    <3>2. outages < MaxOutages /\ outages' = outages + 1
      BY <2>4 DEF Outage
    <3>3. outages' \in 0..MaxOutages
      BY <3>2 DEF TypeOK
    <3>4. listening' = FALSE
          /\ UNCHANGED <<cache, toPublish, failures, local, tasks, endpoints, closing, sent>>
      BY <2>4 DEF Outage
    <3>5. {wire[i].pv : i \in DOMAIN wire} \in SUBSET PVs
      <4>1. \A i \in DOMAIN wire : wire[i] \in [pv : PVs, val : Values]
        <5>1. wire \in Seq([pv : PVs, val : Values])
          BY DEF TypeOK
        <5>2. DOMAIN wire = 1..Len(wire)
          BY <5>1, LenProperties
        <5> QED
          BY <5>1, <5>2, ElementOfSeq
      <4> QED
        BY <4>1
    <3>6. gap' \subseteq Clients \X PVs
      BY <2>4, <2>g, <3>5, GapsTyped DEF Outage
    <3> QED
      BY <3>1, <3>3, <3>4, <3>6 DEF TypeOK
  <2>5. CASE BufferUpdate
    <3>1. Head(wire) \in [pv : PVs, val : Values]
      BY <2>5, HeadTailProperties DEF BufferUpdate, TypeOK
    <3>2. wire' \in Seq([pv : PVs, val : Values])
      BY <2>5, HeadTailProperties DEF BufferUpdate, TypeOK
    <3>3. buffer' \in [PVs -> Values]
      BY <2>5, <3>1 DEF BufferUpdate, TypeOK
    <3>4. UNCHANGED <<cache, toPublish, listening, outages, failures, local, out, beats,
                      endpoints, closing, peers>>
      BY <2>5 DEF BufferUpdate
    <3> QED
      BY <3>2, <3>3, <3>4 DEF TypeOK
  <2>6. CASE StartFlush
    BY <2>6 DEF StartFlush, Nothing, TypeOK, Values
  <2>7. ASSUME NEW c \in Clients, SendDiff(c) PROVE TypeOK'
    <3>1. LocalTyped' /\ ClosingTyped'
      BY <2>7, TaskDropsTyped DEF LocalTyped, ClosingTyped, SendDiff, Tasks, TypeOK
    <3>2. out[c] \in [PVs -> Values] /\ newest[c] \in [PVs -> Values]
          /\ diffs[c] \in [PVs -> Values]
      BY DEF TypeOK
    <3>0. newest \in [Clients -> [PVs -> Values]] /\ diffs \in [Clients -> [PVs -> Values]]
      BY DEF TypeOK
    <3>3. (SentAny(c, out[c]) /\ SentDiff(c, out[c])) \/ UNCHANGED <<newest, diffs>>
      BY <2>7 DEF SendDiff
    <3>4. newest' \in [Clients -> [PVs -> Values]]
      <4>1. CASE SentAny(c, out[c])
        BY <3>0, <3>2, <4>1 DEF SentAny
      <4>2. CASE UNCHANGED <<newest, diffs>>
        BY <3>0, <4>2
      <4> QED
        BY <3>3, <4>1, <4>2
    <3>5. diffs' \in [Clients -> [PVs -> Values]]
      <4>1. CASE SentDiff(c, out[c])
        BY <3>0, <3>2, <4>1 DEF SentDiff
      <4>2. CASE UNCHANGED <<newest, diffs>>
        BY <3>0, <4>2
      <4> QED
        BY <3>3, <4>1, <4>2
    <3>6. out' \in [Clients -> [PVs -> Values]]
      BY <2>7 DEF SendDiff, Nothing, Values, TypeOK
    <3> QED
      BY <2>7, <3>1, <3>4, <3>5, <3>6 DEF SendDiff, LocalTyped, ClosingTyped, TypeOK
  <2>8. CASE StartBeat
    BY <2>8 DEF StartBeat, TypeOK, Values
  <2>9. ASSUME NEW c \in Clients, SendBeat(c) PROVE TypeOK'
    <3>1. LocalTyped' /\ ClosingTyped'
      BY <2>9, TaskDropsTyped DEF LocalTyped, ClosingTyped, SendBeat, Tasks, TypeOK
    <3> QED
      BY <2>9, <3>1 DEF SendBeat, LocalTyped, ClosingTyped, TypeOK
  <2>10. ASSUME NEW k \in Coroutines, FinishClose(k) PROVE TypeOK'
    <3>1. LocalTyped'
      BY <2>10, RemoveTyped DEF FinishClose, LocalTyped, TypeOK
    <3>2. \E keyError \in BOOLEAN : Resume(k, keyError)
      BY <2>10 DEF FinishClose
    <3>3. ClosingTyped' /\ out' \in [Clients -> [PVs -> Values]] /\ beats' \subseteq Clients
      <4>1. PICK keyError \in BOOLEAN :
               /\ closing' = [closing EXCEPT ![k] = NoClient]
               /\ out' = IF k = "flush" /\ keyError THEN [c \in Clients |-> Nothing] ELSE out
               /\ beats' = IF k = "beat" /\ keyError THEN {} ELSE beats
        BY <3>2 DEF Resume
      <4>2. ClosingTyped'
        BY <4>1 DEF ClosingTyped, TypeOK
      <4>3. out' \in [Clients -> [PVs -> Values]]
        BY <4>1 DEF Nothing, Values, TypeOK
      <4> QED
        BY <4>1, <4>2, <4>3 DEF TypeOK
    <3>6. gap' \subseteq Clients \X PVs
      <4>1. \/ gap' = gap
            \/ gap' = gap \cup {m \in Clients \X PVs : out[m[1]][m[2]] # 0}
        BY <3>2 DEF Resume
      <4> QED
        BY <2>g, <4>1 DEF GapTyped
    <3>4. CASE k \in Clients
      <4>1. PICK pc1 \in {"receive", "done"} : pc' = [pc EXCEPT ![k] = pc1]
        BY <3>2, <3>4 DEF Resume
      <4>2. asked' = [asked EXCEPT ![k] = {}] /\ read' = [read EXCEPT ![k] = Nothing]
        BY <3>2, <3>4 DEF Resume
      <4>3. asked' \in [Clients -> SUBSET PVs] /\ read' \in [Clients -> [PVs -> Values]]
        BY <3>4, <4>2 DEF Nothing, Values, TypeOK
      <4>4. pc' \in [Clients -> {"new", "receive", "read", "initial", "all", "done"}]
        BY <3>4, <4>1 DEF TypeOK
      <4> QED
        BY <2>10, <3>1, <3>3, <3>6, <4>3, <4>4 DEF FinishClose, LocalTyped, ClosingTyped, TypeOK
    <3>5. CASE k \notin Clients
      <4>1. UNCHANGED endpoints
        BY <3>2, <3>5 DEF Resume
      <4> QED
        BY <2>10, <3>1, <3>3, <3>6, <4>1 DEF FinishClose, LocalTyped, ClosingTyped, TypeOK
    <3> QED
      BY <3>4, <3>5
  <2>11. ASSUME NEW c \in Clients, Connect(c) PROVE TypeOK'
    BY <2>11 DEF Connect, TypeOK, Values
  <2>12. ASSUME NEW c \in Clients, GetAll(c) PROVE TypeOK'
    <3>1. gap' \subseteq Clients \X PVs
      BY <2>12, <2>g, GapsTyped DEF GetAll
    <3>2. /\ pc' \in [Clients -> {"new", "receive", "read", "initial", "all", "done"}]
          /\ read' \in [Clients -> [PVs -> Values]]
      BY <2>12 DEF GetAll, TypeOK
    <3>3. UNCHANGED <<store, local, tasks, asked, closing, sent>>
      BY <2>12 DEF GetAll
    <3> QED
      BY <3>1, <3>2, <3>3 DEF TypeOK
  <2>13. ASSUME NEW c \in Clients, ReadInitial(c) PROVE TypeOK'
    <3>1. gap' \subseteq Clients \X PVs
      BY <2>13, <2>g, GapsTyped DEF ReadInitial
    <3>2. /\ pc' \in [Clients -> {"new", "receive", "read", "initial", "all", "done"}]
          /\ read' \in [Clients -> [PVs -> Values]]
      BY <2>13 DEF ReadInitial, TypeOK, Values
    <3>3. UNCHANGED <<store, local, tasks, asked, closing, sent>>
      BY <2>13 DEF ReadInitial
    <3> QED
      BY <3>1, <3>2, <3>3 DEF TypeOK
  <2>14. ASSUME NEW c \in Clients, SendAnswer(c) PROVE TypeOK'
    <3>1. read[c] \in [PVs -> Values] /\ newest \in [Clients -> [PVs -> Values]]
      BY DEF TypeOK
    <3>2. SentAny(c, read[c]) \/ UNCHANGED newest
      BY <2>14 DEF SendAnswer
    <3>3. newest' \in [Clients -> [PVs -> Values]]
      BY <3>1, <3>2 DEF SentAny
    <3>4. ClosingTyped'
      BY <2>14 DEF SendAnswer, ClosingTyped, Coroutines, TypeOK
    <3>5. \/ UNCHANGED endpoints
          \/ /\ \E pc1 \in {"receive", "done"} : pc' = [pc EXCEPT ![c] = pc1]
             /\ asked' = [asked EXCEPT ![c] = {}]
             /\ read' = [read EXCEPT ![c] = Nothing]
      BY <2>14 DEF SendAnswer
    <3>6. pc' \in [Clients -> {"new", "receive", "read", "initial", "all", "done"}]
      BY <3>5 DEF TypeOK
    <3>7. asked' \in [Clients -> SUBSET PVs] /\ read' \in [Clients -> [PVs -> Values]]
      <4>1. CASE UNCHANGED endpoints
        BY <4>1 DEF TypeOK
      <4>2. CASE asked' = [asked EXCEPT ![c] = {}] /\ read' = [read EXCEPT ![c] = Nothing]
        BY <4>2 DEF Nothing, Values, TypeOK
      <4> QED
        BY <3>5, <4>1, <4>2
    <3> QED
      BY <2>14, <3>3, <3>4, <3>6, <3>7 DEF SendAnswer, ClosingTyped, TypeOK
  <2>15. ASSUME NEW c \in Clients, Leave(c) PROVE TypeOK'
    <3>1. /\ closing' = closing \/ closing' = [closing EXCEPT ![c] = c]
          /\ pc' = pc \/ pc' = [pc EXCEPT ![c] = "done"]
      BY <2>15 DEF Leave
    <3>2. closing' \in [Coroutines -> Clients \cup {NoClient}]
      <4>1. closing \in [Coroutines -> Clients \cup {NoClient}]
        BY DEF TypeOK
      <4> QED
        BY <3>1, <4>1
    <3>3. pc' \in [Clients -> {"new", "receive", "read", "initial", "all", "done"}]
      <4>1. pc \in [Clients -> {"new", "receive", "read", "initial", "all", "done"}]
        BY DEF TypeOK
      <4> QED
        BY <3>1, <4>1
    <3> QED
      BY <2>15, <3>2, <3>3 DEF Leave, TypeOK
  <2>16. ASSUME NEW c \in Clients, Hangup(c) PROVE TypeOK'
    BY <2>16 DEF Hangup, TypeOK, Values
  <2>17. ASSUME NEW c \in Clients, BadMessage(c) PROVE TypeOK'
    <3>1. /\ hangups < MaxHangups /\ hangups' = hangups + 1
          /\ broken' = broken \cup {c} /\ closing' = [closing EXCEPT ![c] = c]
          /\ UNCHANGED <<store, local, tasks, endpoints, newest, diffs, gap>>
      BY <2>17 DEF BadMessage
    <3>2. closing' \in [Coroutines -> Clients \cup {NoClient}]
      <4>1. closing \in [Coroutines -> Clients \cup {NoClient}]
        BY DEF TypeOK
      <4> QED
        BY <3>1, <4>1
    <3>3. hangups' \in 0..MaxHangups /\ broken' \subseteq Clients
      BY <3>1 DEF TypeOK
    <3> QED
      BY <3>1, <3>2, <3>3 DEF TypeOK
  <2>18. ASSUME NEW c \in Clients, NEW S \in SUBSET PVs, Subscribe(c, S) PROVE TypeOK'
    <3>1. gap' \subseteq Clients \X PVs
      BY <2>18, <2>g, GapsTyped DEF Subscribe
    <3>2. /\ subs' \in [Clients -> SUBSET PVs] /\ index' \in [PVs -> SUBSET Clients]
          /\ pc' \in [Clients -> {"new", "receive", "read", "initial", "all", "done"}]
          /\ asked' \in [Clients -> SUBSET PVs]
      BY <2>18 DEF Subscribe, TypeOK
    <3>3. UNCHANGED <<store, conns, tasks, read, closing, sent>>
      BY <2>18 DEF Subscribe
    <3> QED
      BY <3>1, <3>2, <3>3 DEF TypeOK
  <2>19. ASSUME NEW c \in Clients, NEW S \in SUBSET PVs, Unsubscribe(c, S) PROVE TypeOK'
    BY <2>19 DEF Unsubscribe, TypeOK, Values
  <2>20. CASE UNCHANGED vars
    BY <2>20 DEF vars, TypeOK, Values
  <2> QED
    BY <2>1, <2>2, <2>3, <2>4, <2>5, <2>6, <2>7, <2>8, <2>9, <2>10, <2>11, <2>12, <2>13,
       <2>14, <2>15, <2>16, <2>17, <2>18, <2>19, <2>20, <2>21, <2>22, <2>23
    DEF Next, Flush, Beat, Answer
<1> QED
  BY <1>1, <1>2, PTL DEF Spec

-----------------------------------------------------------------------------
(* A client id is used for one connection: nothing is known of it before. *)
NewIsUnknown == \A c \in Clients : pc[c] = "new" => c \notin conns
IndexInv == IndexConsistent /\ NewIsUnknown

(* The removal after a close takes a client out of both views at once. *)
LEMMA RemoveConsistent ==
  ASSUME LocalTyped, IndexConsistent, NEW c \in Clients, Remove(c)
  PROVE  IndexConsistent' /\ conns' \subseteq conns
BY DEF LocalTyped, IndexConsistent, Remove

LEMMA TaskDropsConsistent ==
  ASSUME LocalTyped, IndexConsistent, NEW k \in Tasks, NEW c \in Clients, TaskDrops(k, c)
  PROVE  IndexConsistent' /\ conns' \subseteq conns
BY RemoveConsistent DEF IndexConsistent, local, TaskDrops

(* Several coroutines may disconnect one client while its endpoint still
   answers it: the subscriptions and the index by PV agree all the same, and
   hold connected clients only. *)
THEOREM IndexStaysConsistent == Spec => []IndexConsistent
<1>1. Init => IndexInv
  BY DEF Init, IndexInv, IndexConsistent, NewIsUnknown
<1>2. TypeOK /\ IndexInv /\ [Next]_vars => IndexInv'
  <2> SUFFICES ASSUME TypeOK, IndexInv, [Next]_vars
               PROVE  IndexInv'
    OBVIOUS
  <2> USE DEF local, endpoints
  <2>0. LocalTyped /\ IndexConsistent /\ NewIsUnknown
    BY DEF TypeOK, LocalTyped, IndexInv
  <2>1. CASE UNCHANGED <<local, pc>>
    BY <2>1 DEF IndexInv, IndexConsistent, NewIsUnknown
  <2>2. ASSUME NEW c \in Clients, SendDiff(c) PROVE IndexInv'
    <3>1. IndexConsistent' /\ conns' \subseteq conns
      BY <2>0, <2>2, TaskDropsConsistent DEF SendDiff, Tasks, IndexConsistent
    <3> QED
      BY <2>0, <2>2, <3>1 DEF SendDiff, IndexInv, NewIsUnknown
  <2>3. ASSUME NEW c \in Clients, SendBeat(c) PROVE IndexInv'
    <3>1. IndexConsistent' /\ conns' \subseteq conns
      BY <2>0, <2>3, TaskDropsConsistent DEF SendBeat, Tasks, IndexConsistent
    <3> QED
      BY <2>0, <2>3, <3>1 DEF SendBeat, IndexInv, NewIsUnknown
  <2>4. ASSUME NEW k \in Coroutines, FinishClose(k) PROVE IndexInv'
    <3>1. IndexConsistent' /\ conns' \subseteq conns
      BY <2>0, <2>4, RemoveConsistent DEF FinishClose, IndexConsistent, LocalTyped
    <3>2. \A c \in Clients : pc'[c] = "new" => pc[c] = "new"
      BY <2>4 DEF FinishClose, Resume, TypeOK
    <3> QED
      BY <2>0, <3>1, <3>2 DEF IndexInv, NewIsUnknown
  <2>5. ASSUME NEW c \in Clients, Connect(c) PROVE IndexInv'
    BY <2>0, <2>5 DEF Connect, IndexInv, IndexConsistent, NewIsUnknown, TypeOK
  <2>6. ASSUME NEW c \in Clients, GetAll(c) \/ Answer(c) \/ ReadFails(c) PROVE IndexInv'
    <3>1. \A d \in Clients : pc'[d] = "new" => pc[d] = "new"
      BY <2>6 DEF GetAll, Answer, ReadInitial, ReadFails, SendAnswer, Leave, TypeOK
    <3>2. UNCHANGED local
      BY <2>6 DEF GetAll, Answer, ReadInitial, ReadFails, SendAnswer, Leave
    <3> QED
      BY <2>0, <3>1, <3>2 DEF IndexInv, IndexConsistent, NewIsUnknown
  <2>7. ASSUME NEW c \in Clients, NEW S \in SUBSET PVs, Subscribe(c, S) PROVE IndexInv'
    BY <2>0, <2>7 DEF Subscribe, IndexInv, IndexConsistent, NewIsUnknown, TypeOK
  <2>8. ASSUME NEW c \in Clients, NEW S \in SUBSET PVs, Unsubscribe(c, S) PROVE IndexInv'
    BY <2>0, <2>8 DEF Unsubscribe, IndexInv, IndexConsistent, NewIsUnknown, TypeOK
  <2> QED
    BY <2>1, <2>2, <2>3, <2>4, <2>5, <2>6, <2>7, <2>8 DEF Next, vars, Flush, Beat, WriteCache,
       WriteSilently, Publish, PublishFails, Listen, Outage, BufferUpdate, StartFlush, StartBeat, Hangup, BadMessage
<1>3. IndexInv => IndexConsistent
  BY DEF IndexInv
<1> QED
  BY <1>1, <1>2, <1>3, TypeCorrect, PTL DEF Spec

-----------------------------------------------------------------------------
(* Along the way of an update, from the cache over the wire, the buffer and
   the flush in progress to the client, nothing is older than what is
   further on. *)

(* Neither the cache nor a message on the wire is older than the value v. *)
Behind(v, pv) ==
  /\ v <= cache[pv]
  /\ \A i \in 1..Len(wire) : wire[i].pv = pv => v <= wire[i].val

WireInOrder ==
  \A i \in 1..Len(wire) :
    /\ wire[i].val <= cache[wire[i].pv]
    /\ \A j \in 1..i : wire[j].pv = wire[i].pv => wire[j].val <= wire[i].val
BufferInOrder == \A pv \in PVs : Behind(buffer[pv], pv)
OutInOrder ==
  \A c \in Clients, pv \in PVs :
    Behind(out[c][pv], pv) /\ (buffer[pv] # 0 => out[c][pv] <= buffer[pv])
DiffsBehind ==
  \A c \in Clients, pv \in PVs :
    /\ Behind(diffs[c][pv], pv)
    /\ buffer[pv] # 0 => diffs[c][pv] <= buffer[pv]
    /\ out[c][pv] # 0 => diffs[c][pv] <= out[c][pv]

WayInv == WireInOrder /\ BufferInOrder /\ OutInOrder /\ DiffsBehind

Message == [pv : PVs, val : Values]

(* What is behind the wire stays behind it: the wire only grows by what the
   cache holds, which only grows. *)
LEMMA BehindStays ==
  ASSUME TypeOK, WireInOrder, [Next]_vars
  PROVE  /\ WireInOrder'
         /\ \A pv \in PVs, v \in Values : Behind(v, pv) => Behind(v, pv)'
<1> USE DEF store
<1>0. wire \in Seq(Message) /\ cache \in [PVs -> Values]
  BY DEF TypeOK, Message
<1>m. \A m \in Message : m.pv \in PVs /\ m.val \in Values
  BY DEF Message
<1>1. ASSUME NEW pv \in PVs, WriteCache(pv) \/ WriteSilently(pv)
      PROVE  WireInOrder' /\ \A q \in PVs, v \in Values : Behind(v, q) => Behind(v, q)'
  <2>1. \A q \in PVs : cache[q] <= cache'[q] /\ cache[q] \in Int /\ cache'[q] \in Int
    BY <1>0, <1>1 DEF WriteCache, WriteSilently, Values
  <2>2. wire' = wire
    BY <1>1 DEF WriteCache, WriteSilently
  <2>3. \A i \in 1..Len(wire) : wire[i].pv \in PVs /\ wire[i].val \in Int
    BY <1>0, <1>m, ElementOfSeq DEF Values
  <2> QED
    BY <2>1, <2>2, <2>3 DEF WireInOrder, Behind, Values
<1>2. ASSUME NEW pv \in PVs, Publish(pv)
      PROVE  WireInOrder' /\ \A q \in PVs, v \in Values : Behind(v, q) => Behind(v, q)'
  <2>1. cache' = cache
    BY <1>2 DEF Publish
  <2>2. CASE wire' = wire
    BY <2>1, <2>2 DEF WireInOrder, Behind
  <2>3. CASE wire' = Append(wire, [pv |-> pv, val |-> cache[pv]])
    <3>1. [pv |-> pv, val |-> cache[pv]] \in Message
      BY <1>0 DEF Message
    <3>2. /\ Len(wire') = Len(wire) + 1 /\ Len(wire) \in Nat
          /\ \A i \in 1..Len(wire) : wire'[i] = wire[i]
          /\ wire'[Len(wire) + 1] = [pv |-> pv, val |-> cache[pv]]
      BY <1>0, <2>3, <3>1, AppendProperties, LenProperties
    <3>3. wire'[Len(wire) + 1].pv = pv /\ wire'[Len(wire) + 1].val = cache[pv]
      BY <3>2
    <3>4. cache[pv] \in Int
      BY <1>0 DEF Values
    <3>5. ASSUME NEW i \in 1..Len(wire')
          PROVE  /\ wire'[i].val <= cache[wire'[i].pv]
                 /\ \A j \in 1..i : wire'[j].pv = wire'[i].pv => wire'[j].val <= wire'[i].val
      <4>1. CASE i \in 1..Len(wire)
        <5>1. \A j \in 1..i : wire'[j] = wire[j]
          BY <3>2, <4>1
        <5> QED
          BY <4>1, <5>1 DEF WireInOrder
      <4>2. CASE i = Len(wire) + 1
        <5>1. \A j \in 1..Len(wire) : wire[j].pv = pv => wire[j].val <= cache[pv]
          BY DEF WireInOrder
        <5>2. \A j \in 1..i : j = i \/ j \in 1..Len(wire)
          BY <3>2, <4>2
        <5> QED
          BY <3>2, <3>3, <3>4, <4>2, <5>1, <5>2
      <4> QED
        BY <3>2, <4>1, <4>2
    <3>6. ASSUME NEW q \in PVs, NEW v \in Values, Behind(v, q)
          PROVE  Behind(v, q)'
      <4>1. \A i \in 1..Len(wire') : i \in 1..Len(wire) \/ i = Len(wire) + 1
        BY <3>2
      <4> QED
        BY <2>1, <3>2, <3>3, <3>6, <4>1 DEF Behind
    <3> QED
      BY <2>1, <3>5, <3>6 DEF WireInOrder
  <2> QED
    BY <1>2, <2>2, <2>3 DEF Publish
<1>3. CASE Outage
  <2>1. cache' = cache /\ Len(wire') = 0
    BY <1>3, EmptySeq DEF Outage
  <2> QED
    BY <2>1 DEF WireInOrder, Behind
<1>4. CASE BufferUpdate
  <2>1. cache' = cache
    BY <1>4 DEF BufferUpdate
  <2>2. /\ Len(wire) \in Nat /\ Len(wire') = Len(wire) - 1
        /\ \A i \in 1..Len(wire') : wire'[i] = wire[i + 1]
    BY <1>0, <1>4, HeadTailProperties, LenProperties DEF BufferUpdate
  <2>3. ASSUME NEW i \in 1..Len(wire')
        PROVE  /\ wire'[i].val <= cache[wire'[i].pv]
               /\ \A j \in 1..i : wire'[j].pv = wire'[i].pv => wire'[j].val <= wire'[i].val
    <3>1. i + 1 \in 1..Len(wire) /\ wire'[i] = wire[i + 1]
      BY <2>2
    <3>2. \A j \in 1..i : j + 1 \in 1..(i + 1) /\ wire'[j] = wire[j + 1]
      BY <2>2
    <3> QED
      BY <3>1, <3>2 DEF WireInOrder
  <2>4. ASSUME NEW q \in PVs, NEW v \in Values, Behind(v, q)
        PROVE  Behind(v, q)'
    <3>1. \A i \in 1..Len(wire') : i + 1 \in 1..Len(wire) /\ wire'[i] = wire[i + 1]
      BY <2>2
    <3> QED
      BY <2>1, <2>4, <3>1 DEF Behind
  <2> QED
    BY <2>1, <2>3, <2>4 DEF WireInOrder
<1>5. CASE UNCHANGED <<cache, wire>>
  BY <1>5 DEF WireInOrder, Behind
<1> QED
  BY <1>1, <1>2, <1>3, <1>4, <1>5 DEF Next, vars, Flush, Beat, Answer, Listen, StartFlush,
     SendDiff, StartBeat, SendBeat, FinishClose, Connect, GetAll, ReadInitial, ReadFails,
     SendAnswer, PublishFails, Leave, Hangup, BadMessage, Subscribe, Unsubscribe

(* One step of the way: a value that is passed on replaces an older one. *)
LEMMA WayStep == TypeOK /\ WayInv /\ [Next]_vars => WayInv'
<1> SUFFICES ASSUME TypeOK, WayInv, [Next]_vars
             PROVE  WayInv'
  OBVIOUS
<1> USE DEF tasks, sent, peers
<1>1. /\ buffer \in [PVs -> Values] /\ out \in [Clients -> [PVs -> Values]]
      /\ diffs \in [Clients -> [PVs -> Values]]
  BY DEF TypeOK
<1>2. WireInOrder' /\ \A pv \in PVs, v \in Values : Behind(v, pv) => Behind(v, pv)'
  BY BehindStays DEF WayInv
<1>3. \A pv \in PVs : Behind(0, pv)'
  <2>1. \A pv \in PVs : Behind(0, pv)
    <3>1. wire \in Seq(Message) /\ cache \in [PVs -> Values]
      BY DEF TypeOK, Message
    <3>2. \A i \in 1..Len(wire) : wire[i] \in Message
      BY <3>1, ElementOfSeq
    <3> QED
      BY <3>1, <3>2 DEF Behind, Message, Values
  <2> QED
    BY <1>2, <2>1 DEF Values
<1>b. \A pv \in PVs : Behind(buffer[pv], pv) /\ buffer[pv] \in Values
  BY <1>1 DEF WayInv, BufferInOrder
<1>o. \A c \in Clients, pv \in PVs : Behind(out[c][pv], pv) /\ out[c][pv] \in Values
  BY <1>1 DEF WayInv, OutInOrder
<1>d. \A c \in Clients, pv \in PVs : Behind(diffs[c][pv], pv) /\ diffs[c][pv] \in Values
  BY <1>1 DEF WayInv, DiffsBehind
<1>4. ASSUME UNCHANGED <<buffer, diffs>>,
             \A c \in Clients, pv \in PVs : out'[c][pv] \in {0, out[c][pv]}
      PROVE  WayInv'
  <2>1. BufferInOrder'
    BY <1>2, <1>4, <1>b DEF BufferInOrder, Behind
  <2>2. ASSUME NEW c \in Clients, NEW pv \in PVs
        PROVE  Behind(out[c][pv], pv)' /\ (buffer'[pv] # 0 => out'[c][pv] <= buffer'[pv])
    <3>1. CASE out'[c][pv] = 0
      BY <1>3, <1>4, <1>b, <3>1 DEF Behind, Values
    <3>2. CASE out'[c][pv] = out[c][pv]
      BY <1>2, <1>4, <1>o, <3>2 DEF Behind, WayInv, OutInOrder
    <3> QED
      BY <1>4, <3>1, <3>2
  <2>3. ASSUME NEW c \in Clients, NEW pv \in PVs
        PROVE  /\ Behind(diffs[c][pv], pv)'
               /\ buffer'[pv] # 0 => diffs'[c][pv] <= buffer'[pv]
               /\ out'[c][pv] # 0 => diffs'[c][pv] <= out'[c][pv]
    <3>1. Behind(diffs[c][pv], pv)'
      BY <1>2, <1>4, <1>d DEF Behind
    <3>2. out'[c][pv] = 0 \/ out'[c][pv] = out[c][pv]
      BY <1>4
    <3> QED
      BY <1>4, <3>1, <3>2 DEF WayInv, DiffsBehind
  <2> QED
    BY <1>2, <2>1, <2>2, <2>3 DEF WayInv, OutInOrder, DiffsBehind
<1>5. CASE BufferUpdate
  <2>1. wire \in Seq(Message) /\ wire # <<>> /\ cache \in [PVs -> Values]
    BY <1>5 DEF BufferUpdate, TypeOK, Message
  <2>2. Head(wire) = wire[1] /\ 1 \in 1..Len(wire) /\ Len(wire) \in Nat /\ wire[1] \in Message
    BY <2>1, ElementOfSeq, LenProperties, EmptySeq
  <2>3. /\ Len(wire') = Len(wire) - 1
        /\ \A i \in 1..Len(wire') : wire'[i] = wire[i + 1]
    BY <1>5, <2>1, HeadTailProperties DEF BufferUpdate
  <2> DEFINE m == wire[1]
  <2>4. UNCHANGED <<cache, out, diffs>>
    BY <1>5 DEF BufferUpdate
  <2>5. m.pv \in PVs /\ m.val \in Values
    BY <2>2 DEF Message
  <2>6. buffer' = buffer \/ buffer' = [buffer EXCEPT ![m.pv] = m.val]
    BY <1>5, <2>2 DEF BufferUpdate
  <2>7. ASSUME NEW pv \in PVs
        PROVE  buffer'[pv] = buffer[pv] \/ (m.pv = pv /\ buffer'[pv] = m.val)
    BY <1>1, <2>6
  <2>8. m.val <= cache'[m.pv] /\ \A i \in 1..Len(wire') : wire'[i].pv = m.pv => m.val <= wire'[i].val
    <3>1. \A i \in 1..Len(wire') : i + 1 \in 1..Len(wire) /\ 1 \in 1..(i + 1)
      BY <2>2, <2>3
    <3> QED
      BY <2>2, <2>3, <2>4, <3>1 DEF WayInv, WireInOrder
  <2>9. ASSUME NEW v \in Values, Behind(v, m.pv) PROVE v <= m.val
    BY <2>2, <2>9 DEF Behind
  <2>10. BufferInOrder'
    <3> SUFFICES ASSUME NEW pv \in PVs PROVE Behind(buffer[pv], pv)'
      BY DEF BufferInOrder
    <3>1. CASE buffer'[pv] = buffer[pv]
      BY <1>2, <1>b, <3>1 DEF Behind
    <3>2. CASE m.pv = pv /\ buffer'[pv] = m.val
      BY <2>8, <3>2 DEF Behind
    <3> QED
      BY <2>7, <3>1, <3>2
  <2>11. OutInOrder'
    <3> SUFFICES ASSUME NEW c \in Clients, NEW pv \in PVs
                 PROVE  Behind(out[c][pv], pv)' /\ (buffer'[pv] # 0 => out'[c][pv] <= buffer'[pv])
      BY DEF OutInOrder
    <3>1. Behind(out[c][pv], pv)'
      BY <1>2, <1>o, <2>4 DEF Behind
    <3>2. m.pv = pv => out[c][pv] <= m.val
      BY <1>o, <2>9
    <3>3. buffer[pv] # 0 => out[c][pv] <= buffer[pv]
      BY DEF WayInv, OutInOrder
    <3> QED
      BY <2>4, <2>7, <3>1, <3>2, <3>3
  <2>12. DiffsBehind'
    <3> SUFFICES ASSUME NEW c \in Clients, NEW pv \in PVs
                 PROVE  /\ Behind(diffs[c][pv], pv)'
                        /\ buffer'[pv] # 0 => diffs'[c][pv] <= buffer'[pv]
                        /\ out'[c][pv] # 0 => diffs'[c][pv] <= out'[c][pv]
      BY DEF DiffsBehind
    <3>1. Behind(diffs[c][pv], pv)'
      BY <1>2, <1>d, <2>4 DEF Behind
    <3>2. m.pv = pv => diffs[c][pv] <= m.val
      BY <1>d, <2>9
    <3>3. /\ buffer[pv] # 0 => diffs[c][pv] <= buffer[pv]
          /\ out[c][pv] # 0 => diffs[c][pv] <= out[c][pv]
      BY DEF WayInv, DiffsBehind
    <3> QED
      BY <2>4, <2>7, <3>1, <3>2, <3>3
  <2> QED
    BY <1>2, <2>10, <2>11, <2>12 DEF WayInv
<1>6. CASE StartFlush
  <2>1. \A c \in Clients, pv \in PVs : out[c][pv] = 0
    BY <1>6 DEF StartFlush, Flushing, Nothing
  <2>2. \A pv \in PVs : buffer'[pv] = 0
    BY <1>6 DEF StartFlush, Nothing
  <2>3. \A c \in Clients, pv \in PVs : out'[c][pv] = buffer[pv] \/ out'[c][pv] = 0
    BY <1>6 DEF StartFlush
  <2>4. UNCHANGED diffs
    BY <1>6 DEF StartFlush
  <2>5. BufferInOrder'
    BY <1>3, <2>2 DEF BufferInOrder, Behind
  <2>6. OutInOrder'
    BY <1>1, <1>2, <1>3, <2>2, <2>3 DEF WayInv, OutInOrder, BufferInOrder, Behind
  <2>7. DiffsBehind'
    BY SMTT(30), <1>1, <1>2, <2>2, <2>3, <2>4 DEF WayInv, DiffsBehind, Behind
  <2> QED
    BY <1>2, <2>5, <2>6, <2>7 DEF WayInv
<1>7. ASSUME NEW c \in Clients, SendDiff(c) PROVE WayInv'
  <2>1. UNCHANGED buffer /\ out' = [out EXCEPT ![c] = Nothing]
    BY <1>7 DEF SendDiff
  <2>2. \A d \in Clients, pv \in PVs : diffs'[d][pv] = diffs[d][pv]
                                     \/ (d = c /\ out[c][pv] # 0 /\ diffs'[d][pv] = out[c][pv])
    BY <1>1, <1>7 DEF SendDiff, SentDiff
  <2>3. \A d \in Clients, pv \in PVs : out'[d][pv] = IF d = c THEN 0 ELSE out[d][pv]
    BY <1>1, <2>1 DEF Nothing
  <2>4. BufferInOrder'
    BY <1>2, <1>b, <2>1 DEF BufferInOrder, Behind
  <2>5. ASSUME NEW d \in Clients, NEW pv \in PVs
        PROVE  Behind(out[d][pv], pv)' /\ (buffer'[pv] # 0 => out'[d][pv] <= buffer'[pv])
    <3>1. CASE d = c
      BY <1>3, <1>b, <2>1, <2>3, <3>1 DEF Behind, Values
    <3>2. CASE d # c
      BY <1>2, <1>o, <2>1, <2>3, <3>2 DEF Behind, WayInv, OutInOrder
    <3> QED
      BY <3>1, <3>2
  <2>6. ASSUME NEW d \in Clients, NEW pv \in PVs
        PROVE  /\ Behind(diffs[d][pv], pv)'
               /\ buffer'[pv] # 0 => diffs'[d][pv] <= buffer'[pv]
               /\ out'[d][pv] # 0 => diffs'[d][pv] <= out'[d][pv]
    <3>1. CASE diffs'[d][pv] = diffs[d][pv]
      <4>1. Behind(diffs[d][pv], pv)'
        BY <1>2, <1>d, <3>1 DEF Behind
      <4> QED
        BY <2>1, <2>3, <3>1, <4>1 DEF WayInv, DiffsBehind
    <3>2. CASE d = c /\ out[c][pv] # 0 /\ diffs'[d][pv] = out[c][pv]
      <4>1. Behind(diffs[d][pv], pv)'
        BY <1>2, <1>o, <3>2 DEF Behind
      <4> QED
        BY <2>1, <2>3, <3>2, <4>1 DEF WayInv, OutInOrder
    <3> QED
      BY <2>2, <3>1, <3>2
  <2> QED
    BY <1>2, <2>4, <2>5, <2>6 DEF WayInv, OutInOrder, DiffsBehind
<1>8. ASSUME NEW k \in Coroutines, FinishClose(k) PROVE WayInv'
  <2>1. UNCHANGED <<buffer, diffs>>
    BY <1>8 DEF FinishClose
  <2>2. \A c \in Clients, pv \in PVs : out'[c][pv] \in {0, out[c][pv]}
    BY <1>8 DEF FinishClose, Resume, Nothing
  <2> QED
    BY <1>4, <2>1, <2>2
<1>9. ASSUME UNCHANGED <<buffer, out, diffs>> PROVE WayInv'
  BY <1>4, <1>9
<1> QED
  BY <1>5, <1>6, <1>7, <1>8, <1>9 DEF Next, vars, Flush, Beat, Answer, WriteCache, WriteSilently,
     Publish, PublishFails, Listen, Outage, StartBeat, SendBeat, Connect, GetAll, ReadInitial,
     ReadFails, SendAnswer, Leave, Hangup, BadMessage, Subscribe, Unsubscribe

(* A client is sent the updates of a PV in their order: over several
   flushes, updates that replace one another in the buffer, lost messages
   and outages of the listener. *)
THEOREM DiffsComeInOrder == Spec => DiffsInOrder
<1>1. Init => WayInv
  <2>1. ASSUME Init PROVE Len(wire) = 0
    BY <2>1, EmptySeq DEF Init
  <2> QED
    BY <2>1 DEF Init, WayInv, WireInOrder, BufferInOrder, OutInOrder, DiffsBehind, Behind,
       Nothing
<1>2. TypeOK /\ WayInv /\ [Next]_vars =>
        [\A c \in Clients, pv \in PVs : diffs'[c][pv] >= diffs[c][pv]]_vars
  <2> SUFFICES ASSUME TypeOK, WayInv, [Next]_vars, NEW c \in Clients, NEW pv \in PVs
               PROVE  diffs'[c][pv] >= diffs[c][pv]
    OBVIOUS
  <2>1. diffs \in [Clients -> [PVs -> Values]] /\ out \in [Clients -> [PVs -> Values]]
    BY DEF TypeOK
  <2>2. CASE UNCHANGED diffs
    BY <2>1, <2>2 DEF Values
  <2>3. ASSUME NEW d \in Clients, SendDiff(d) PROVE diffs'[c][pv] >= diffs[c][pv]
    <3>1. diffs'[c][pv] = diffs[c][pv] \/ (out[c][pv] # 0 /\ diffs'[c][pv] = out[c][pv])
      BY <2>1, <2>3 DEF SendDiff, SentDiff
    <3> QED
      BY <2>1, <3>1 DEF WayInv, DiffsBehind, Values
  <2> QED
    BY <2>2, <2>3 DEF Next, vars, sent, peers, Flush, Beat, Answer, WriteCache,
       WriteSilently, Publish, PublishFails, Listen, Outage, BufferUpdate, StartFlush, StartBeat,
       SendBeat, FinishClose, Connect, GetAll, ReadInitial, ReadFails, SendAnswer, Leave, Hangup, BadMessage, Subscribe, Unsubscribe
<1> QED
  BY <1>1, <1>2, TypeCorrect, WayStep, PTL DEF Spec, DiffsInOrder

=============================================================================
