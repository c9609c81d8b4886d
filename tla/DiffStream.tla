------------------------------ MODULE DiffStream ------------------------------
(***************************************************************************)
(* The WebSocket diff stream of one API process (app/api/v1/websocket.py): *)
(* the pub/sub listener and its buffer, the flush task, the heartbeat      *)
(* task, and one endpoint coroutine per client.  All of them run on one    *)
(* event loop, so a step here is what runs between two awaits; every       *)
(* await on Redis, on a send and on a close is a point where the others    *)
(* run.  The process runs without the subscription registry, as main.py    *)
(* starts it (get_diff_manager() without multi_instance).                  *)
(***************************************************************************)
EXTENDS Integers, Sequences, FiniteSets

CONSTANTS Clients,     \* client ids: one per accepted connection
          PVs,
          MaxVal,      \* bound on the values a PV takes
          MaxWire,     \* bound on pub/sub messages in flight
          MaxOutages,  \* bound on failures of the pub/sub connection
          MaxFailures, \* bound on Redis commands of the process or the monitor that fail
          MaxHangups,  \* bound on connections ended by the client side
          SlowClose,   \* may close() of a dead connection suspend the task?
          NoClient

ASSUME ClientsAssumption == NoClient \notin Clients /\ Clients \cap {"flush", "beat"} = {}
ASSUME CloseAssumption == SlowClose \in BOOLEAN
ASSUME BoundsAssumption ==
  /\ MaxVal \in Nat \ {0} /\ MaxWire \in Nat /\ MaxOutages \in Nat /\ MaxFailures \in Nat
  /\ MaxHangups \in Nat

(* Values are numbered in the order the PV takes them; 0 stands for none. *)
Values == 0..MaxVal

(* Coroutines that may disconnect a client: the two tasks and, under the
   client's own id, its endpoint. *)
Tasks == {"flush", "beat"}
Coroutines == Tasks \cup Clients

VARIABLES
  cache,       \* cache[pv]: value in the Redis hash
  toPublish,   \* PVs written by the monitor and not yet published
  wire,        \* pub/sub messages on their way to the listener
  listening,   \* is the listener subscribed to the channel
  conns,       \* _connections
  subs,        \* _subscriptions
  index,       \* _pv_to_clients
  buffer,      \* _update_buffer
  out,         \* out[c][pv]: what the flush in progress still has to send
  beats,       \* the clients the heartbeat in progress still has to reach
  pc,          \* pc[c]: where the endpoint coroutine of c is
  asked,       \* asked[c]: PVs of the subscribe or get_all being answered
  read,        \* read[c][pv]: cached values it read
  closing,     \* closing[k]: the client that coroutine k awaits the close of
  broken,      \* connections that can send nothing any more
  newest,      \* newest[c][pv]: the newest value that client c was ever sent
  diffs,       \* diffs[c][pv]: the last value sent to it in a diff
  gap,         \* history: <<c, pv>> if c lacks an update of pv that nothing will bring
  outages, failures, hangups

store == <<cache, toPublish, wire, listening, outages, failures>>
local == <<conns, subs, index>>
tasks == <<buffer, out, beats>>
endpoints == <<pc, asked, read>>
sent == <<broken, newest, diffs, hangups>>
peers == <<sent, gap>>
vars == <<store, local, tasks, endpoints, closing, peers>>

Nothing == [pv \in PVs |-> 0]

TypeOK ==
  /\ cache \in [PVs -> Values]
  /\ toPublish \subseteq PVs
  /\ wire \in Seq([pv : PVs, val : Values])
  /\ listening \in BOOLEAN
  /\ conns \subseteq Clients
  /\ subs \in [Clients -> SUBSET PVs]
  /\ index \in [PVs -> SUBSET Clients]
  /\ buffer \in [PVs -> Values]
  /\ out \in [Clients -> [PVs -> Values]]
  /\ beats \subseteq Clients
  /\ pc \in [Clients -> {"new", "receive", "read", "initial", "all", "done"}]
  /\ asked \in [Clients -> SUBSET PVs]
  /\ read \in [Clients -> [PVs -> Values]]
  /\ closing \in [Coroutines -> Clients \cup {NoClient}]
  /\ broken \subseteq Clients
  /\ newest \in [Clients -> [PVs -> Values]]
  /\ diffs \in [Clients -> [PVs -> Values]]
  /\ gap \subseteq Clients \X PVs
  /\ outages \in 0..MaxOutages
  /\ failures \in 0..MaxFailures
  /\ hangups \in 0..MaxHangups

Init ==
  /\ cache = [pv \in PVs |-> 1]
  /\ toPublish = {} /\ wire = <<>> /\ listening = TRUE
  /\ conns = {}
  /\ subs = [c \in Clients |-> {}]
  /\ index = [pv \in PVs |-> {}]
  /\ buffer = Nothing
  /\ out = [c \in Clients |-> Nothing]
  /\ beats = {}
  /\ pc = [c \in Clients |-> "new"]
  /\ asked = [c \in Clients |-> {}]
  /\ read = [c \in Clients |-> Nothing]
  /\ closing = [k \in Coroutines |-> NoClient]
  /\ broken = {}
  /\ newest = [c \in Clients |-> Nothing]
  /\ diffs = [c \in Clients |-> Nothing]
  /\ gap = {}
  /\ outages = 0 /\ failures = 0 /\ hangups = 0

(* A command to Redis raises. *)
Failure == failures < MaxFailures /\ failures' = failures + 1

(* What all clients would lack: updates of the PVs in S that are lost. *)
Everyone(S) == Clients \X S

-----------------------------------------------------------------------------
(* The monitor's side: it writes the cache, then publishes what it reads.
   A write between that read and the PUBLISH counts as one after both. *)

WriteCache(pv) ==
  /\ cache[pv] < MaxVal
  /\ cache' = [cache EXCEPT ![pv] = @ + 1]
  /\ toPublish' = toPublish \cup {pv}
  /\ UNCHANGED <<wire, listening, outages, failures, local, tasks, endpoints, closing, peers>>

(* set_pv_value of a watchdog: nobody publishes what it writes. *)
WriteSilently(pv) ==
  /\ cache[pv] < MaxVal
  /\ cache' = [cache EXCEPT ![pv] = @ + 1]
  /\ gap' = gap \cup Everyone({pv})
  /\ UNCHANGED <<toPublish, wire, listening, outages, failures, local, tasks, endpoints, closing, sent>>

(* A message reaches the listener only if it is subscribed by then. *)
Publish(pv) ==
  /\ pv \in toPublish
  /\ Len(wire) < MaxWire
  /\ toPublish' = toPublish \ {pv}
  /\ IF listening
     THEN /\ wire' = Append(wire, [pv |-> pv, val |-> cache[pv]])
          /\ gap' = gap \ Everyone({pv})
     ELSE /\ gap' = gap \cup Everyone({pv})
          /\ UNCHANGED wire
  /\ UNCHANGED <<cache, listening, outages, failures, local, tasks, endpoints, closing, sent>>

(* The batch was written, reading it back or publishing it fails: the error
   is logged, and nothing publishes what is in the cache by then. *)
PublishFails(pv) ==
  /\ pv \in toPublish
  /\ Failure
  /\ toPublish' = toPublish \ {pv}
  /\ gap' = gap \cup Everyone({pv})
  /\ UNCHANGED <<cache, wire, listening, outages, local, tasks, endpoints, closing, sent>>

-----------------------------------------------------------------------------
(* _pubsub_listener and _buffer_update *)

Listen ==
  /\ ~listening
  /\ listening' = TRUE
  /\ UNCHANGED <<cache, toPublish, wire, outages, failures, local, tasks, endpoints, closing, peers>>

(* The connection fails: what was on it is lost, and so is what is
   published during the 5 s until the listener subscribes again.  The time
   before its first subscription is an outage at the start. *)
Outage ==
  /\ listening /\ outages < MaxOutages
  /\ outages' = outages + 1
  /\ listening' = FALSE
  /\ wire' = <<>>
  /\ gap' = gap \cup Everyone({wire[i].pv : i \in DOMAIN wire})
  /\ UNCHANGED <<cache, toPublish, failures, local, tasks, endpoints, closing, sent>>

(* As a mutant: an update does not replace one that is still buffered. *)
BufferKeepFirst ==
  /\ wire # <<>>
  /\ LET m == Head(wire) IN
       buffer' = IF index[m.pv] # {} /\ buffer[m.pv] = 0
                 THEN [buffer EXCEPT ![m.pv] = m.val] ELSE buffer
  /\ wire' = Tail(wire)
  /\ UNCHANGED <<cache, toPublish, listening, outages, failures, local, out, beats, endpoints, closing, peers>>

(* As a mutant: updates add up instead of replacing each other. *)
BufferSum ==
  /\ wire # <<>>
  /\ LET m == Head(wire) IN
       buffer' = IF index[m.pv] # {} THEN [buffer EXCEPT ![m.pv] = @ + m.val] ELSE buffer
  /\ wire' = Tail(wire)
  /\ UNCHANGED <<cache, toPublish, listening, outages, failures, local, out, beats, endpoints, closing, peers>>

(* The latest update of a PV that somebody subscribes to is kept. *)
BufferUpdate ==
  /\ wire # <<>>
  /\ LET m == Head(wire) IN
       buffer' = IF index[m.pv] # {} THEN [buffer EXCEPT ![m.pv] = m.val] ELSE buffer
  /\ wire' = Tail(wire)
  /\ UNCHANGED <<cache, toPublish, listening, outages, failures, local, out, beats, endpoints, closing, peers>>

-----------------------------------------------------------------------------
(* disconnect: an await on close() between the check of _connections and
   the removal of the entry.  The close of a healthy socket (BadMessage)
   waits for its peer.  The close of a dead one raises at once with the
   libraries that uv.lock pins; SlowClose does not rely on it. *)

(* As a mutant: the entry of the connection stays. *)
RemoveSubscriptionsOnly(c) ==
  /\ conns' = conns
  /\ subs' = [subs EXCEPT ![c] = {}]
  /\ index' = [pv \in PVs |-> IF pv \in subs[c] THEN index[pv] \ {c} ELSE index[pv]]

(* What follows the close, in the coroutine k: the entry is deleted and the
   subscriptions are cleaned up, unless another coroutine was faster: then
   the del raises KeyError. *)
Remove(c) ==
  /\ conns' = conns \ {c}
  /\ subs' = [subs EXCEPT ![c] = {}]
  /\ index' = [pv \in PVs |-> IF pv \in subs[c] THEN index[pv] \ {c} ELSE index[pv]]

(* The task k, whose send to c failed, disconnects c. *)
TaskDrops(k, c) ==
  \/ /\ SlowClose
     /\ closing' = [closing EXCEPT ![k] = c]
     /\ UNCHANGED local
  \/ /\ ~SlowClose
     /\ Remove(c)
     /\ UNCHANGED closing

(* Where coroutine k goes on: a task with the next client of its loop, or
   with nothing if the KeyError ended the loop; an endpoint that was leaving
   is done, one that was answering receives again. *)
Resume(k, keyError) ==
  /\ closing' = [closing EXCEPT ![k] = NoClient]
  /\ out' = IF k = "flush" /\ keyError THEN [c \in Clients |-> Nothing] ELSE out
  /\ gap' = IF k = "flush" /\ keyError
            THEN gap \cup {m \in Clients \X PVs : out[m[1]][m[2]] # 0} ELSE gap
  /\ beats' = IF k = "beat" /\ keyError THEN {} ELSE beats
  /\ IF k \in Clients
     THEN /\ pc' = [pc EXCEPT ![k] = IF @ = "initial" THEN "receive" ELSE "done"]
          /\ asked' = [asked EXCEPT ![k] = {}]
          /\ read' = [read EXCEPT ![k] = Nothing]
     ELSE UNCHANGED endpoints

FinishClose(k) ==
  /\ closing[k] # NoClient
  /\ \/ /\ closing[k] \in conns
        /\ Remove(closing[k])
        /\ Resume(k, FALSE)
     \/ /\ closing[k] \notin conns
        /\ Resume(k, TRUE)
        /\ UNCHANGED local
  /\ UNCHANGED <<store, buffer, sent>>

-----------------------------------------------------------------------------
(* _flush_loop *)

Flushing == \E c \in Clients : out[c] # Nothing

(* The timer fires: the buffer is taken and grouped by subscriber. *)
StartFlush ==
  /\ ~Flushing /\ closing["flush"] = NoClient
  /\ buffer # Nothing
  /\ buffer' = Nothing
  /\ out' = [c \in Clients |-> [pv \in PVs |-> IF c \in index[pv] THEN buffer[pv] ELSE 0]]
  /\ UNCHANGED <<store, local, beats, endpoints, closing, peers>>

(* History: what client c has been sent, as diffs and in all. *)
SentDiff(c, values) ==
  diffs' = [diffs EXCEPT ![c] = [pv \in PVs |-> IF values[pv] # 0 THEN values[pv] ELSE @[pv]]]
SentAny(c, values) ==
  newest' = [newest EXCEPT ![c] = [pv \in PVs |-> IF values[pv] > @[pv] THEN values[pv] ELSE @[pv]]]

(* One send of the flush; it skips a client that has left, and a failed
   send disconnects the client. *)
SendDiff(c) ==
  /\ out[c] # Nothing /\ closing["flush"] = NoClient
  /\ out' = [out EXCEPT ![c] = Nothing]
  /\ IF c \in conns \cap broken THEN TaskDrops("flush", c) ELSE UNCHANGED <<local, closing>>
  /\ IF c \in conns \ broken
     THEN SentAny(c, out[c]) /\ SentDiff(c, out[c])
     ELSE UNCHANGED <<newest, diffs>>
  /\ UNCHANGED <<store, buffer, beats, endpoints, broken, hangups, gap>>

(* _heartbeat_loop: a message to every client connected when it starts.  If
   reading the monitor's heartbeat fails, the beat is left out: a step that
   changes nothing. *)
StartBeat ==
  /\ beats = {} /\ closing["beat"] = NoClient
  /\ conns # {}
  /\ beats' = conns
  /\ UNCHANGED <<store, local, buffer, out, endpoints, closing, peers>>

SendBeat(c) ==
  /\ c \in beats /\ closing["beat"] = NoClient
  /\ beats' = beats \ {c}
  /\ IF c \in conns \cap broken THEN TaskDrops("beat", c) ELSE UNCHANGED <<local, closing>>
  /\ UNCHANGED <<store, buffer, out, endpoints, peers>>

-----------------------------------------------------------------------------
(* The endpoint of client c *)

Connect(c) ==
  /\ pc[c] = "new"
  /\ pc' = [pc EXCEPT ![c] = "receive"]
  /\ conns' = conns \cup {c}
  /\ subs' = [subs EXCEPT ![c] = {}]
  /\ UNCHANGED <<store, index, tasks, asked, read, closing, peers>>

(* subscribe: bookkeeping at once, then the initial values are read. *)
Subscribe(c, S) ==
  /\ pc[c] = "receive" /\ c \in conns \ broken /\ closing[c] = NoClient
  /\ subs' = [subs EXCEPT ![c] = @ \cup S]
  /\ index' = [pv \in PVs |-> IF pv \in S THEN index[pv] \cup {c} ELSE index[pv]]
  /\ asked' = [asked EXCEPT ![c] = S]
  /\ pc' = [pc EXCEPT ![c] = "read"]
  /\ gap' = gap \cup ({c} \X (S \ subs[c]))
  /\ UNCHANGED <<store, conns, tasks, read, closing, sent>>

(* get_all; if the read fails the client is sent an error message instead,
   a step that changes nothing. *)
GetAll(c) ==
  /\ pc[c] = "receive" /\ c \in conns \ broken /\ closing[c] = NoClient
  /\ read' = [read EXCEPT ![c] = cache]
  /\ pc' = [pc EXCEPT ![c] = "all"]
  /\ gap' = gap \ ({c} \X PVs)
  /\ UNCHANGED <<store, local, tasks, asked, closing, sent>>

(* As a mutant: unsubscribing forgets the index. *)
UnsubscribeSubsOnly(c, S) ==
  /\ pc[c] = "receive" /\ c \in conns \ broken /\ closing[c] = NoClient
  /\ subs' = [subs EXCEPT ![c] = @ \ S]
  /\ UNCHANGED <<store, conns, index, tasks, endpoints, closing, peers>>

Unsubscribe(c, S) ==
  /\ pc[c] = "receive" /\ c \in conns \ broken /\ closing[c] = NoClient
  /\ subs' = [subs EXCEPT ![c] = @ \ S]
  /\ index' = [pv \in PVs |-> IF pv \in S THEN index[pv] \ {c} ELSE index[pv]]
  /\ UNCHANGED <<store, conns, tasks, endpoints, closing, peers>>

ReadInitial(c) ==
  /\ pc[c] = "read"
  /\ read' = [read EXCEPT ![c] = [pv \in PVs |-> IF pv \in asked[c] THEN cache[pv] ELSE 0]]
  /\ pc' = [pc EXCEPT ![c] = "initial"]
  /\ gap' = gap \ ({c} \X asked[c])
  /\ UNCHANGED <<store, local, tasks, asked, closing, sent>>

(* The error is logged: the client stays subscribed, without initial values. *)
ReadFails(c) ==
  /\ pc[c] = "read"
  /\ Failure
  /\ pc' = [pc EXCEPT ![c] = "receive"]
  /\ asked' = [asked EXCEPT ![c] = {}]
  /\ UNCHANGED <<cache, toPublish, wire, listening, outages, local, tasks, read, closing, peers>>

(* As a mutant: the initial values go out through the update buffer. *)
SendThroughBuffer(c) ==
  /\ pc[c] = "initial" /\ closing[c] = NoClient
  /\ buffer' = [pv \in PVs |-> IF read[c][pv] # 0 THEN read[c][pv] ELSE buffer[pv]]
  /\ pc' = [pc EXCEPT ![c] = "receive"]
  /\ asked' = [asked EXCEPT ![c] = {}]
  /\ read' = [read EXCEPT ![c] = Nothing]
  /\ UNCHANGED <<store, local, out, beats, closing, peers>>

(* The answer is sent.  A failing "initial" is disconnected inside
   _send_to_client; a failing "all_values" by the endpoint, which leaves. *)
SendAnswer(c) ==
  /\ pc[c] \in {"initial", "all"} /\ closing[c] = NoClient
  /\ \/ /\ c \in conns \ broken
        /\ SentAny(c, read[c])
        /\ pc' = [pc EXCEPT ![c] = "receive"]
        /\ asked' = [asked EXCEPT ![c] = {}]
        /\ read' = [read EXCEPT ![c] = Nothing]
        /\ UNCHANGED closing
     \/ /\ c \in conns \cap broken
        /\ closing' = [closing EXCEPT ![c] = c]
        /\ UNCHANGED <<newest, endpoints>>
     \/ /\ c \notin conns
        /\ pc' = [pc EXCEPT ![c] = IF @ = "initial" THEN "receive" ELSE "done"]
        /\ asked' = [asked EXCEPT ![c] = {}]
        /\ read' = [read EXCEPT ![c] = Nothing]
        /\ UNCHANGED <<newest, closing>>
  /\ UNCHANGED <<store, local, tasks, broken, diffs, hangups, gap>>

(* receive_json raises: the client hung up or a task closed the socket. *)
Leave(c) ==
  /\ pc[c] = "receive" /\ closing[c] = NoClient
  /\ \/ /\ c \in conns \cap broken
        /\ closing' = [closing EXCEPT ![c] = c]
        /\ UNCHANGED pc
     \/ /\ c \notin conns
        /\ pc' = [pc EXCEPT ![c] = "done"]
        /\ UNCHANGED closing
  /\ UNCHANGED <<store, local, tasks, asked, read, peers>>

(* receive_json raises on a message it cannot decode: the endpoint closes a
   connection that is healthy, and meanwhile nothing can be sent on it. *)
BadMessage(c) ==
  /\ pc[c] = "receive" /\ c \in conns \ broken /\ closing[c] = NoClient
  /\ hangups < MaxHangups
  /\ hangups' = hangups + 1
  /\ broken' = broken \cup {c}
  /\ closing' = [closing EXCEPT ![c] = c]
  /\ UNCHANGED <<store, local, tasks, endpoints, newest, diffs, gap>>

Hangup(c) ==
  /\ c \in conns \ broken
  /\ hangups < MaxHangups
  /\ hangups' = hangups + 1
  /\ broken' = broken \cup {c}
  /\ UNCHANGED <<store, local, tasks, endpoints, closing, newest, diffs, gap>>

-----------------------------------------------------------------------------
Flush == StartFlush \/ \E c \in Clients : SendDiff(c)
Beat == StartBeat \/ \E c \in Clients : SendBeat(c)
Answer(c) == ReadInitial(c) \/ SendAnswer(c) \/ Leave(c)

Next ==
  \/ \E pv \in PVs : WriteCache(pv) \/ WriteSilently(pv) \/ Publish(pv) \/ PublishFails(pv)
  \/ Listen \/ Outage \/ BufferUpdate
  \/ Flush \/ Beat
  \/ \E k \in Coroutines : FinishClose(k)
  \/ \E c \in Clients : Connect(c) \/ GetAll(c) \/ Answer(c) \/ ReadFails(c)
  \/ \E c \in Clients : Hangup(c) \/ BadMessage(c)
  \/ \E c \in Clients, S \in SUBSET PVs \ {{}} : Subscribe(c, S) \/ Unsubscribe(c, S)

Spec == Init /\ [][Next]_vars

(* The event loop runs what is ready, the timer fires, Redis and the
   sockets answer; clients do what they like. *)
FairSpec ==
  /\ Spec
  /\ WF_vars(Listen) /\ WF_vars(BufferUpdate) /\ WF_vars(Flush) /\ WF_vars(Beat)
  /\ \A pv \in PVs : WF_vars(Publish(pv))
  /\ \A k \in Coroutines : WF_vars(FinishClose(k))
  /\ \A c \in Clients : WF_vars(Answer(c))

-----------------------------------------------------------------------------
(* Properties *)

(* The two views of the subscriptions agree, and nobody who is not connected
   is in either: no interleaving of subscribe, unsubscribe and several
   disconnects of one client leaves a client behind that updates are
   buffered and grouped for. *)
IndexConsistent ==
  /\ \A c \in Clients, pv \in PVs : pv \in subs[c] <=> c \in index[pv]
  /\ \A c \in Clients : subs[c] # {} => c \in conns

(* Diffs reach a client in the order of the updates, over several flushes,
   lost messages and outages of the listener. *)
DiffsInOrder == [][\A c \in Clients, pv \in PVs : diffs'[c][pv] >= diffs[c][pv]]_vars

(* "Initial subscription sends all current values / Subsequent messages
   only include changed PVs" (docs/api-reference/websocket.md:301): what a
   client is sent never takes it back to an older value. *)
InOrder(c, values) == \A pv \in PVs : values[pv] # 0 => values[pv] >= newest[c][pv]
ViewInOrder ==
  [][\A c \in Clients :
       /\ SendDiff(c) /\ c \in conns \ broken => InOrder(c, out[c])
       /\ SendAnswer(c) /\ c \in conns \ broken => InOrder(c, read[c])]_vars

(* A client that stays connected and subscribed ends up having been sent the
   current value of the PV in some message: updates that replace each other
   in the buffer, flushes, resubscriptions and outages lose none.  What it
   can lack is in gap, and stays there only until the next publication that
   the listener hears or the next read for the client: an update that was
   never published (the watchdog's, or a failed publication), or published
   into an outage, or left in a flush that a KeyError ended; and the initial
   value, if its read failed. *)
Informed(c, pv) == newest[c][pv] = cache[pv]
UpdatesReachClients ==
  <>[](\A c \in Clients, pv \in PVs :
         pv \in subs[c] /\ c \in conns \ broken /\ <<c, pv>> \notin gap => Informed(c, pv))

(* A client that is gone is eventually forgotten, together with its
   subscriptions, whichever coroutine notices. *)
BrokenIsForgotten == <>[](conns \cap broken = {})

=============================================================================
