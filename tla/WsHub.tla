-------------------------------- MODULE WsHub --------------------------------
(***************************************************************************)
(* The WebSocket layer (internal/ws): the hub into which the actors        *)
(* publish and the clients it fans out to.                                 *)
(*                                                                         *)
(* An Update is the snapshot an actor takes of its position; one update of *)
(* an instrument differs from another by when it was published, so it is   *)
(* modelled by its number, and 0 stands for an absent one.  Each critical  *)
(* section of the code is one action, except that of flush on bufMu, whose *)
(* extent is the point of the design.                                      *)
(***************************************************************************)
EXTENDS Integers, FiniteSets

CONSTANTS
    Client,         \* connections
    Token,          \* instruments, each with an actor that publishes
    NoClient,
    Unruly,         \* connections whose peer does more than read: it changes
                    \* its subscriptions, stops reading, hangs up
    MaxUpdates      \* bound on the updates of each instrument

ASSUME WsAssumption ==
    /\ NoClient \notin Client /\ Unruly \subseteq Client
    /\ MaxUpdates \in [Token -> Nat]

VARIABLES
    published,  \* the last update each instrument's actor has begun to publish
    fanout,     \* clients that call of Publish has still to visit
    passed,     \* the client whose filter the update has just passed
    clients,    \* Hub.clients
    run,        \* where Run is
    subs,       \* Client.subs
    buf,        \* Client.buf
    pending,    \* what flush has taken from the buffer and not yet written
    sent,       \* the last update of each instrument written to the socket
    peer,       \* what the other end of the connection does
    late,       \* clients whose peer has kept their batch waiting
    done,       \* clients whose readLoop has closed done
    cutoff      \* the last update published when the client ceased to want it

hub   == <<published, fanout, passed, clients>>
wire  == <<buf, pending, sent>>
vars  == <<hub, run, subs, wire, peer, late, done, cutoff>>

None == [t \in Token |-> 0]

(* The hub fans out to the connections whose Run has registered and not    *)
(* yet unregistered; the rest is types.                                    *)
HubTypeOK ==
    /\ published \in [Token -> Nat]
    /\ fanout \in [Token -> SUBSET Client]
    /\ passed \in [Token -> Client \cup {NoClient}]
    /\ clients = {c \in Client : run[c] \notin {"new", "ended"}}
    /\ late \subseteq Client /\ done \subseteq Client
    /\ run \in [Client -> {"new", "select", "taking", "writing", "closing", "ended"}]
    /\ subs \in [Client -> SUBSET Token]
    /\ buf \in [Client -> [Token -> Nat]]
    /\ pending \in [Client -> [Token -> Nat]]
    /\ sent \in [Client -> [Token -> Nat]]
    /\ peer \in [Client -> {"reading", "stalled", "gone"}]
    /\ cutoff \in [Client -> [Token -> Nat]]

Init ==
    /\ published = None
    /\ fanout = [t \in Token |-> {}] /\ passed = [t \in Token |-> NoClient]
    /\ clients = {} /\ late = {} /\ done = {}
    /\ run = [c \in Client |-> "new"] /\ subs = [c \in Client |-> {}]
    /\ buf = [c \in Client |-> None] /\ pending = [c \in Client |-> None]
    /\ sent = [c \in Client |-> None]
    /\ peer = [c \in Client |-> "reading"]
    /\ cutoff = [c \in Client |-> None]

GoTo(c, place) == run' = [run EXCEPT ![c] = place]

-----------------------------------------------------------------------------
(* Publish, called by the actor of t, holds the read lock from its first   *)
(* visit to its last.                                                      *)

Publishing(t) == fanout[t] # {} \/ passed[t] # NoClient
WriteLockFree == \A t \in Token : ~Publishing(t)

Publish(t) ==
    /\ ~Publishing(t) /\ published[t] < MaxUpdates[t]
    /\ published' = [published EXCEPT ![t] = @ + 1]
    /\ fanout' = [fanout EXCEPT ![t] = clients]
    /\ UNCHANGED <<passed, clients, run, subs, wire, peer, late, done, cutoff>>

(* No subscriptions means no filter.                                       *)
Wants(c, t) == subs[c] = {} \/ t \in subs[c]

(* Slip: any subscription will do.                                         *)
PassesAnyhow(c, t) == subs[c] = {} \/ subs[c] \cap Token # {}

Passes(c, t) == Wants(c, t)

(* receive reads the filter under subMu ...                                *)
Filter(t, c) ==
    /\ passed[t] = NoClient /\ c \in fanout[t]
    /\ fanout' = [fanout EXCEPT ![t] = @ \ {c}]
    /\ passed' = [passed EXCEPT ![t] = IF Passes(c, t) THEN c ELSE NoClient]
    /\ UNCHANGED <<published, clients, run, subs, wire, peer, late, done, cutoff>>

(* Slip: flush unlocks when it returns.                                    *)
HoldsBufMuToTheEnd(c) == run[c] \in {"taking", "writing"}

HoldsBufMu(c) == run[c] = "taking"

(* Slip: the update already there is kept.                                 *)
KeepOldest(c, t) ==
    buf' = [buf EXCEPT ![c][t] = IF @ = 0 THEN published[t] ELSE @]

Overwrite(c, t) == buf' = [buf EXCEPT ![c][t] = published[t]]

(* ... and writes the buffer under bufMu.                                  *)
Buffer(t, c) ==
    /\ passed[t] = c /\ ~HoldsBufMu(c)
    /\ Overwrite(c, t)
    /\ passed' = [passed EXCEPT ![t] = NoClient]
    /\ UNCHANGED <<published, fanout, clients, run, subs, pending, sent, peer, late, done, cutoff>>

-----------------------------------------------------------------------------
(* Run: registration, the flush ticker, the end.                           *)

Register(c) ==
    /\ run[c] = "new" /\ WriteLockFree
    /\ clients' = clients \cup {c}
    /\ GoTo(c, "select")
    /\ UNCHANGED <<published, fanout, passed, subs, wire, peer, late, done, cutoff>>

(* Slip: the map is copied but not replaced.                               *)
Undrained(c) == buf

Drained(c) == [buf EXCEPT ![c] = None]

(* An empty buffer is not flushed.                                         *)
FlushTakes(c) ==
    /\ run[c] = "select" /\ buf[c] # None
    /\ pending' = [pending EXCEPT ![c] = buf[c]]
    /\ buf' = Drained(c)
    /\ GoTo(c, "taking")
    /\ UNCHANGED <<hub, subs, sent, peer, late, done, cutoff>>

(* The deadline is set for the whole batch.                                *)
FlushUnlocks(c) ==
    /\ run[c] = "taking"
    /\ GoTo(c, "writing")
    /\ late' = IF peer[c] = "stalled" THEN late \cup {c} ELSE late \ {c}
    /\ UNCHANGED <<hub, subs, wire, peer, done, cutoff>>

(* WriteJSON for one of the updates taken, in the arbitrary order of a map.*)
FlushWrites(c, t) ==
    /\ run[c] = "writing" /\ pending[c][t] # 0
    /\ peer[c] = "reading"
    /\ sent' = [sent EXCEPT ![c][t] = pending[c][t]]
    /\ pending' = [pending EXCEPT ![c][t] = 0]
    /\ IF pending'[c] = None THEN GoTo(c, "select") ELSE UNCHANGED run
    /\ UNCHANGED <<hub, subs, buf, peer, late, done, cutoff>>

(* Slip: the deadline is that of the connection's first batch.             *)
DeadlinePassed(c) == TRUE

(* What the peer has kept waiting may come too late for the deadline, even *)
(* if the peer reads again.                                                *)
DeadlineMayPass(c) == c \in late

FlushTimesOut(c) ==
    /\ run[c] = "writing" /\ DeadlineMayPass(c)
    /\ GoTo(c, "closing")
    /\ UNCHANGED <<hub, subs, wire, peer, late, done, cutoff>>

FlushBreaks(c) ==
    /\ run[c] = "writing" /\ peer[c] = "gone"
    /\ GoTo(c, "closing")
    /\ UNCHANGED <<hub, subs, wire, peer, late, done, cutoff>>

(* Slip: Run only listens to its ticker.                                   *)
NeverSeen == {}

SeenDone == done

SeesDone(c) ==
    /\ run[c] = "select" /\ c \in SeenDone
    /\ GoTo(c, "closing")
    /\ UNCHANGED <<hub, subs, wire, peer, late, done, cutoff>>

(* Slip: the deferred call is missing.                                     *)
Staying(c) == clients

Without(c) == clients \ {c}

(* The deferred Close has run, so that readLoop ends too; unregister waits *)
(* for the write lock.  What the client object held is then garbage.       *)
Unregister(c) ==
    /\ run[c] = "closing" /\ WriteLockFree
    /\ clients' = Without(c)
    /\ GoTo(c, "ended")
    /\ subs' = [subs EXCEPT ![c] = {}] /\ cutoff' = [cutoff EXCEPT ![c] = None]
    /\ buf' = Drained(c) /\ pending' = [pending EXCEPT ![c] = None]
    /\ sent' = [sent EXCEPT ![c] = None]
    /\ peer' = [peer EXCEPT ![c] = "gone"] /\ done' = done \cup {c}
    /\ late' = late \ {c}
    /\ UNCHANGED <<published, fanout, passed>>

-----------------------------------------------------------------------------
(* readLoop, on a goroutine of its own.                                    *)

Reads(c) == run[c] \in {"select", "taking", "writing"} /\ c \notin done

SetSubs(c, s) ==
    /\ c \in Unruly /\ Reads(c) /\ peer[c] # "gone"
    /\ subs' = [subs EXCEPT ![c] = s]
    /\ cutoff' = [cutoff EXCEPT ![c] = [t \in Token |->
                    IF Wants(c, t) THEN published[t] ELSE @[t]]]
    /\ UNCHANGED <<hub, run, wire, peer, late, done>>

Subscribe(c, tokens)   == SetSubs(c, subs[c] \cup tokens)
Unsubscribe(c, tokens) == SetSubs(c, subs[c] \ tokens)

(* The peer hung up.                                                       *)
ReadFails(c) ==
    /\ Reads(c) /\ peer[c] = "gone"
    /\ done' = done \cup {c}
    /\ UNCHANGED <<hub, run, subs, wire, peer, late, cutoff>>

-----------------------------------------------------------------------------
(* The other end: it stops reading, so that the send buffer fills, reads   *)
(* again, or hangs up.                                                     *)

Becomes(c, what) ==
    /\ c \in Unruly /\ run[c] \in {"select", "taking", "writing"}
    /\ peer' = [peer EXCEPT ![c] = what]
    /\ late' = IF what = "stalled" /\ run[c] = "writing" THEN late \cup {c} ELSE late
    /\ UNCHANGED <<hub, run, subs, wire, done, cutoff>>

Stall(c)  == peer[c] = "reading" /\ Becomes(c, "stalled")
Resume(c) == peer[c] = "stalled" /\ Becomes(c, "reading")
HangUp(c) == peer[c] # "gone" /\ Becomes(c, "gone")

-----------------------------------------------------------------------------
PublishStep(t) == \E c \in Client : Filter(t, c) \/ Buffer(t, c)

RunStep(c) ==
    \/ FlushTakes(c) \/ FlushUnlocks(c)
    \/ \E t \in Token : FlushWrites(c, t)
    \/ FlushBreaks(c) \/ SeesDone(c) \/ Unregister(c)

Control(c) == \E tokens \in SUBSET Token \ {{}} :
                  Subscribe(c, tokens) \/ Unsubscribe(c, tokens)

Next ==
    \/ \E t \in Token : Publish(t) \/ PublishStep(t)
    \/ \E c \in Client :
          \/ Register(c) \/ RunStep(c) \/ FlushTimesOut(c)
          \/ Control(c) \/ ReadFails(c)
          \/ Stall(c) \/ Resume(c) \/ HangUp(c)

(* Runnable goroutines run and the ticker ticks.  Nothing is promised of   *)
(* the peer, of what the actors publish, nor of the five seconds after     *)
(* which a write to a peer that takes nothing is given up.                 *)
FairSpec ==
    /\ Init /\ [][Next]_vars
    /\ \A t \in Token : WF_vars(PublishStep(t))
    /\ \A c \in Client : WF_vars(RunStep(c)) /\ WF_vars(ReadFails(c))
-----------------------------------------------------------------------------
(* The buffer never goes back: an update that waits is newer than the one  *)
(* being written, which is newer than the one written before it (Client,   *)
(* client.go: a newer update overwrites the older one).                    *)
NewestWins ==
    \A c \in Client, t \in Token :
        /\ buf[c][t] # 0 => buf[c][t] > pending[c][t] /\ buf[c][t] > sent[c][t]
        /\ pending[c][t] # 0 => pending[c][t] > sent[c][t]

(* Nothing published after an unsubscribe was processed reaches the        *)
(* client, although receive checks the filter and fills the buffer in two  *)
(* critical sections.                                                      *)
FilterHolds ==
    \A c \in Client, t \in Token : ~Wants(c, t) =>
        /\ buf[c][t] <= cutoff[c][t]
        /\ pending[c][t] <= cutoff[c][t] /\ sent[c][t] <= cutoff[c][t]

(* Publish returns whatever the clients do, even if a write never ends:    *)
(* no client holds back the tick loop (Hub.Publish, hub.go).               *)
PublishReturns == \A t \in Token : Publishing(t) ~> ~Publishing(t)

(* Coalescing never drops the newest state and the deadline never cuts off *)
(* a reader: a client that is sent an update and wants it catches up with  *)
(* the instrument once that goes quiet.  Only a peer that itself stops     *)
(* reading, hangs up or unsubscribes may not (flush, client.go).           *)
LatestArrives ==
    \A c \in Client, t \in Token :
        (c \in fanout[t] /\ Wants(c, t))
            ~> \/ sent[c][t] = published[t]
               \/ c \in Unruly /\ (peer[c] # "reading" \/ ~Wants(c, t))

(* A connection whose peer hung up leaves the hub.                         *)
GoneIsForgotten ==
    \A c \in Client : (peer[c] = "gone") ~> (c \notin clients)
=============================================================================
