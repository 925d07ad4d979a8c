---------------------------- MODULE WsHub_proofs ----------------------------
(***************************************************************************)
(* The safety of the WebSocket layer, for every set of connections and     *)
(* instruments and for peers as unruly as they like.                       *)
(***************************************************************************)
EXTENDS WsHub, TLAPS

(* A step of the specification changes one goroutine's state.              *)
LEMMA TypeStep == HubTypeOK /\ [Next]_vars => HubTypeOK'
<1> SUFFICES ASSUME HubTypeOK, [Next]_vars PROVE HubTypeOK'
    OBVIOUS
<1> USE WsAssumption
<1>1. ASSUME NEW t \in Token, Publish(t) PROVE HubTypeOK'
    BY <1>1 DEF Publish, HubTypeOK, wire
<1>2. ASSUME NEW t \in Token, NEW c \in Client, Filter(t, c) PROVE HubTypeOK'
    BY <1>2 DEF Filter, HubTypeOK, wire
<1>3. ASSUME NEW t \in Token, NEW c \in Client, Buffer(t, c) PROVE HubTypeOK'
    BY <1>3 DEF Buffer, Overwrite, HubTypeOK
<1>4. ASSUME NEW c \in Client, Register(c) PROVE HubTypeOK'
    BY <1>4 DEF Register, GoTo, HubTypeOK, wire
<1>5. ASSUME NEW c \in Client, FlushTakes(c) PROVE HubTypeOK'
    BY <1>5 DEF FlushTakes, GoTo, Drained, None, HubTypeOK, hub
<1>6. ASSUME NEW c \in Client, FlushUnlocks(c) PROVE HubTypeOK'
    BY <1>6 DEF FlushUnlocks, GoTo, HubTypeOK, hub, wire
<1>7. ASSUME NEW c \in Client, NEW t \in Token, FlushWrites(c, t) PROVE HubTypeOK'
    <2>1. run' \in {run, [run EXCEPT ![c] = "select"]} /\ run[c] = "writing"
        BY <1>7 DEF FlushWrites, GoTo
    <2>2. /\ run' \in [Client -> {"new", "select", "taking", "writing", "closing", "ended"}]
          /\ clients = {d \in Client : run'[d] \notin {"new", "ended"}}
        BY <2>1 DEF HubTypeOK
    <2>3. /\ sent' \in [Client -> [Token -> Nat]]
          /\ pending' \in [Client -> [Token -> Nat]]
        BY <1>7 DEF FlushWrites, HubTypeOK
    <2>4. UNCHANGED <<published, fanout, passed, clients, subs, buf, peer, late, done, cutoff>>
        BY <1>7 DEF FlushWrites, hub
    <2> QED BY <2>2, <2>3, <2>4 DEF HubTypeOK
<1>8. ASSUME NEW c \in Client, FlushTimesOut(c) \/ FlushBreaks(c) PROVE HubTypeOK'
    <2>1. /\ run[c] = "writing" /\ run' = [run EXCEPT ![c] = "closing"]
          /\ UNCHANGED <<hub, subs, wire, peer, late, done, cutoff>>
        BY <1>8 DEF FlushTimesOut, FlushBreaks, GoTo
    <2> QED BY <2>1 DEF HubTypeOK, hub, wire
<1>9. ASSUME NEW c \in Client, SeesDone(c) PROVE HubTypeOK'
    BY <1>9 DEF SeesDone, GoTo, HubTypeOK, hub, wire
<1>10. ASSUME NEW c \in Client, Unregister(c) PROVE HubTypeOK'
    BY <1>10 DEF Unregister, Without, Drained, GoTo, None, HubTypeOK
<1>11. ASSUME NEW c \in Client, NEW s \in SUBSET Token, SetSubs(c, s) PROVE HubTypeOK'
    BY <1>11 DEF SetSubs, HubTypeOK, hub, wire
<1>12. ASSUME NEW c \in Client, ReadFails(c) PROVE HubTypeOK'
    BY <1>12 DEF ReadFails, HubTypeOK, hub, wire
<1>13. ASSUME NEW c \in Client, NEW what \in {"reading", "stalled", "gone"},
              Becomes(c, what) PROVE HubTypeOK'
    BY <1>13 DEF Becomes, HubTypeOK, hub, wire
<1>14. ASSUME UNCHANGED vars PROVE HubTypeOK'
    BY <1>14 DEF vars, hub, wire, HubTypeOK
<1>15. ASSUME NEW c \in Client, Control(c) PROVE HubTypeOK'
    <2> PICK tokens \in SUBSET Token : Subscribe(c, tokens) \/ Unsubscribe(c, tokens)
        BY <1>15 DEF Control
    <2>1. subs[c] \cup tokens \in SUBSET Token /\ subs[c] \ tokens \in SUBSET Token
        BY DEF HubTypeOK
    <2> QED BY <1>11, <2>1 DEF Subscribe, Unsubscribe
<1> QED
    BY <1>1, <1>2, <1>3, <1>4, <1>5, <1>6, <1>7, <1>8, <1>9, <1>10, <1>12, <1>13,
       <1>14, <1>15
    DEF Next, PublishStep, RunStep, Stall, Resume, HangUp

(* The types hold, and the hub fans out to the connections whose Run has   *)
(* registered and not yet unregistered (Hub, hub.go; Run, client.go).      *)
THEOREM HubTypeCorrect == FairSpec => []HubTypeOK
<1>1. Init => HubTypeOK
    BY WsAssumption DEF Init, HubTypeOK, None
<1> QED BY <1>1, TypeStep, PTL DEF FairSpec

-----------------------------------------------------------------------------
(* Publish holds the hub's read lock, so that whoever it has still to      *)
(* visit is registered and is visited once.                                *)
FanoutIsRegistered ==
    \A t \in Token : /\ fanout[t] \subseteq clients
                     /\ passed[t] # NoClient => passed[t] \in clients
                     /\ passed[t] \notin fanout[t]

Coming(c, t) == c \in fanout[t] \/ passed[t] = c

(* Nothing a client holds is newer than what was published, and what is    *)
(* still coming to it is newer than anything it holds.                     *)
Ordered(c, t) ==
    /\ buf[c][t] <= published[t] /\ pending[c][t] <= published[t]
    /\ sent[c][t] <= published[t]
    /\ Coming(c, t) => /\ buf[c][t] < published[t] /\ pending[c][t] < published[t]
                       /\ sent[c][t] < published[t]

(* A batch is written to its end before the next is taken.                 *)
Written(c, t) == run[c] \in {"new", "select", "ended"} => pending[c][t] = 0

Newest(c, t) ==
    /\ buf[c][t] # 0 => buf[c][t] > pending[c][t] /\ buf[c][t] > sent[c][t]
    /\ pending[c][t] # 0 => pending[c][t] > sent[c][t]

(* An update that passed the filter before the unsubscribe was published   *)
(* before it too.                                                          *)
Filtered(c, t) ==
    ~Wants(c, t) => /\ buf[c][t] <= cutoff[c][t]
                    /\ pending[c][t] <= cutoff[c][t] /\ sent[c][t] <= cutoff[c][t]
                    /\ passed[t] = c => published[t] <= cutoff[c][t]

InFlight(c, t) == Ordered(c, t) /\ Written(c, t) /\ Newest(c, t) /\ Filtered(c, t)

HubInv ==
    /\ HubTypeOK /\ FanoutIsRegistered
    /\ \A c \in Client, t \in Token : InFlight(c, t)

(* Publish visits the clients that were registered when it began: the lock *)
(* keeps them registered until it ends.                                    *)
LEMMA FanoutStep ==
    HubTypeOK /\ FanoutIsRegistered /\ [Next]_vars => FanoutIsRegistered'
<1> SUFFICES ASSUME HubTypeOK, FanoutIsRegistered, [Next]_vars
             PROVE  FanoutIsRegistered'
    OBVIOUS
<1> USE WsAssumption
<1>1. ASSUME NEW t \in Token, Publish(t) PROVE FanoutIsRegistered'
    BY <1>1 DEF Publish, Publishing, FanoutIsRegistered, HubTypeOK
<1>2. ASSUME NEW t \in Token, NEW c \in Client, Filter(t, c) PROVE FanoutIsRegistered'
    BY <1>2 DEF Filter, FanoutIsRegistered, HubTypeOK
<1>3. ASSUME NEW t \in Token, NEW c \in Client, Buffer(t, c) PROVE FanoutIsRegistered'
    BY <1>3 DEF Buffer, FanoutIsRegistered, HubTypeOK
<1>4. ASSUME NEW c \in Client, Register(c) PROVE FanoutIsRegistered'
    BY <1>4 DEF Register, FanoutIsRegistered, HubTypeOK
<1>5. ASSUME NEW c \in Client, Unregister(c) PROVE FanoutIsRegistered'
    BY <1>5 DEF Unregister, Without, WriteLockFree, Publishing, FanoutIsRegistered, HubTypeOK
<1>6. ASSUME UNCHANGED hub PROVE FanoutIsRegistered'
    BY <1>6 DEF hub, FanoutIsRegistered
<1>7. CASE \E c \in Client : Control(c)
    <2> PICK c \in Client, tokens \in SUBSET Token : Subscribe(c, tokens) \/ Unsubscribe(c, tokens)
        BY <1>7 DEF Control
    <2> QED BY <1>6 DEF Subscribe, Unsubscribe, SetSubs
<1> QED
    BY <1>1, <1>2, <1>3, <1>4, <1>5, <1>6, <1>7
    DEF Next, PublishStep, RunStep, FlushTakes, FlushUnlocks, FlushWrites, FlushTimesOut,
        FlushBreaks, SeesDone, ReadFails, Stall, Resume, HangUp, Becomes, vars

(* No step lets an update overtake, get lost behind an older one or pass   *)
(* the filter late.                                                        *)
LEMMA InFlightStep ==
    ASSUME HubInv, [Next]_vars, NEW d \in Client, NEW u \in Token
    PROVE  InFlight(d, u)'
<1> USE WsAssumption DEF InFlight, Ordered, Coming, Written, Newest, Filtered, Wants
<1>0. /\ HubTypeOK /\ FanoutIsRegistered /\ InFlight(d, u)
      /\ published[u] \in Nat /\ buf[d][u] \in Nat /\ pending[d][u] \in Nat
      /\ sent[d][u] \in Nat /\ cutoff[d][u] \in Nat
    BY DEF HubInv, HubTypeOK
<1>1. ASSUME NEW t \in Token, Publish(t) PROVE InFlight(d, u)'
    BY <1>0, <1>1 DEF Publish, Publishing, wire, FanoutIsRegistered, HubTypeOK
<1>2. ASSUME NEW t \in Token, NEW c \in Client, Filter(t, c) PROVE InFlight(d, u)'
    BY <1>0, <1>2 DEF Filter, Passes, wire, FanoutIsRegistered, HubTypeOK
<1>3. ASSUME NEW t \in Token, NEW c \in Client, Buffer(t, c) PROVE InFlight(d, u)'
    BY <1>0, <1>3 DEF Buffer, Overwrite, FanoutIsRegistered, HubTypeOK
<1>4. ASSUME NEW c \in Client, Register(c) PROVE InFlight(d, u)'
    BY <1>0, <1>4 DEF Register, GoTo, wire, HubTypeOK
<1>5. ASSUME NEW c \in Client, FlushTakes(c) PROVE InFlight(d, u)'
    BY <1>0, <1>5 DEF FlushTakes, Drained, None, GoTo, hub, HubTypeOK
<1>6. ASSUME NEW c \in Client, FlushUnlocks(c) PROVE InFlight(d, u)'
    BY <1>0, <1>6 DEF FlushUnlocks, GoTo, hub, wire, HubTypeOK
<1>7. ASSUME NEW c \in Client, NEW t \in Token, FlushWrites(c, t) PROVE InFlight(d, u)'
    BY <1>0, <1>7 DEF FlushWrites, None, GoTo, hub, HubTypeOK
<1>8. ASSUME NEW c \in Client, FlushTimesOut(c) \/ FlushBreaks(c) \/ SeesDone(c)
      PROVE  InFlight(d, u)'
    <2>1. /\ run' = [run EXCEPT ![c] = "closing"]
          /\ UNCHANGED <<hub, subs, wire, cutoff>>
        BY <1>8 DEF FlushTimesOut, FlushBreaks, SeesDone, GoTo
    <2> QED BY <1>0, <2>1 DEF hub, wire, HubTypeOK
<1>9. ASSUME NEW c \in Client, Unregister(c) PROVE InFlight(d, u)'
    BY <1>0, <1>9 DEF Unregister, Drained, None, GoTo, WriteLockFree, Publishing, HubTypeOK
<1>10. ASSUME NEW c \in Client, NEW s \in SUBSET Token, SetSubs(c, s) PROVE InFlight(d, u)'
    BY <1>0, <1>10 DEF SetSubs, hub, wire, HubTypeOK
<1>11. ASSUME UNCHANGED <<hub, run, subs, wire, cutoff>> PROVE InFlight(d, u)'
    BY <1>0, <1>11 DEF hub, wire
<1>12. CASE \E c \in Client : Control(c)
    <2> PICK c \in Client, tokens \in SUBSET Token : Subscribe(c, tokens) \/ Unsubscribe(c, tokens)
        BY <1>12 DEF Control
    <2>1. subs[c] \cup tokens \in SUBSET Token /\ subs[c] \ tokens \in SUBSET Token
        BY <1>0 DEF HubTypeOK
    <2> QED BY <1>10, <2>1 DEF Subscribe, Unsubscribe
<1> QED
    BY <1>1, <1>2, <1>3, <1>4, <1>5, <1>6, <1>7, <1>8, <1>9, <1>11, <1>12
    DEF Next, PublishStep, RunStep, ReadFails, Stall, Resume, HangUp, Becomes, vars

(* What HubInv needs to hold at first, and to go on holding.               *)
LEMMA HubInvHolds == FairSpec => []HubInv
<1>1. Init => HubInv
    BY WsAssumption DEF Init, HubInv, HubTypeOK, FanoutIsRegistered, InFlight, Ordered,
        Coming, Written, Newest, Filtered, Wants, None
<1>2. HubInv /\ [Next]_vars => HubInv'
    BY TypeStep, FanoutStep, InFlightStep DEF HubInv
<1> QED BY <1>1, <1>2, PTL DEF FairSpec

(* The buffer never goes back (Client, client.go).                         *)
THEOREM NewestAlwaysWins == FairSpec => []NewestWins
<1>1. HubInv => NewestWins
    BY DEF HubInv, InFlight, Newest, NewestWins
<1> QED BY <1>1, HubInvHolds, PTL

(* Nothing published after an unsubscribe was processed reaches the client *)
(* (receive and readLoop, client.go).                                      *)
THEOREM FilterAlwaysHolds == FairSpec => []FilterHolds
<1>1. HubInv => FilterHolds
    BY DEF HubInv, InFlight, Filtered, FilterHolds
<1> QED BY <1>1, HubInvHolds, PTL
=============================================================================
