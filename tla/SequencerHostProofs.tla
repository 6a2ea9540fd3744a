------------------------ MODULE SequencerHostProofs ------------------------
(***************************************************************************)
(* The three safety properties of the sequencer host, for any number of    *)
(* hosts, connections, messages, elections and datagrams in flight.        *)
(*                                                                         *)
(* What carries the lease property is Backed: a lease once reported to its *)
(* holder stays the committed one until it expires, because only the       *)
(* holder's own messages move a live lease, and only forwards. Every reply *)
(* anywhere in the system, however late or repeated, is therefore safe to  *)
(* believe until the expiry it names.                                      *)
(***************************************************************************)
EXTENDS SequencerHost, TLAPS

\* A leaf that names no prover is for the SMT solver.
USE SMTT(30)

Holders == Clients \union {Nobody}
Leases == [holder : Holders, expiry : Nat]
Replies == [granted : BOOLEAN, lease : Leases, error : BOOLEAN]
Packets == [kind : {"request", "response", "not_leader"}, from : Node, to : Node,
            msg : Message, reply : Replies]
IOs == [prop : SUBSET Message, owed : [Node -> SUBSET Message], net : SUBSET Packets]

\* With l committed at time t: until e the lease is h's, and lasts at least to e.
Backed(l, t, h, e) == e > t => l.holder = h /\ l.expiry >= e

\* A reply a client may believe.
Sound(x, l, t, m, r) ==
    /\ Backed(l, t, r.lease.holder, r.lease.expiry)
    /\ r.lease.expiry <= x.time + LeaseMs
    /\ m.op # "get" /\ r.granted => r.lease.holder = m.client

CoreTypes ==
    /\ mix \in Mixes /\ leader \in Node /\ now \in 1..mix.time /\ sends \in 0..MaxMessages
    /\ status \in [Node -> [normal : BOOLEAN, leader : Node \union {Nobody}]]
    /\ prop \subseteq Message /\ owed \in [Node -> SUBSET Message] /\ net \subseteq Packets
    /\ done \subseteq [msg : Message, reply : Replies]
    /\ fwd \in [Node -> SUBSET [msg : Message, from : Node]]
    /\ lease \in Leases

\* No lease outlasts one granted now, and every reply under way is sound.
LeaseInv ==
    /\ lease.expiry <= now + LeaseMs
    /\ \A d \in done : Sound(mix, lease, now, d.msg, d.reply)
    /\ \A d \in net : Sound(mix, lease, now, d.msg, d.reply)

\* A driver waits only for its own verbs, and what it holds is backed.
DrvInv ==
    /\ drv \in [Node -> [pending : Pendings, held : 0..(mix.time + LeaseMs)]]
    /\ \A n \in Node : /\ drv[n].pending # None => drv[n].pending.client = Driver(n)
                       /\ Backed(lease, now, Driver(n), drv[n].held)

\* A contender that holds, or waits for more than a probe, has absorbed a probe
\* since its start; a silent one remembers and awaits nothing.
EmbInv ==
    /\ emb \in [Node -> [on : BOOLEAN, sched : BOOLEAN, holds : BOOLEAN, pending : Pendings]]
    /\ probed \in [Node -> BOOLEAN]
    /\ \A n \in Node :
           /\ ~emb[n].on => ~emb[n].holds /\ ~emb[n].sched /\ emb[n].pending = None
           /\ emb[n].holds => probed[n]
           /\ emb[n].pending # None /\ emb[n].pending.op # "get" => probed[n]

\* A connection waits only for the verb of its last line.
ConnInv ==
    /\ conn \in [Tcp -> [at : Node \union {Nobody}, pending : Pendings, verb : Pendings,
                         got : Pendings, lines : Nat]]
    /\ \A c \in Tcp : /\ conn[c].pending \in {None, conn[c].verb}
                      /\ conn[c].got \in {None, conn[c].verb}

HostInv == CoreTypes /\ LeaseInv /\ DrvInv /\ EmbInv /\ ConnInv

\* io as the hosts leave it: well formed, with sound packets on the wire.
IOInv(x, l, t, io) == io \in IOs /\ \A d \in io.net : Sound(x, l, t, d.msg, d.reply)

(* ------------------------- what a submit may do ------------------------- *)

LEMMA MixFacts ==
    ASSUME CoreTypes
    PROVE  /\ mix.time \in Nat /\ now \in Nat /\ now >= 1 /\ now <= mix.time
           /\ LeaseMs \in Nat /\ sends \in Nat /\ sends <= MaxMessages /\ MaxMessages \in Nat
           /\ mix.tcp \subseteq Tcp
BY HostAssumption DEF CoreTypes

LEMMA MintTypes ==
    ASSUME CoreTypes, sends < MaxMessages, NEW client \in Clients,
           NEW op \in {"get", "set", "renew", "extend"}
    PROVE  /\ Mint(client, op) \in Message /\ Mint(client, op) # None
           /\ Mint(client, op).client = client /\ Mint(client, op).op = op
           /\ Mint(client, op).num = sends + 1
           /\ sends + 1 \in 0..MaxMessages
<1>1. sends + 1 \in 1..MaxMessages BY MixFacts
<1>2. Mint(client, op) \in Message BY <1>1, Zenon DEF Mint, Message
<1> QED BY <1>1, <1>2, NoneIsNoMessage, MixFacts DEF Mint

LEMMA NoReplySound ==
    ASSUME CoreTypes, NEW l, NEW t \in Nat, NEW m \in Message
    PROVE  /\ NoReply \in Replies /\ Sound(mix, l, t, m, NoReply)
           /\ NoReply.error /\ ~NoReply.granted
<1>1. NoReply \in Replies BY Zenon DEF NoReply, Replies, Leases, Free, Holders
<1> QED BY <1>1, MixFacts DEF NoReply, Free, Sound, Backed

LEMMA PacketTypes ==
    ASSUME NEW kind \in {"request", "response", "not_leader"}, NEW from \in Node, NEW to \in Node,
           NEW m \in Message, NEW r \in Replies
    PROVE  /\ Datagram(kind, from, to, m, r) \in Packets
           /\ Datagram(kind, from, to, m, r).msg = m
           /\ Datagram(kind, from, to, m, r).reply = r
BY Zenon DEF Datagram, Packets

\* Node::request keeps what lies below well formed, and sends nothing itself.
LEMMA ProposalsKeep ==
    ASSUME CoreTypes, NEW n \in Node, NEW m \in Message, NEW l, NEW t \in Nat, NEW io,
           IOInv(mix, l, t, io),
           NEW p \in Proposals(n, m, io)
    PROVE  IOInv(mix, l, t, p.io) /\ p.io.net = io.net
<1> DEFINE owes == [io.owed EXCEPT ![n] = @ \union {m}]
           dropped == [io.owed EXCEPT ![n] = @ \ {m}]
           took == IF n = leader /\ ~IsDone(m) THEN io.prop \union {m} ELSE io.prop
<1>1. io = [prop |-> io.prop, owed |-> io.owed, net |-> io.net] BY Zenon DEF IOInv, IOs
<1>2. io.prop \in SUBSET Message /\ io.owed \in [Node -> SUBSET Message] /\ io.net \in SUBSET Packets
  BY Zenon DEF IOInv, IOs
<1>3. owes \in [Node -> SUBSET Message] /\ dropped \in [Node -> SUBSET Message] BY <1>2, Zenon
<1>4. took \in SUBSET Message BY <1>2, Zenon
<1>5. \/ p.io = [io EXCEPT !.owed = owes, !.prop = took]
      \/ p.io = [io EXCEPT !.owed = dropped]
  <2>1. \/ p = [rc |-> "ok", io |-> [io EXCEPT !.owed = owes,
                     !.prop = IF n = leader /\ ~IsDone(m) THEN @ \union {m} ELSE @]]
        \/ p = [rc |-> "not_leader", io |-> [io EXCEPT !.owed = dropped]]
        \/ p = [rc |-> "refused", io |-> [io EXCEPT !.owed = dropped]]
    BY Zenon DEF Proposals
  <2>2. [io EXCEPT !.owed = owes, !.prop = IF n = leader /\ ~IsDone(m) THEN @ \union {m} ELSE @]
            = [io EXCEPT !.owed = owes, !.prop = took]
    BY <1>1, Zenon
  <2> HIDE DEF owes, dropped, took
  <2> QED BY <2>1, <2>2
<1>6. \/ p.io = [prop |-> took, owed |-> owes, net |-> io.net]
      \/ p.io = [prop |-> io.prop, owed |-> dropped, net |-> io.net]
  <2> HIDE DEF owes, dropped, took
  <2> QED BY <1>1, <1>5, Zenon
<1> HIDE DEF owes, dropped, took
<1>7. p.io \in IOs /\ p.io.net = io.net BY <1>2, <1>3, <1>4, <1>6 DEF IOs
<1> QED BY <1>7, Zenon DEF IOInv

\* Host::route_op: pending is the verb or nothing, and at most a forwarded
\* request is added to the wire.
LEMMA RoutedKeeps ==
    ASSUME CoreTypes, NEW n \in Node, NEW m \in Message, NEW l, NEW t \in Nat, NEW io,
           IOInv(mix, l, t, io),
           NEW o \in Routed(n, m, io)
    PROVE  o.pending \in {m, None} /\ IOInv(mix, l, t, o.io)
<1>1. PICK p \in Proposals(n, m, io) :
        LET target == status[n].leader
            forwards == p.rc = "not_leader" /\ target \notin {Nobody, n}
        IN  o = [pending |-> IF p.rc = "ok" \/ forwards THEN m ELSE None,
                 io |-> IF forwards
                        THEN [p.io EXCEPT !.net = @ \union {Datagram("request", n, target, m, NoReply)}]
                        ELSE p.io]
  BY Zenon DEF Routed
<1> DEFINE target == status[n].leader
           packet == Datagram("request", n, target, m, NoReply)
<1>2. IOInv(mix, l, t, p.io) BY ProposalsKeep, Zenon
<1>3. CASE p.rc = "not_leader" /\ target \notin {Nobody, n}
  <2>1. target \in Node BY <1>3, Zenon DEF CoreTypes
  <2>2. packet \in Packets /\ Sound(mix, l, t, packet.msg, packet.reply)
    BY <2>1, PacketTypes, NoReplySound
  <2>3. o.io = [p.io EXCEPT !.net = @ \union {packet}] /\ o.pending = m BY <1>1, <1>3, Zenon
  <2>4. p.io \in IOs BY <1>2, Zenon DEF IOInv
  <2> HIDE DEF packet
  <2>5. o.io \in IOs /\ o.io.net = p.io.net \union {packet} BY <2>2, <2>3, <2>4 DEF IOs
  <2> QED BY <1>2, <2>2, <2>3, <2>5, Zenon DEF IOInv
<1>4. CASE ~(p.rc = "not_leader" /\ target \notin {Nobody, n})
  <2>1. o.io = p.io /\ o.pending \in {m, None} BY <1>1, <1>4, Zenon
  <2> QED BY <1>2, <2>1, Zenon
<1> QED BY <1>3, <1>4, Zenon

LEMMA IOHolds ==
    ASSUME CoreTypes, LeaseInv
    PROVE  IOInv(mix, lease, now, IO)
BY Zenon DEF CoreTypes, LeaseInv, IO, IOInv, IOs

(* --------------------------- a client's own step ------------------------- *)

\* The lease moves so that what was backed stays backed.
Steady ==
    /\ mix' = mix /\ now' \in Nat
    /\ \A h \in Holders, e \in Nat : Backed(lease, now, h, e) => Backed(lease', now', h, e)

IONext == [prop |-> prop', owed |-> owed', net |-> net']

LEMMA StillSteady == CoreTypes /\ UNCHANGED <<mix, lease, now>> => Steady
BY MixFacts, Zenon DEF Steady

LEMMA DrvStays == DrvInv /\ Steady /\ UNCHANGED drv => DrvInv'
<1> SUFFICES ASSUME DrvInv, Steady, UNCHANGED drv PROVE DrvInv'
  BY Zenon
<1>1. ASSUME NEW n \in Node PROVE Backed(lease', now', Driver(n), drv[n].held)
  <2>1. Driver(n) \in Holders BY Zenon DEF Clients, Holders
  <2>2. drv[n].held \in Nat BY DEF DrvInv
  <2> QED BY <2>1, <2>2, Zenon DEF DrvInv, Steady
<1> QED BY <1>1, Zenon DEF DrvInv, Steady

LEMMA DrvMoves ==
    ASSUME CoreTypes, DrvInv, Steady, NEW n \in Node, NEW q \in Pendings,
           q # None => q.client = Driver(n),
           NEW h \in 0..(mix.time + LeaseMs), Backed(lease', now', Driver(n), h),
           drv' = [drv EXCEPT ![n] = [pending |-> q, held |-> h]]
    PROVE  DrvInv'
<1>1. ASSUME NEW k \in Node PROVE Backed(lease', now', Driver(k), drv[k].held)
  <2>1. Driver(k) \in Holders BY Zenon DEF Clients, Holders
  <2>2. drv[k].held \in Nat BY DEF DrvInv
  <2> QED BY <2>1, <2>2, Zenon DEF DrvInv, Steady
<1>2. drv' \in [Node -> [pending : Pendings, held : 0..(mix.time + LeaseMs)]] BY Zenon DEF DrvInv
<1>3. \A k \in Node : k # n => drv'[k] = drv[k] BY Zenon DEF DrvInv
<1>4. drv'[n] = [pending |-> q, held |-> h] BY Zenon DEF DrvInv
<1>5. ASSUME NEW k \in Node
      PROVE  /\ drv'[k].pending # None => drv'[k].pending.client = Driver(k)
             /\ Backed(lease', now', Driver(k), drv'[k].held)
  BY <1>1, <1>3, <1>4, Zenon DEF DrvInv
<1>6. mix' = mix BY Zenon DEF Steady
<1> QED BY <1>2, <1>5, <1>6, Zenon DEF DrvInv

\* What the gate of n may be, when pr says which contenders have probed.
Gate(n, g, pr) ==
    /\ g \in [on : BOOLEAN, sched : BOOLEAN, holds : BOOLEAN, pending : Pendings]
    /\ ~g.on => ~g.holds /\ ~g.sched /\ g.pending = None
    /\ g.holds => pr[n]
    /\ g.pending # None /\ g.pending.op # "get" => pr[n]

LEMMA EmbMoves ==
    ASSUME EmbInv, NEW n \in Node, NEW g, Gate(n, g, probed'), emb' = [emb EXCEPT ![n] = g],
           probed' \in [Node -> BOOLEAN], \A k \in Node \ {n} : probed'[k] = probed[k]
    PROVE  EmbInv'
<1>1. emb' \in [Node -> [on : BOOLEAN, sched : BOOLEAN, holds : BOOLEAN, pending : Pendings]]
  BY Zenon DEF EmbInv, Gate
<1>2. emb'[n] = g /\ \A k \in Node \ {n} : emb'[k] = emb[k] BY Zenon DEF EmbInv
<1>3. ASSUME NEW k \in Node
      PROVE  /\ ~emb'[k].on => ~emb'[k].holds /\ ~emb'[k].sched /\ emb'[k].pending = None
             /\ emb'[k].holds => probed'[k]
             /\ emb'[k].pending # None /\ emb'[k].pending.op # "get" => probed'[k]
  <2>1. CASE k = n BY <1>2, <2>1, Zenon DEF Gate
  <2>2. CASE k # n BY <1>2, <2>2, Zenon DEF EmbInv
  <2> QED BY <2>1, <2>2, Zenon
<1> QED BY <1>1, <1>3, Zenon DEF EmbInv

LEMMA GateOf == ASSUME EmbInv, NEW n \in Node PROVE Gate(n, emb[n], probed)
BY Zenon DEF EmbInv, Gate

LEMMA ConnMoves ==
    ASSUME ConnInv, NEW c \in Tcp,
           NEW k \in [at : Node \union {Nobody}, pending : Pendings, verb : Pendings,
                      got : Pendings, lines : Nat],
           k.pending \in {None, k.verb}, k.got \in {None, k.verb},
           conn' = [conn EXCEPT ![c] = k]
    PROVE  ConnInv'
BY Zenon DEF ConnInv

(* ----------------------------- the contender ----------------------------- *)

\* Contender::absorb of a reply to a verb that was not a probe needs an earlier
\* probe; a probe that goes unanswered takes nothing.
LEMMA AbsorbedGate ==
    ASSUME NEW n \in Node, NEW g, NEW old \in [Node -> BOOLEAN], Gate(n, g, old), g.on,
           NEW m \in Message, NEW r \in Replies,
           NEW pr \in [Node -> BOOLEAN], old[n] => pr[n],
           m.op # "get" \/ (r.granted /\ ~r.error) => pr[n]
    PROVE  Gate(n, Absorbed(n, g, m, r), pr) /\ Absorbed(n, g, m, r).on
<1> DEFINE own == ~r.error /\ r.lease.holder = Contender(n) /\ r.granted
           keeps == \/ m.op = "set" \/ own
                    \/ g.holds /\ ~(m.op = "extend" /\ ~r.error /\ r.lease # Free)
<1>1. g = [on |-> g.on, sched |-> g.sched, holds |-> g.holds, pending |-> g.pending] BY Zenon DEF Gate
<1>2. Absorbed(n, g, m, r) = [g EXCEPT !.pending = None, !.sched = TRUE, !.holds = keeps]
  BY <1>1, Zenon DEF Absorbed
<1>3. keeps \in BOOLEAN /\ (keeps => pr[n])
  <2>1. own => pr[n] BY Zenon DEF Replies
  <2>2. g.holds => pr[n] BY Zenon DEF Gate
  <2>3. keeps \in BOOLEAN BY Zenon
  <2>4. m.op = "set" => pr[n] BY Zenon
  <2>5. keeps => pr[n]
    <3> HIDE DEF own
    <3> QED BY <2>1, <2>2, <2>4, Zenon
  <2> QED BY <2>3, <2>5, Zenon
<1> HIDE DEF keeps
<1>4. Absorbed(n, g, m, r) = [on |-> g.on, sched |-> TRUE, holds |-> keeps, pending |-> None]
  BY <1>1, <1>2, Zenon
<1> QED BY <1>3, <1>4 DEF Gate, Pendings

LEMMA SubmittedGate ==
    ASSUME CoreTypes, NEW n \in Node, NEW g, NEW pr \in [Node -> BOOLEAN], Gate(n, g, pr), g.on,
           NEW m \in Message, NEW o, o.pending \in {m, None}, m.op # "get" => pr[n]
    PROVE  Gate(n, Submitted(n, g, m, o), pr)
<1>1. CASE o.pending = None
  <2>1. NoReply \in Replies /\ NoReply.error BY NoReplySound, MixFacts, Zenon
  <2>2. Gate(n, Absorbed(n, g, m, NoReply), pr) BY <2>1, AbsorbedGate, Zenon
  <2> QED BY <1>1, <2>2, Zenon DEF Submitted
<1>2. CASE o.pending # None
  <2>1. Submitted(n, g, m, o) = [g EXCEPT !.pending = m] BY <1>2, Zenon DEF Submitted
  <2>2. g \in [on : BOOLEAN, sched : BOOLEAN, holds : BOOLEAN, pending : Pendings] BY Zenon DEF Gate
  <2>3. [g EXCEPT !.pending = m] \in [on : BOOLEAN, sched : BOOLEAN, holds : BOOLEAN, pending : Pendings]
    BY <2>2, Zenon DEF Pendings
  <2>4. /\ [g EXCEPT !.pending = m].pending = m /\ [g EXCEPT !.pending = m].on = g.on
        /\ [g EXCEPT !.pending = m].holds = g.holds
    BY <2>2, Zenon
  <2> QED BY <2>1, <2>3, <2>4, Zenon DEF Gate
<1> QED BY <1>1, <1>2, Zenon

LEMMA EmbeddedCompletes ==
    ASSUME CoreTypes, EmbInv, Steady, NEW n \in Node, NEW m \in Message, NEW r \in Replies,
           NEW io, IOInv(mix, lease', now', io), emb[n].pending = m, EmbeddedComplete(n, m, r, io)
    PROVE  /\ EmbInv' /\ sends' \in 0..MaxMessages /\ UNCHANGED <<drv, conn>>
           /\ IOInv(mix, lease', now', IONext)
<1> DEFINE g == Absorbed(n, emb[n], m, r)
           follows == m.op = "get" /\ ~r.error /\ r.lease = Free /\ sends < MaxMessages
           next == Mint(Contender(n), "set")
<1>1. Gate(n, emb[n], probed) /\ m # None /\ probed \in [Node -> BOOLEAN]
  BY GateOf, NoneIsNoMessage, Zenon DEF EmbInv
<1>2. /\ sends' = IF follows THEN sends + 1 ELSE sends
      /\ probed' = [probed EXCEPT ![n] = @ \/ m.op = "get"]
      /\ UNCHANGED <<drv, conn>>
      /\ \E o \in IF follows THEN Routed(n, next, io) ELSE {[pending |-> None, io |-> io]} :
           /\ emb' = [emb EXCEPT ![n] = IF follows THEN Submitted(n, g, next, o) ELSE g]
           /\ Becomes(o.io)
  BY Zenon DEF EmbeddedComplete
<1>3. /\ probed' \in [Node -> BOOLEAN] /\ \A k \in Node \ {n} : probed'[k] = probed[k]
      /\ probed'[n] = (probed[n] \/ m.op = "get")
  BY <1>1, <1>2, Zenon
<1>4. emb[n].on /\ probed'[n]
  <2>1. emb[n].on BY <1>1, Zenon DEF Gate
  <2>2. m.op # "get" => probed[n] BY <1>1, Zenon DEF Gate
  <2> QED BY <1>1, <1>3, <2>1, <2>2, Zenon
<1>5. Gate(n, g, probed') /\ g.on BY <1>1, <1>3, <1>4, AbsorbedGate, Zenon
<1>6. PICK o \in IF follows THEN Routed(n, next, io) ELSE {[pending |-> None, io |-> io]} :
           /\ emb' = [emb EXCEPT ![n] = IF follows THEN Submitted(n, g, next, o) ELSE g]
           /\ Becomes(o.io)
  BY <1>2, Zenon
<1>7. now' \in Nat BY Zenon DEF Steady
<1> HIDE DEF g
<1>8. CASE follows
  <2>1. next \in Message /\ sends + 1 \in 0..MaxMessages BY <1>8, MintTypes, Zenon DEF Clients
  <2>2. o \in Routed(n, next, io) /\ emb' = [emb EXCEPT ![n] = Submitted(n, g, next, o)] /\ Becomes(o.io)
    BY <1>6, <1>8, Zenon
  <2> HIDE DEF next
  <2>3. o.pending \in {next, None} /\ IOInv(mix, lease', now', o.io)
    BY <1>7, <2>1, <2>2, RoutedKeeps, Zenon
  <2>4. Gate(n, Submitted(n, g, next, o), probed')
    BY <1>3, <1>4, <1>5, <2>1, <2>3, SubmittedGate
  <2>5. EmbInv' BY <1>3, <2>2, <2>4, EmbMoves, Zenon
  <2>6. IONext = o.io BY <2>2, <2>3, Zenon DEF Becomes, InFlight, IONext, IOInv, IOs
  <2> QED BY <1>2, <1>8, <2>1, <2>3, <2>5, <2>6, Zenon
<1>9. CASE ~follows
  <2>1. o.io = io BY <1>6, <1>9
  <2>2. emb' = [emb EXCEPT ![n] = g] BY <1>6, <1>9, Zenon
  <2>3. EmbInv' BY <1>3, <1>5, <2>2, EmbMoves, Zenon
  <2>4. IONext = io BY <1>6, <2>1, Zenon DEF Becomes, InFlight, IONext, IOInv, IOs
  <2>5. sends' \in 0..MaxMessages BY <1>2, <1>9, Zenon DEF CoreTypes
  <2> QED BY <1>2, <2>3, <2>4, <2>5, Zenon
<1> QED BY <1>8, <1>9, Zenon

(* ------------------------------- the driver ------------------------------ *)

\* driver_complete: what the reply makes the driver hold is backed.
LEMMA DriverHeldBacked ==
    ASSUME CoreTypes, DrvInv, Steady, NEW n \in Node, NEW m \in Message, NEW r \in Replies,
           Sound(mix, lease', now', m, r), drv[n].pending = m
    PROVE  /\ DriverHeld(n, m, r, drv[n].held) \in 0..(mix.time + LeaseMs)
           /\ Backed(lease', now', Driver(n), DriverHeld(n, m, r, drv[n].held))
<1>1. drv[n].held \in 0..(mix.time + LeaseMs) /\ drv[n].held \in Nat BY MixFacts DEF DrvInv
<1>2. Driver(n) \in Holders BY Zenon DEF Clients, Holders
<1>3. Backed(lease', now', Driver(n), drv[n].held) BY <1>1, <1>2, Zenon DEF DrvInv, Steady
<1>4. m.client = Driver(n) BY NoneIsNoMessage, Zenon DEF DrvInv
<1>5. r.lease.expiry \in Nat /\ r.lease.expiry <= mix.time + LeaseMs
  BY Zenon DEF Replies, Leases, Sound
<1>6. r.lease.expiry \in 0..(mix.time + LeaseMs) /\ 0 \in 0..(mix.time + LeaseMs) BY <1>5, MixFacts
<1>7. Backed(lease', now', r.lease.holder, r.lease.expiry) BY Zenon DEF Sound
<1>8. Backed(lease', now', Driver(n), 0) BY DEF Backed, Steady
<1>9. CASE m.op = "get"
  BY <1>1, <1>3, <1>6, <1>7, <1>9, Zenon DEF DriverHeld
<1>10. CASE m.op # "get"
  <2>1. r.granted => r.lease.holder = Driver(n) BY <1>4, <1>10, Zenon DEF Sound
  <2> QED BY <1>6, <1>7, <1>8, <1>10, <2>1, Zenon DEF DriverHeld
<1> QED BY <1>9, <1>10, Zenon

LEMMA DriverCompletes ==
    ASSUME CoreTypes, DrvInv, Steady, NEW n \in Node, NEW m \in Message, NEW r \in Replies,
           Sound(mix, lease', now', m, r),
           NEW io, IOInv(mix, lease', now', io), drv[n].pending = m, DriverComplete(n, m, r, io)
    PROVE  /\ DrvInv' /\ sends' \in 0..MaxMessages /\ UNCHANGED <<emb, probed, conn>>
           /\ IOInv(mix, lease', now', IONext)
<1> DEFINE held == DriverHeld(n, m, r, drv[n].held)
           follows == m.op = "get" /\ r.lease = Free /\ sends < MaxMessages
           next == Mint(Driver(n), "set")
<1>1. held \in 0..(mix.time + LeaseMs) /\ Backed(lease', now', Driver(n), held)
  BY DriverHeldBacked, Zenon
<1>2. /\ sends' = IF follows THEN sends + 1 ELSE sends
      /\ UNCHANGED <<emb, probed, conn>>
      /\ \E o \in IF follows THEN Routed(n, next, io) ELSE {[pending |-> None, io |-> io]} :
           /\ drv' = [drv EXCEPT ![n] = [pending |-> o.pending, held |-> held]]
           /\ Becomes(o.io)
  BY Zenon DEF DriverComplete
<1>3. PICK o \in IF follows THEN Routed(n, next, io) ELSE {[pending |-> None, io |-> io]} :
           /\ drv' = [drv EXCEPT ![n] = [pending |-> o.pending, held |-> held]]
           /\ Becomes(o.io)
  BY <1>2, Zenon
<1>4. now' \in Nat BY Zenon DEF Steady
<1> HIDE DEF held
<1>5. CASE follows
  <2>1. /\ next \in Message /\ next.client = Driver(n) /\ sends + 1 \in 0..MaxMessages
    BY <1>5, MintTypes, Zenon DEF Clients
  <2>2. o \in Routed(n, next, io) BY <1>3, <1>5, Zenon
  <2> HIDE DEF next
  <2>3. o.pending \in {next, None} /\ IOInv(mix, lease', now', o.io)
    BY <1>4, <2>1, <2>2, RoutedKeeps, Zenon
  <2>4. o.pending \in Pendings /\ (o.pending # None => o.pending.client = Driver(n))
    BY <2>1, <2>3, Zenon DEF Pendings
  <2>5. DrvInv' BY <1>1, <1>3, <2>4, DrvMoves, Zenon
  <2>6. IONext = o.io BY <1>3, <2>3, Zenon DEF Becomes, InFlight, IONext, IOInv, IOs
  <2> QED BY <1>2, <1>5, <2>1, <2>3, <2>5, <2>6, Zenon
<1>6. CASE ~follows
  <2>1. o.io = io /\ o.pending = None /\ o.pending \in Pendings BY <1>3, <1>6 DEF Pendings
  <2>2. DrvInv' BY <1>1, <1>3, <2>1, DrvMoves, Zenon
  <2>3. IONext = io BY <1>3, <2>1, Zenon DEF Becomes, InFlight, IONext, IOInv, IOs
  <2>4. sends' \in 0..MaxMessages BY <1>2, <1>6, Zenon DEF CoreTypes
  <2> QED BY <1>2, <2>2, <2>3, <2>4, Zenon
<1> QED BY <1>5, <1>6, Zenon

(* --------------------------- claiming a reply ---------------------------- *)

LEMMA BecomesNext == ASSUME NEW io \in IOs, Becomes(io) PROVE IONext = io
BY Zenon DEF Becomes, InFlight, IONext, IOs

LEMMA ConnReplies ==
    ASSUME ConnInv, NEW n \in Node, NEW m \in Message, NEW r, NEW io, ConnClaims(n, m, r, io)
    PROVE  ConnInv' /\ NoSubmit(io) /\ UNCHANGED <<drv, emb, probed>>
<1>1. PICK c \in Waiting(n, m) : conn' = ConnReply(c, m) BY Zenon DEF ConnClaims
<1>2. c \in Tcp /\ conn[c].pending = m BY Zenon DEF Waiting
<1>3. conn[c] \in [at : Node \union {Nobody}, pending : Pendings, verb : Pendings,
                   got : Pendings, lines : Nat]
  BY <1>2, Zenon DEF ConnInv
<1> DEFINE k == [conn[c] EXCEPT !.pending = None, !.got = m]
<1>4. conn' = [conn EXCEPT ![c] = k] BY <1>1, <1>2, Zenon DEF ConnReply, ConnInv
<1>5. conn[c].pending \in {None, conn[c].verb} BY <1>2, Zenon DEF ConnInv
<1>6. m = conn[c].verb BY <1>2, <1>5, NoneIsNoMessage, Zenon
<1>7. PICK o \in [at : Node \union {Nobody}, pending : Pendings, verb : Pendings,
                  got : Pendings, lines : Nat] : o = conn[c]
  BY <1>3, Zenon
<1>8. k = [at |-> o.at, pending |-> None, verb |-> o.verb, got |-> m, lines |-> o.lines]
  <2>1. k = [o EXCEPT !.pending = None, !.got = m] BY <1>7, Zenon
  <2>2. o = [at |-> o.at, pending |-> o.pending, verb |-> o.verb, got |-> o.got, lines |-> o.lines]
    BY <1>7, Zenon
  <2> HIDE DEF k
  <2> QED BY <2>1, <2>2, Zenon
<1>9. k \in [at : Node \union {Nobody}, pending : Pendings, verb : Pendings,
             got : Pendings, lines : Nat]
  BY <1>7, <1>8, Zenon DEF Pendings
<1>10. k.pending \in {None, k.verb} /\ k.got \in {None, k.verb} BY <1>6, <1>7, <1>8, Zenon
<1> HIDE DEF k
<1>11. ConnInv' BY <1>2, <1>4, <1>9, <1>10, ConnMoves, Zenon
<1> QED BY <1>11, Zenon DEF ConnClaims

LEMMA NoSubmitNext ==
    ASSUME CoreTypes, NEW io, IOInv(mix, lease', now', io), NoSubmit(io)
    PROVE  sends' \in 0..MaxMessages /\ IOInv(mix, lease', now', IONext)
<1>1. io \in IOs /\ Becomes(io) /\ sends' = sends BY Zenon DEF NoSubmit, IOInv
<1> QED BY <1>1, BecomesNext, Zenon DEF CoreTypes

LEMMA ClaimKeeps ==
    ASSUME CoreTypes, DrvInv, EmbInv, ConnInv, Steady,
           NEW n \in Node, NEW m \in Message, NEW r \in Replies, Sound(mix, lease', now', m, r),
           NEW io, IOInv(mix, lease', now', io), Claim(n, m, r, io)
    PROVE  /\ DrvInv' /\ EmbInv' /\ ConnInv' /\ sends' \in 0..MaxMessages
           /\ IOInv(mix, lease', now', IONext)
<1>1. ASSUME UNCHANGED <<emb, probed>> PROVE EmbInv' BY <1>1, Zenon DEF EmbInv
<1>2. ASSUME UNCHANGED conn PROVE ConnInv' BY <1>2, Zenon DEF ConnInv
<1>3. CASE drv[n].pending = m /\ DriverComplete(n, m, r, io)
  BY <1>1, <1>2, <1>3, DriverCompletes, Zenon
<1>4. CASE emb[n].pending = m /\ EmbeddedComplete(n, m, r, io)
  BY <1>2, <1>4, EmbeddedCompletes, DrvStays, Zenon
<1>5. CASE ConnClaims(n, m, r, io)
  BY <1>1, <1>5, ConnReplies, NoSubmitNext, DrvStays, Zenon
<1>6. CASE LateAck(n, m, io)
  <2>1. NoSubmit(io) /\ UNCHANGED <<drv, emb, probed, conn>> BY <1>6, Zenon DEF LateAck
  <2> QED BY <1>1, <1>2, <2>1, NoSubmitNext, DrvStays, Zenon
<1> QED BY <1>3, <1>4, <1>5, <1>6, Zenon DEF Claim

FwdTypes == fwd \in [Node -> SUBSET [msg : Message, from : Node]]

LEMMA FwdDrops ==
    ASSUME FwdTypes, NEW n \in Node, NEW S, fwd' = [fwd EXCEPT ![n] = @ \ S]
    PROVE  FwdTypes'
BY Zenon DEF FwdTypes

\* The rows of a message turn into sound responses.
LEMMA RowsAnswered ==
    ASSUME FwdTypes, NEW n \in Node, NEW m \in Message, NEW r \in Replies,
           NEW x, NEW l, NEW t, Sound(x, l, t, m, r), NEW io, IOInv(x, l, t, io)
    PROVE  IOInv(x, l, t, [io EXCEPT !.net = @ \union {Datagram("response", n, f.from, m, r) :
                                                         f \in Rows(n, m)}])
<1> DEFINE answers == {Datagram("response", n, f.from, m, r) : f \in Rows(n, m)}
<1>1. \A f \in Rows(n, m) : f.from \in Node BY DEF FwdTypes, Rows
<1>2. ASSUME NEW d \in answers PROVE d \in Packets /\ Sound(x, l, t, d.msg, d.reply)
  BY <1>1, PacketTypes
<1> HIDE DEF answers
<1>3. io \in IOs BY Zenon DEF IOInv
<1>4. io = [prop |-> io.prop, owed |-> io.owed, net |-> io.net] BY <1>3, Zenon DEF IOs
<1>5. [io EXCEPT !.net = @ \union answers]
        = [prop |-> io.prop, owed |-> io.owed, net |-> io.net \union answers]
  BY <1>4
<1>6. [io EXCEPT !.net = @ \union answers] \in IOs BY <1>2, <1>3, <1>5, Zenon DEF IOs
<1>7. [io EXCEPT !.net = @ \union answers].net = io.net \union answers BY <1>5, Zenon
<1>8. IOInv(x, l, t, [io EXCEPT !.net = @ \union answers]) BY <1>2, <1>6, <1>7, Zenon DEF IOInv
<1> QED BY <1>8, Zenon DEF answers

LEMMA ReplyOutKeeps ==
    ASSUME CoreTypes, DrvInv, EmbInv, ConnInv, Steady,
           NEW n \in Node, NEW m \in Message, NEW r \in Replies, Sound(mix, lease', now', m, r),
           NEW io, IOInv(mix, lease', now', io), ReplyOut(n, m, r, io)
    PROVE  /\ DrvInv' /\ EmbInv' /\ ConnInv' /\ sends' \in 0..MaxMessages /\ FwdTypes'
           /\ IOInv(mix, lease', now', IONext)
<1>1. FwdTypes BY Zenon DEF FwdTypes, CoreTypes
<1> DEFINE io2 == [io EXCEPT !.net = @ \union {Datagram("response", n, f.from, m, r) :
                                                 f \in Rows(n, m)}]
<1>2. CASE /\ fwd' = [fwd EXCEPT ![n] = @ \ Rows(n, m)] /\ NoSubmit(io2)
           /\ UNCHANGED <<drv, emb, probed, conn>>
  <2>1. IOInv(mix, lease', now', io2) BY <1>1, RowsAnswered, Zenon
  <2> HIDE DEF io2
  <2>2. sends' \in 0..MaxMessages /\ IOInv(mix, lease', now', IONext) BY <1>2, <2>1, NoSubmitNext, Zenon
  <2>3. FwdTypes' BY <1>1, <1>2, FwdDrops, Zenon
  <2>4. EmbInv' BY <1>2, Zenon DEF EmbInv
  <2>5. ConnInv' BY <1>2, Zenon DEF ConnInv
  <2> QED BY <1>2, <2>2, <2>3, <2>4, <2>5, DrvStays, Zenon
<1>3. CASE Claim(n, m, r, io) /\ UNCHANGED fwd
  <2>1. FwdTypes' BY <1>1, <1>3, Zenon DEF FwdTypes
  <2> QED BY <1>3, <2>1, ClaimKeeps, Zenon
<1> QED BY <1>2, <1>3, Zenon DEF ReplyOut

(* --------------------------- below the hosts ----------------------------- *)

LEMMA ReportsStaySound ==
    ASSUME CoreTypes, LeaseInv, Steady
    PROVE  /\ \A d \in done : Sound(mix, lease', now', d.msg, d.reply)
           /\ \A d \in net : Sound(mix, lease', now', d.msg, d.reply)
           /\ IOInv(mix, lease', now', IO)
<1>1. ASSUME NEW m, NEW r \in Replies, Sound(mix, lease, now, m, r)
      PROVE  Sound(mix, lease', now', m, r)
  <2>1. r.lease.holder \in Holders /\ r.lease.expiry \in Nat BY Zenon DEF Replies, Leases
  <2> QED BY <1>1, <2>1, Zenon DEF Sound, Steady
<1>2. \A d \in done : d.reply \in Replies BY Zenon DEF CoreTypes
<1>3. \A d \in net : d.reply \in Replies BY Zenon DEF CoreTypes, Packets
<1>4. \A d \in done : Sound(mix, lease', now', d.msg, d.reply) BY <1>1, <1>2, Zenon DEF LeaseInv
<1>5. \A d \in net : Sound(mix, lease', now', d.msg, d.reply) BY <1>1, <1>3, Zenon DEF LeaseInv
<1>6. IO \in IOs /\ IO.net = net BY Zenon DEF CoreTypes, IO, IOs
<1> QED BY <1>4, <1>5, <1>6, Zenon DEF IOInv

\* A step that moves only what the hosts share.
LEMMA CoreStays ==
    ASSUME CoreTypes, LeaseInv, UNCHANGED <<mix, leader, status, done, lease, now>>,
           sends' \in 0..MaxMessages, FwdTypes', IOInv(mix, lease', now', IONext)
    PROVE  CoreTypes' /\ LeaseInv'
<1>1. prop' \subseteq Message /\ owed' \in [Node -> SUBSET Message] /\ net' \subseteq Packets
  BY Zenon DEF IOInv, IOs, IONext
<1>2. \A d \in net' : Sound(mix, lease', now', d.msg, d.reply) BY Zenon DEF IOInv, IONext
<1>3. CoreTypes' BY <1>1, Zenon DEF CoreTypes, FwdTypes
<1>4. LeaseInv' BY <1>2, Zenon DEF LeaseInv
<1> QED BY <1>3, <1>4, Zenon

LEMMA CoreParts ==
    ASSUME HostInv
    PROVE  CoreTypes /\ LeaseInv /\ DrvInv /\ EmbInv /\ ConnInv /\ FwdTypes
BY Zenon DEF HostInv, CoreTypes, FwdTypes

LEMMA EmbStays == EmbInv /\ UNCHANGED <<emb, probed>> => EmbInv'
BY Zenon DEF EmbInv

LEMMA ConnStays == ConnInv /\ UNCHANGED conn => ConnInv'
BY Zenon DEF ConnInv

LEMMA StatusSet ==
    ASSUME CoreTypes, NEW n \in Node, NEW b \in BOOLEAN, NEW l \in Node \union {Nobody},
           status' = [status EXCEPT ![n] = [normal |-> b, leader |-> l]]
    PROVE  status' \in [Node -> [normal : BOOLEAN, leader : Node \union {Nobody}]]
BY Zenon DEF CoreTypes

\* An election or a change of a node's report.
LEMMA CoreMoves ==
    ASSUME HostInv, UNCHANGED <<mix, done, lease, now, owed, sends, hostVars, net>>,
           leader' \in Node, prop' \subseteq prop,
           status' \in [Node -> [normal : BOOLEAN, leader : Node \union {Nobody}]]
    PROVE  HostInv'
<1>1. CoreTypes' BY CoreParts, Zenon DEF CoreTypes, hostVars
<1>2. LeaseInv' BY CoreParts, Zenon DEF LeaseInv
<1>3. DrvInv' /\ EmbInv' /\ ConnInv'
  BY CoreParts, StillSteady, DrvStays, EmbStays, ConnStays, Zenon DEF hostVars
<1> QED BY <1>1, <1>2, <1>3, Zenon DEF HostInv

LEMMA CoreKeeps ==
    ASSUME HostInv, NEW n \in Node, Unsettle(n) \/ Elect(n) \/ LearnLeader(n)
    PROVE  HostInv'
<1>1. CoreTypes /\ leader \in Node /\ status[n].leader \in Node \union {Nobody}
  BY CoreParts, Zenon DEF CoreTypes
<1>2. CASE Unsettle(n)
  <2>1. PICK l \in {status[n].leader, Nobody} :
            status' = [status EXCEPT ![n] = [normal |-> FALSE, leader |-> l]]
    BY <1>2, Zenon DEF Unsettle
  <2>2. l \in Node \union {Nobody} BY <1>1, Zenon
  <2>3. status' \in [Node -> [normal : BOOLEAN, leader : Node \union {Nobody}]]
    BY <1>1, <2>1, <2>2, StatusSet, Zenon
  <2>4. UNCHANGED <<mix, leader, prop, done, lease, now, owed, sends, hostVars, net>>
    BY <1>2, Zenon DEF Unsettle
  <2> QED BY <1>1, <2>3, <2>4, CoreMoves, Zenon
<1>3. CASE Elect(n)
  <2>1. status' \in [Node -> [normal : BOOLEAN, leader : Node \union {Nobody}]]
    BY <1>1, <1>3, StatusSet, Zenon DEF Elect
  <2>2. /\ leader' \in Node /\ prop' \subseteq prop
        /\ UNCHANGED <<mix, done, lease, now, owed, sends, hostVars, net>>
    BY <1>3, Zenon DEF Elect
  <2> QED BY <2>1, <2>2, CoreMoves, Zenon
<1>4. CASE LearnLeader(n)
  <2>1. status' \in [Node -> [normal : BOOLEAN, leader : Node \union {Nobody}]]
    BY <1>1, <1>4, StatusSet, Zenon DEF LearnLeader
  <2>2. UNCHANGED <<mix, leader, prop, done, lease, now, owed, sends, hostVars, net>>
    BY <1>4, Zenon DEF LearnLeader
  <2> QED BY <1>1, <2>1, <2>2, CoreMoves, Zenon
<1> QED BY <1>2, <1>3, <1>4, Zenon

LEMMA ClockKeeps == HostInv /\ Clock => HostInv'
<1> SUFFICES ASSUME HostInv, Clock PROVE HostInv'
  BY Zenon
<1>1. /\ now < mix.time /\ now' = now + 1
      /\ UNCHANGED <<mix, leader, status, prop, done, lease, owed, sends, hostVars, net>>
  BY Zenon DEF Clock
<1>2. CoreTypes /\ LeaseInv /\ lease.expiry \in Nat BY CoreParts, Zenon DEF CoreTypes, Leases
<1>3. Steady BY <1>1, <1>2, MixFacts DEF Steady, Backed
<1>4. now' \in 1..mix.time BY <1>1, <1>2, MixFacts
<1>5. CoreTypes' BY <1>1, <1>2, <1>4, Zenon DEF CoreTypes, hostVars
<1>6. lease.expiry <= now + 1 + LeaseMs BY <1>2, MixFacts DEF LeaseInv
<1>7. LeaseInv' BY <1>1, <1>2, <1>3, <1>6, ReportsStaySound, Zenon DEF LeaseInv
<1>8. DrvInv' /\ EmbInv' /\ ConnInv'
  BY <1>1, <1>3, CoreParts, DrvStays, EmbStays, ConnStays, Zenon DEF hostVars
<1> QED BY <1>5, <1>7, <1>8, Zenon DEF HostInv

\* Service::execute at the commit: the reply is sound in the state it leaves, and
\* what was backed stays backed.
LEMMA ExecutionSound ==
    ASSUME CoreTypes, LeaseInv, NEW m \in Message, NEW r, r = Execution(m),
           NEW l, l = IF m.op # "get" /\ r.granted THEN r.lease ELSE lease
    PROVE  /\ r \in Replies /\ l \in Leases /\ l.expiry <= now + LeaseMs
           /\ Sound(mix, l, now, m, r)
           /\ \A h \in Holders, e \in Nat : Backed(lease, now, h, e) => Backed(l, now, h, e)
<1>1. /\ lease \in Leases /\ lease.expiry \in Nat /\ lease.expiry <= now + LeaseMs
      /\ m.client \in Holders
  BY Zenon DEF CoreTypes, LeaseInv, Leases, Message, Holders
<1>2. /\ now \in Nat /\ now <= mix.time /\ mix.time \in Nat /\ LeaseMs \in Nat BY MixFacts, Zenon
<1>3. Free \in Leases /\ Free.expiry = 0 BY Zenon DEF Free, Leases, Holders
<1>4. CASE m.op = "get"
  <2>1. l = lease BY <1>4, Zenon
  <2>2. r = [granted |-> TRUE, lease |-> IF lease.expiry > now THEN lease ELSE Free, error |-> FALSE]
    BY <1>4, Zenon DEF Execution
  <2>3. r.lease \in {lease, Free} /\ r \in Replies BY <1>1, <1>3, <2>2 DEF Replies
  <2>4. Sound(mix, l, now, m, r) BY <1>1, <1>2, <1>3, <1>4, <2>1, <2>3 DEF Sound, Backed
  <2> QED BY <1>1, <2>1, <2>3, <2>4, Zenon
<1>5. CASE m.op # "get" /\ lease.expiry > now /\ lease.holder # m.client
  <2>1. r = [granted |-> FALSE, lease |-> lease, error |-> FALSE] BY <1>5, Zenon DEF Execution
  <2>2. r \in Replies /\ l = lease /\ r.lease = lease BY <1>1, <2>1 DEF Replies
  <2>3. Sound(mix, l, now, m, r) BY <1>1, <1>2, <2>1, <2>2 DEF Sound, Backed
  <2> QED BY <1>1, <2>2, <2>3, Zenon
<1>6. CASE m.op # "get" /\ ~(lease.expiry > now /\ lease.holder # m.client)
  <2>1. r = [granted |-> TRUE, error |-> FALSE,
             lease |-> [holder |-> m.client, expiry |-> now + LeaseMs]]
    BY <1>6, Zenon DEF Execution
  <2>2. l = [holder |-> m.client, expiry |-> now + LeaseMs] /\ l = r.lease BY <1>6, <2>1
  <2>3. l \in Leases /\ r \in Replies BY <1>1, <1>2, <2>1, <2>2 DEF Leases, Replies
  <2>4. Sound(mix, l, now, m, r) BY <1>2, <2>1, <2>2 DEF Sound, Backed
  <2>5. ASSUME NEW h \in Holders, NEW e \in Nat, Backed(lease, now, h, e) PROVE Backed(l, now, h, e)
    BY <1>1, <1>2, <1>6, <2>2, <2>5 DEF Backed
  <2> QED BY <1>2, <2>2, <2>3, <2>4, <2>5
<1> QED BY <1>4, <1>5, <1>6, Zenon

\* The message leaves the tables it was in.
LEMMA TablesShrink ==
    ASSUME CoreTypes, NEW l, NEW t, IOInv(mix, l, t, IO), NEW n \in Node, NEW m
    PROVE  /\ IOInv(mix, l, t, [IO EXCEPT !.prop = @ \ {m}, !.owed[n] = @ \ {m}])
           /\ IOInv(mix, l, t, [IO EXCEPT !.owed[n] = @ \ {m}])
<1> DEFINE fewer == [owed EXCEPT ![n] = @ \ {m}]
<1>1. fewer \in [Node -> SUBSET Message] BY Zenon DEF CoreTypes
<1>2. /\ [IO EXCEPT !.prop = @ \ {m}, !.owed[n] = @ \ {m}]
            = [prop |-> prop \ {m}, owed |-> fewer, net |-> net]
      /\ [IO EXCEPT !.owed[n] = @ \ {m}] = [prop |-> prop, owed |-> fewer, net |-> net]
  <2>1. IO.owed = owed /\ IO.prop = prop BY Zenon DEF IO
  <2>2. [IO EXCEPT !.prop = @ \ {m}, !.owed[n] = @ \ {m}]
            = [IO EXCEPT !.prop = prop \ {m}, !.owed = fewer]
    BY <2>1, Zenon DEF IO
  <2>3. [IO EXCEPT !.owed[n] = @ \ {m}] = [IO EXCEPT !.owed = fewer] BY <2>1, Zenon DEF IO
  <2>4. IO = [prop |-> prop, owed |-> owed, net |-> net] BY Zenon DEF IO
  <2> HIDE DEF fewer
  <2>5. ASSUME NEW q, q = [IO EXCEPT !.prop = prop \ {m}, !.owed = fewer]
        PROVE  q = [prop |-> prop \ {m}, owed |-> fewer, net |-> net]
    BY <2>4, <2>5, Zenon
  <2>6. ASSUME NEW q, q = [IO EXCEPT !.owed = fewer]
        PROVE  q = [prop |-> prop, owed |-> fewer, net |-> net]
    BY <2>4, <2>6, Zenon
  <2> QED BY <2>2, <2>3, <2>5, <2>6, Zenon
<1> HIDE DEF fewer
<1>3. prop \subseteq Message /\ net \subseteq Packets BY Zenon DEF CoreTypes
<1>4. IO.net = net BY Zenon DEF IO
<1> QED BY <1>1, <1>2, <1>3, <1>4, Zenon DEF IOInv, IOs

LEMMA CommitKeeps == HostInv /\ Commit => HostInv'
<1> SUFFICES ASSUME HostInv, Commit PROVE HostInv'
  OBVIOUS
<1>1. PICK m \in prop :
        LET r == Execution(m)
            io == [IO EXCEPT !.prop = @ \ {m}, !.owed[leader] = @ \ {m}]
        IN  /\ done' = done \union {[msg |-> m, reply |-> r]}
            /\ lease' = IF m.op # "get" /\ r.granted THEN r.lease ELSE lease
            /\ \/ m \in owed[leader] /\ ReplyOut(leader, m, r, io)
               \/ m \notin owed[leader] /\ NoSubmit(io) /\ UNCHANGED hostVars
  BY Zenon DEF Commit
<1> DEFINE r == Execution(m)
           io == [IO EXCEPT !.prop = @ \ {m}, !.owed[leader] = @ \ {m}]
<1>2. /\ UNCHANGED <<mix, leader, status, now>> BY Zenon DEF Commit
<1>3. CoreTypes /\ LeaseInv /\ DrvInv /\ EmbInv /\ ConnInv /\ FwdTypes /\ leader \in Node /\ m \in Message
  BY CoreParts, Zenon DEF CoreTypes
<1>4. /\ r \in Replies /\ lease' \in Leases /\ lease'.expiry <= now + LeaseMs
      /\ Sound(mix, lease', now, m, r)
      /\ \A h \in Holders, e \in Nat : Backed(lease, now, h, e) => Backed(lease', now, h, e)
  BY <1>1, <1>3, ExecutionSound, Zenon
<1>5. Steady BY <1>2, <1>3, <1>4, MixFacts, Zenon DEF Steady
<1>6. IOInv(mix, lease', now', io) BY <1>3, <1>5, ReportsStaySound, TablesShrink, Zenon
<1>7. done' = done \union {[msg |-> m, reply |-> r]} BY <1>1, Zenon
<1>8. \/ ReplyOut(leader, m, r, io)
      \/ NoSubmit(io) /\ UNCHANGED hostVars
  BY <1>1, Zenon
<1> HIDE DEF r, io
<1>9. /\ DrvInv' /\ EmbInv' /\ ConnInv' /\ sends' \in 0..MaxMessages /\ FwdTypes'
      /\ IOInv(mix, lease', now', IONext)
  <2>1. CASE ReplyOut(leader, m, r, io) BY <1>2, <1>3, <1>4, <1>5, <1>6, <2>1, ReplyOutKeeps, Zenon
  <2>2. CASE NoSubmit(io) /\ UNCHANGED hostVars
    <3>1. UNCHANGED <<drv, emb, probed, conn, fwd>> BY <2>2, Zenon DEF hostVars
    <3>2. FwdTypes' BY <1>3, <3>1, Zenon DEF FwdTypes
    <3> QED BY <1>3, <1>5, <1>6, <2>2, <3>1, <3>2, NoSubmitNext, DrvStays, EmbStays, ConnStays, Zenon
  <2> QED BY <1>8, <2>1, <2>2, Zenon
<1>10. done' \subseteq [msg : Message, reply : Replies] BY <1>3, <1>4, <1>7 DEF CoreTypes
<1>11. \A d \in done' : Sound(mix, lease', now', d.msg, d.reply)
  BY <1>2, <1>3, <1>4, <1>5, <1>7, ReportsStaySound
<1>12. /\ prop' \subseteq Message /\ owed' \in [Node -> SUBSET Message] /\ net' \subseteq Packets
       /\ \A d \in net' : Sound(mix, lease', now', d.msg, d.reply)
  BY <1>9, Zenon DEF IOInv, IOs, IONext
<1>13. CoreTypes' BY <1>2, <1>3, <1>4, <1>9, <1>10, <1>12, Zenon DEF CoreTypes, FwdTypes
<1>14. LeaseInv' BY <1>2, <1>4, <1>11, <1>12, Zenon DEF LeaseInv
<1> QED BY <1>9, <1>13, <1>14, Zenon DEF HostInv

LEMMA ReplyToSound ==
    ASSUME CoreTypes, LeaseInv, Steady, NEW m, IsDone(m)
    PROVE  ReplyTo(m) \in Replies /\ Sound(mix, lease', now', m, ReplyTo(m))
<1>1. \E d \in done : d.msg = m BY Zenon DEF IsDone
<1> DEFINE d == CHOOSE d \in done : d.msg = m
<1>2. d \in done /\ d.msg = m BY <1>1, Zenon
<1>3. ReplyTo(m) = d.reply BY Zenon DEF ReplyTo
<1> HIDE DEF d
<1> QED BY <1>2, <1>3, ReportsStaySound, Zenon DEF CoreTypes

LEMMA ReplyDueKeeps == ASSUME HostInv, NEW n \in Node, ReplyDue(n) PROVE HostInv'
<1>1. PICK m \in owed[n] :
          IsDone(m) /\ ReplyOut(n, m, ReplyTo(m), [IO EXCEPT !.owed[n] = @ \ {m}])
  BY Zenon DEF ReplyDue
<1>2. UNCHANGED <<mix, leader, status, done, lease, now>> BY Zenon DEF ReplyDue
<1>3. CoreTypes /\ LeaseInv /\ DrvInv /\ EmbInv /\ ConnInv /\ m \in Message
  BY CoreParts, Zenon DEF CoreTypes
<1>4. Steady BY <1>2, <1>3, StillSteady, Zenon
<1>5. ReplyTo(m) \in Replies /\ Sound(mix, lease', now', m, ReplyTo(m))
  BY <1>1, <1>3, <1>4, ReplyToSound, Zenon
<1>6. IOInv(mix, lease', now', [IO EXCEPT !.owed[n] = @ \ {m}])
  BY <1>3, <1>4, ReportsStaySound, TablesShrink, Zenon
<1>7. /\ DrvInv' /\ EmbInv' /\ ConnInv' /\ sends' \in 0..MaxMessages /\ FwdTypes'
      /\ IOInv(mix, lease', now', IONext)
  BY <1>1, <1>3, <1>4, <1>5, <1>6, ReplyOutKeeps, Zenon
<1> QED BY <1>2, <1>3, <1>7, CoreStays, Zenon DEF HostInv

(* ------------------------------ the actions ------------------------------ *)

\* A step of a client that leaves everything else alone.
LEMMA LocalStep ==
    ASSUME HostInv, UNCHANGED <<coreVars, owed, sends, net>>, FwdTypes', DrvInv', EmbInv', ConnInv'
    PROVE  HostInv'
<1>1. CoreTypes' BY CoreParts, Zenon DEF CoreTypes, FwdTypes, coreVars
<1>2. LeaseInv' BY CoreParts, Zenon DEF LeaseInv, coreVars
<1> QED BY <1>1, <1>2, Zenon DEF HostInv

LEMMA DriverDropsKeeps ==
    ASSUME HostInv, NEW n \in Node, DriverUnsettled(n) \/ DriverDeadline(n)
    PROVE  HostInv'
<1>1. UNCHANGED <<coreVars, owed, sends, emb, probed, conn, fwd, net>>
  BY Zenon DEF DriverUnsettled, DriverDeadline
<1>2. CoreTypes /\ DrvInv /\ EmbInv /\ ConnInv /\ FwdTypes BY CoreParts, Zenon
<1>3. Steady BY <1>1, <1>2, StillSteady, Zenon DEF coreVars
<1>4. drv[n].held \in 0..(mix.time + LeaseMs) /\ Backed(lease, now, Driver(n), drv[n].held)
  BY <1>2, Zenon DEF DrvInv
<1>5. 0 \in 0..(mix.time + LeaseMs) /\ Backed(lease, now, Driver(n), 0)
  BY <1>2, MixFacts DEF Backed
<1>6. PICK h \in {0, drv[n].held} : drv' = [drv EXCEPT ![n] = [pending |-> None, held |-> h]]
  BY <1>2 DEF DriverUnsettled, DriverDeadline, DrvInv
<1>7. /\ h \in 0..(mix.time + LeaseMs) /\ Backed(lease', now', Driver(n), h) /\ None \in Pendings
  BY <1>1, <1>4, <1>5, Zenon DEF coreVars, Pendings
<1>8. DrvInv' BY <1>2, <1>3, <1>6, <1>7, DrvMoves, Zenon
<1>9. FwdTypes' BY <1>1, <1>2, Zenon DEF FwdTypes
<1> QED BY <1>1, <1>2, <1>8, <1>9, EmbStays, ConnStays, LocalStep, Zenon

LEMMA DriverSubmitKeeps ==
    ASSUME HostInv, NEW n \in Node, NEW op \in {"get", "renew"}, NEW held \in {0, drv[n].held},
           DriverSubmit(n, op, held)
    PROVE  HostInv'
<1> DEFINE m == Mint(Driver(n), op)
<1>1. /\ sends < MaxMessages /\ sends' = sends + 1
      /\ UNCHANGED <<mix, leader, status, done, lease, now, emb, probed, conn, fwd>>
      /\ \E o \in Routed(n, m, IO) :
             /\ drv' = [drv EXCEPT ![n] = [pending |-> o.pending, held |-> held]]
             /\ Becomes(o.io)
  BY Zenon DEF DriverSubmit
<1>2. CoreTypes /\ LeaseInv /\ DrvInv /\ EmbInv /\ ConnInv /\ FwdTypes BY CoreParts, Zenon
<1>3. m \in Message /\ m.client = Driver(n) /\ sends' \in 0..MaxMessages
  BY <1>1, <1>2, MintTypes DEF Clients
<1>4. Steady /\ now' \in Nat BY <1>1, <1>2, StillSteady, Zenon DEF Steady
<1>5. IOInv(mix, lease', now', IO) BY <1>2, <1>4, ReportsStaySound, Zenon
<1>6. PICK o \in Routed(n, m, IO) :
             /\ drv' = [drv EXCEPT ![n] = [pending |-> o.pending, held |-> held]]
             /\ Becomes(o.io)
  BY <1>1, Zenon
<1> HIDE DEF m
<1>7. o.pending \in {m, None} /\ IOInv(mix, lease', now', o.io)
  BY <1>2, <1>3, <1>4, <1>5, RoutedKeeps, Zenon
<1>8. held \in 0..(mix.time + LeaseMs) /\ Backed(lease', now', Driver(n), held)
  <2>1. 0 \in 0..(mix.time + LeaseMs) /\ Backed(lease, now, Driver(n), 0)
    BY <1>2, MixFacts DEF Backed
  <2>2. drv[n].held \in 0..(mix.time + LeaseMs) /\ Backed(lease, now, Driver(n), drv[n].held)
    BY <1>2, Zenon DEF DrvInv
  <2> QED BY <1>1, <2>1, <2>2, Zenon
<1>9. o.pending \in Pendings /\ (o.pending # None => o.pending.client = Driver(n))
  BY <1>3, <1>7, Zenon DEF Pendings
<1>10. DrvInv' BY <1>2, <1>4, <1>6, <1>8, <1>9, DrvMoves, Zenon
<1>11. IONext = o.io BY <1>6, <1>7, BecomesNext, Zenon DEF IOInv
<1>12. FwdTypes' BY <1>1, <1>2, Zenon DEF FwdTypes
<1>13. CoreTypes' /\ LeaseInv' BY <1>1, <1>2, <1>3, <1>7, <1>11, <1>12, CoreStays, Zenon
<1> QED BY <1>1, <1>2, <1>10, <1>13, EmbStays, ConnStays, Zenon DEF HostInv

LEMMA DriverActsKeeps ==
    ASSUME HostInv, NEW n \in Node, DriverGet(n) \/ DriverRenew(n)
    PROVE  HostInv'
BY DriverSubmitKeeps, Zenon DEF DriverGet, DriverRenew

LEMMA EmbeddedSubmitKeeps ==
    ASSUME HostInv, NEW n \in Node, NEW g, Gate(n, g, probed), g.on, EmbeddedSubmit(n, g)
    PROVE  HostInv'
<1> DEFINE m == Mint(Contender(n), NextOp(g))
<1>1. /\ sends < MaxMessages /\ sends' = sends + 1
      /\ UNCHANGED <<mix, leader, status, done, lease, now, drv, probed, conn, fwd>>
      /\ \E o \in Routed(n, m, IO) :
             /\ emb' = [emb EXCEPT ![n] = Submitted(n, g, m, o)]
             /\ Becomes(o.io)
  BY Zenon DEF EmbeddedSubmit
<1>2. CoreTypes /\ LeaseInv /\ DrvInv /\ EmbInv /\ ConnInv /\ FwdTypes BY CoreParts, Zenon
<1>3. NextOp(g) \in {"get", "extend"} /\ (NextOp(g) # "get" => probed[n])
  BY Zenon DEF NextOp, Gate
<1>4. m \in Message /\ m.op = NextOp(g) /\ sends' \in 0..MaxMessages
  BY <1>1, <1>2, <1>3, MintTypes DEF Clients
<1>5. Steady /\ now' \in Nat BY <1>1, <1>2, StillSteady, Zenon DEF Steady
<1>6. IOInv(mix, lease', now', IO) BY <1>2, <1>5, ReportsStaySound, Zenon
<1>7. PICK o \in Routed(n, m, IO) :
             /\ emb' = [emb EXCEPT ![n] = Submitted(n, g, m, o)]
             /\ Becomes(o.io)
  BY <1>1, Zenon
<1> HIDE DEF m
<1>8. o.pending \in {m, None} /\ IOInv(mix, lease', now', o.io)
  BY <1>2, <1>4, <1>5, <1>6, RoutedKeeps, Zenon
<1>9. probed' = probed /\ probed \in [Node -> BOOLEAN] BY <1>1, <1>2, Zenon DEF EmbInv
<1>10. Gate(n, Submitted(n, g, m, o), probed) BY <1>2, <1>3, <1>4, <1>8, <1>9, SubmittedGate
<1>11. EmbInv' BY <1>2, <1>7, <1>9, <1>10, EmbMoves, Zenon
<1>12. IONext = o.io BY <1>7, <1>8, BecomesNext, Zenon DEF IOInv
<1>13. FwdTypes' BY <1>1, <1>2, Zenon DEF FwdTypes
<1>14. CoreTypes' /\ LeaseInv' BY <1>1, <1>2, <1>4, <1>8, <1>12, <1>13, CoreStays, Zenon
<1> QED BY <1>1, <1>2, <1>5, <1>11, <1>14, DrvStays, ConnStays, Zenon DEF HostInv

LEMMA EmbeddedActsKeeps ==
    ASSUME HostInv, NEW n \in Node, EmbeddedStart(n) \/ EmbeddedAct(n)
    PROVE  HostInv'
<1>1. EmbInv /\ Gate(n, emb[n], probed) BY CoreParts, GateOf, Zenon
<1>2. CASE EmbeddedStart(n)
  <2> DEFINE g == [emb[n] EXCEPT !.on = TRUE]
  <2>1. ~emb[n].on /\ EmbeddedSubmit(n, g) BY <1>2, Zenon DEF EmbeddedStart
  <2>2. emb[n] \in [on : BOOLEAN, sched : BOOLEAN, holds : BOOLEAN, pending : Pendings]
    BY <1>1, Zenon DEF Gate
  <2>3. /\ g \in [on : BOOLEAN, sched : BOOLEAN, holds : BOOLEAN, pending : Pendings]
        /\ g.on /\ g.holds = emb[n].holds /\ g.pending = emb[n].pending
    BY <2>2, Zenon
  <2> HIDE DEF g
  <2>4. Gate(n, g, probed) BY <1>1, <2>1, <2>3, Zenon DEF Gate
  <2> QED BY <2>1, <2>3, <2>4, EmbeddedSubmitKeeps, Zenon
<1>3. CASE EmbeddedAct(n) BY <1>1, <1>3, EmbeddedSubmitKeeps, Zenon DEF EmbeddedAct
<1> QED BY <1>2, <1>3, Zenon

\* A verb given up for good: absorbed without a reply.
LEMMA GivesUp ==
    ASSUME CoreTypes, EmbInv, NEW n \in Node, NEW m \in Message, emb[n].pending = m,
           emb' = [emb EXCEPT ![n] = Absorbed(n, @, m, NoReply)], UNCHANGED probed
    PROVE  EmbInv'
<1>1. Gate(n, emb[n], probed) /\ probed \in [Node -> BOOLEAN] BY GateOf, Zenon DEF EmbInv
<1>2. emb[n].on /\ (m.op # "get" => probed[n]) BY <1>1, NoneIsNoMessage, Zenon DEF Gate
<1>3. NoReply \in Replies /\ NoReply.error BY NoReplySound, MixFacts, Zenon
<1>4. Gate(n, Absorbed(n, emb[n], m, NoReply), probed) BY <1>1, <1>2, <1>3, AbsorbedGate, Zenon
<1>5. emb' = [emb EXCEPT ![n] = Absorbed(n, emb[n], m, NoReply)] BY Zenon
<1> QED BY <1>1, <1>4, <1>5, EmbMoves, Zenon

LEMMA EmbeddedDropsKeeps ==
    ASSUME HostInv, NEW n \in Node, EmbeddedDeadline(n) \/ EmbeddedSilence(n)
    PROVE  HostInv'
<1>1. UNCHANGED <<coreVars, owed, sends, drv, conn, fwd, net>>
  BY Zenon DEF EmbeddedDeadline, EmbeddedSilence
<1>2. CoreTypes /\ DrvInv /\ EmbInv /\ ConnInv /\ FwdTypes BY CoreParts
<1>3. Steady BY <1>1, <1>2, StillSteady, Zenon DEF coreVars
<1>4. FwdTypes' BY <1>1, <1>2, Zenon DEF FwdTypes
<1>5. EmbInv'
  <2>1. CASE EmbeddedDeadline(n)
    <3>1. PICK m : m = emb[n].pending BY Zenon
    <3>2. m \in Message /\ emb' = [emb EXCEPT ![n] = Absorbed(n, @, m, NoReply)] /\ UNCHANGED probed
      BY <1>2, <2>1, <3>1, Zenon DEF EmbeddedDeadline, EmbInv, Pendings
    <3> QED BY <1>2, <3>1, <3>2, GivesUp, Zenon
  <2>2. CASE EmbeddedSilence(n)
    <3> DEFINE off == [on |-> FALSE, sched |-> FALSE, holds |-> FALSE, pending |-> None]
    <3>1. emb' = [emb EXCEPT ![n] = off] /\ probed' = [probed EXCEPT ![n] = FALSE]
      BY <2>2, Zenon DEF EmbeddedSilence
    <3>2. probed' \in [Node -> BOOLEAN] /\ \A k \in Node \ {n} : probed'[k] = probed[k]
      BY <1>2, <3>1, Zenon DEF EmbInv
    <3>3. Gate(n, off, probed') BY Zenon DEF Gate, Pendings
    <3> HIDE DEF off
    <3> QED BY <1>2, <3>1, <3>2, <3>3, EmbMoves, Zenon
  <2> QED BY <2>1, <2>2, Zenon
<1> QED BY <1>1, <1>2, <1>3, <1>4, <1>5, DrvStays, ConnStays, LocalStep, Zenon

(* ------------------------------- forwarding ------------------------------ *)

\* A step that touches only the wire, the proposals and the forwarded rows.
LEMMA WireStep ==
    ASSUME HostInv, UNCHANGED <<mix, leader, status, done, lease, now, drv, emb, probed, conn>>,
           sends' \in 0..MaxMessages, FwdTypes', IOInv(mix, lease', now', IONext)
    PROVE  HostInv'
BY CoreParts, CoreStays, StillSteady, DrvStays, EmbStays, ConnStays, Zenon DEF HostInv

LEMMA WireSends ==
    ASSUME CoreTypes, NEW l, NEW t, IOInv(mix, l, t, IO),
           NEW kept, kept \subseteq net, NEW S, \A d \in S : d \in Packets /\ Sound(mix, l, t, d.msg, d.reply)
    PROVE  IOInv(mix, l, t, [prop |-> prop, owed |-> owed, net |-> kept \union S])
<1>1. IO.net = net BY Zenon DEF IO
<1> QED BY <1>1, Zenon DEF IOInv, IOs, CoreTypes

LEMMA PacketParts ==
    ASSUME CoreTypes, NEW d \in net
    PROVE  d.to \in Node /\ d.from \in Node /\ d.msg \in Message /\ d.reply \in Replies
BY Zenon DEF CoreTypes, Packets

LEMMA ForwardedKeeps ==
    ASSUME HostInv, NEW d \in net, NEW kept \in {net, net \ {d}},
           ForwardCached(d, kept) \/ ForwardElsewhere(d, kept)
    PROVE  HostInv'
<1>1. CoreTypes /\ LeaseInv /\ FwdTypes /\ kept \subseteq net BY CoreParts, Zenon
<1>2. d.to \in Node /\ d.from \in Node /\ d.msg \in Message BY <1>1, PacketParts, Zenon
<1>3. UNCHANGED <<coreVars, owed, sends, drv, emb, probed, conn>>
  BY Zenon DEF ForwardCached, ForwardElsewhere
<1>4. Steady /\ now' \in Nat BY <1>1, <1>3, StillSteady, Zenon DEF coreVars, Steady
<1>5. IOInv(mix, lease', now', IO) BY <1>1, <1>4, ReportsStaySound, Zenon
<1>6. sends' \in 0..MaxMessages BY <1>1, <1>3, Zenon DEF CoreTypes
<1>7. FwdTypes'
  BY <1>1, <1>2, FwdDrops, Zenon DEF ForwardCached, ForwardElsewhere, FwdTypes
<1>8. PICK p \in Packets : Sound(mix, lease', now', p.msg, p.reply) /\ net' = kept \union {p}
  <2>1. CASE ForwardCached(d, kept)
    <3>1. ReplyTo(d.msg) \in Replies /\ Sound(mix, lease', now', d.msg, ReplyTo(d.msg))
      BY <1>1, <1>4, <2>1, ReplyToSound, Zenon DEF ForwardCached, MayBeCached
    <3>2. net' = kept \union {Datagram("response", d.to, d.from, d.msg, ReplyTo(d.msg))}
      BY <2>1, Zenon DEF ForwardCached, InFlight
    <3> QED BY <1>2, <3>1, <3>2, PacketTypes
  <2>2. CASE ForwardElsewhere(d, kept)
    <3>1. net' = kept \union {Datagram("not_leader", d.to, d.from, d.msg, NoReply)}
      BY <2>2, Zenon DEF ForwardElsewhere, InFlight
    <3>2. NoReply \in Replies /\ Sound(mix, lease', now', d.msg, NoReply)
      BY <1>1, <1>2, <1>4, NoReplySound, Zenon
    <3> QED BY <1>2, <3>1, <3>2, PacketTypes
  <2> QED BY <2>1, <2>2, Zenon
<1>9. IOInv(mix, lease', now', [prop |-> prop, owed |-> owed, net |-> kept \union {p}])
  BY <1>1, <1>5, <1>8, WireSends, Zenon
<1>10. IONext = [prop |-> prop, owed |-> owed, net |-> kept \union {p}]
  BY <1>3, <1>8, Zenon DEF IONext, coreVars
<1>11. UNCHANGED <<mix, leader, status, done, lease, now, drv, emb, probed, conn>>
  BY <1>3, Zenon DEF coreVars
<1> QED BY <1>6, <1>7, <1>9, <1>10, <1>11, WireStep, Zenon

LEMMA ForwardProposedKeeps ==
    ASSUME HostInv, NEW d \in net, NEW kept \in {net, net \ {d}}, ForwardProposed(d, kept)
    PROVE  HostInv'
<1> DEFINE n == d.to
           row == [msg |-> d.msg, from |-> d.from]
           io == [IO EXCEPT !.net = kept]
           told == Datagram("not_leader", n, d.from, d.msg, NoReply)
<1>1. CoreTypes /\ LeaseInv /\ FwdTypes /\ kept \subseteq net BY CoreParts, Zenon
<1>2. n \in Node /\ d.from \in Node /\ d.msg \in Message BY <1>1, PacketParts, Zenon
<1>3. UNCHANGED <<mix, leader, status, done, lease, now, sends, drv, emb, probed, conn>>
  BY Zenon DEF ForwardProposed
<1>4. Steady /\ now' \in Nat BY <1>1, <1>3, StillSteady, Zenon DEF Steady
<1>5. IOInv(mix, lease', now', IO) BY <1>1, <1>4, ReportsStaySound, Zenon
<1>6. IOInv(mix, lease', now', io)
  <2>1. io = [prop |-> prop, owed |-> owed, net |-> kept \union {}] BY DEF IO
  <2> HIDE DEF io
  <2> QED BY <1>1, <1>5, <2>1, WireSends, Zenon
<1>7. PICK p \in Proposals(n, d.msg, io) :
           /\ fwd' = [fwd EXCEPT ![n] = IF p.rc = "ok" THEN (@ \ Rows(n, d.msg)) \union {row}
                                        ELSE @ \ Rows(n, d.msg)]
           /\ Becomes(IF p.rc = "ok" THEN p.io ELSE [p.io EXCEPT !.net = @ \union {told}])
  BY Zenon DEF ForwardProposed
<1> HIDE DEF io
<1>8. IOInv(mix, lease', now', p.io) BY <1>1, <1>2, <1>4, <1>6, ProposalsKeep, Zenon
<1>9. row \in [msg : Message, from : Node] BY <1>2, Zenon
<1>10. FwdTypes' BY <1>1, <1>2, <1>7, <1>9, Zenon DEF FwdTypes
<1>11. IOInv(mix, lease', now', [p.io EXCEPT !.net = @ \union {told}])
  <2>1. told \in Packets /\ Sound(mix, lease', now', told.msg, told.reply)
    BY <1>1, <1>2, <1>4, NoReplySound, PacketTypes
  <2>2. p.io \in IOs BY <1>8, Zenon DEF IOInv
  <2> HIDE DEF told
  <2>3. /\ [p.io EXCEPT !.net = @ \union {told}] \in IOs
        /\ [p.io EXCEPT !.net = @ \union {told}].net = p.io.net \union {told}
    BY <2>1, <2>2, Zenon DEF IOs
  <2> QED BY <1>8, <2>1, <2>3, Zenon DEF IOInv
<1>12. IOInv(mix, lease', now', IONext)
  <2> HIDE DEF told
  <2>1. CASE p.rc = "ok"
    <3>1. Becomes(p.io) BY <1>7, <2>1, Zenon
    <3> QED BY <1>8, <3>1, BecomesNext, Zenon DEF IOInv
  <2>2. CASE p.rc # "ok"
    <3>1. Becomes([p.io EXCEPT !.net = @ \union {told}]) BY <1>7, <2>2, Zenon
    <3> QED BY <1>11, <3>1, BecomesNext, Zenon DEF IOInv
  <2> QED BY <2>1, <2>2, Zenon
<1>13. sends' \in 0..MaxMessages BY <1>1, <1>3, Zenon DEF CoreTypes
<1> QED BY <1>3, <1>10, <1>12, <1>13, WireStep, Zenon

LEMMA HandleRequestKeeps == HostInv /\ HandleRequest => HostInv'
BY ForwardedKeeps, ForwardProposedKeeps, Zenon DEF HandleRequest

LEMMA HandleResponseKeeps == HostInv /\ HandleResponse => HostInv'
<1> SUFFICES ASSUME HostInv, HandleResponse PROVE HostInv'
  OBVIOUS
<1>1. PICK d \in net : Claim(d.to, d.msg, d.reply, IO) BY Zenon DEF HandleResponse
<1>2. UNCHANGED <<mix, leader, status, done, lease, now, fwd>> BY Zenon DEF HandleResponse
<1>3. CoreTypes /\ LeaseInv /\ DrvInv /\ EmbInv /\ ConnInv /\ FwdTypes BY CoreParts, Zenon
<1>4. Steady BY <1>2, <1>3, StillSteady, Zenon
<1>5. d.to \in Node /\ d.msg \in Message /\ d.reply \in Replies BY <1>3, PacketParts, Zenon
<1>6. Sound(mix, lease', now', d.msg, d.reply) /\ IOInv(mix, lease', now', IO)
  BY <1>3, <1>4, ReportsStaySound, Zenon
<1>7. /\ DrvInv' /\ EmbInv' /\ ConnInv' /\ sends' \in 0..MaxMessages
      /\ IOInv(mix, lease', now', IONext)
  BY <1>1, <1>3, <1>4, <1>5, <1>6, ClaimKeeps, Zenon
<1>8. FwdTypes' BY <1>2, <1>3, Zenon DEF FwdTypes
<1> QED BY <1>2, <1>3, <1>7, <1>8, CoreStays, Zenon DEF HostInv

LEMMA ConnDrops ==
    ASSUME ConnInv, NEW c \in Tcp, conn' = [conn EXCEPT ![c].pending = None]
    PROVE  ConnInv'
BY DEF ConnInv, Pendings

LEMMA HandleNotLeaderKeeps == HostInv /\ HandleNotLeader => HostInv'
<1> SUFFICES ASSUME HostInv, HandleNotLeader PROVE HostInv'
  OBVIOUS
<1>1. PICK d \in net :
          \/ drv' = [drv EXCEPT ![d.to].pending = None] /\ UNCHANGED <<emb, conn>>
          \/ /\ emb[d.to].pending = d.msg
             /\ emb' = [emb EXCEPT ![d.to] = Absorbed(d.to, @, d.msg, NoReply)]
             /\ UNCHANGED <<drv, conn>>
          \/ /\ \E c \in Waiting(d.to, d.msg) : conn' = [conn EXCEPT ![c].pending = None]
             /\ UNCHANGED <<drv, emb>>
  BY Zenon DEF HandleNotLeader
<1>2. UNCHANGED <<coreVars, owed, sends, probed, fwd, net>> BY Zenon DEF HandleNotLeader
<1>3. CoreTypes /\ DrvInv /\ EmbInv /\ ConnInv /\ FwdTypes BY CoreParts, Zenon
<1>4. Steady BY <1>2, <1>3, StillSteady, Zenon DEF coreVars
<1>5. d.to \in Node /\ d.msg \in Message BY <1>3, PacketParts, Zenon
<1>6. FwdTypes' BY <1>2, <1>3, Zenon DEF FwdTypes
<1>7. CASE drv' = [drv EXCEPT ![d.to].pending = None] /\ UNCHANGED <<emb, conn>>
  <2>1. PICK n \in Node : n = d.to BY <1>5, Zenon
  <2>2. drv' = [drv EXCEPT ![n] = [pending |-> None, held |-> drv[n].held]]
    <3>1. drv' = [drv EXCEPT ![n].pending = None] BY <1>7, <2>1, Zenon
    <3>2. drv \in [Node -> [pending : Pendings, held : 0..(mix.time + LeaseMs)]] BY <1>3, Zenon DEF DrvInv
    <3>3. [drv[n] EXCEPT !.pending = None] = [pending |-> None, held |-> drv[n].held] BY <3>2
    <3>4. drv' = [drv EXCEPT ![n] = [drv[n] EXCEPT !.pending = None]] BY <3>1, Zenon
    <3> QED BY <3>3, <3>4, Zenon
  <2>3. drv[n].held \in 0..(mix.time + LeaseMs) /\ Backed(lease', now', Driver(n), drv[n].held)
    BY <1>2, <1>3, Zenon DEF DrvInv, coreVars
  <2>4. None \in Pendings BY Zenon DEF Pendings
  <2>5. DrvInv' BY <1>3, <1>4, <2>2, <2>3, <2>4, DrvMoves, Zenon
  <2> QED BY <1>2, <1>3, <1>6, <1>7, <2>5, EmbStays, ConnStays, LocalStep, Zenon
<1>8. CASE /\ emb[d.to].pending = d.msg
           /\ emb' = [emb EXCEPT ![d.to] = Absorbed(d.to, @, d.msg, NoReply)]
           /\ UNCHANGED <<drv, conn>>
  <2>1. EmbInv' BY <1>2, <1>3, <1>5, <1>8, GivesUp, Zenon
  <2> QED BY <1>2, <1>3, <1>4, <1>6, <1>8, <2>1, DrvStays, ConnStays, LocalStep, Zenon
<1>9. CASE /\ \E c \in Waiting(d.to, d.msg) : conn' = [conn EXCEPT ![c].pending = None]
           /\ UNCHANGED <<drv, emb>>
  <2>1. ConnInv' BY <1>3, <1>9, ConnDrops, Zenon DEF Waiting
  <2> QED BY <1>2, <1>3, <1>4, <1>6, <1>9, <2>1, DrvStays, EmbStays, LocalStep, Zenon
<1> QED BY <1>1, <1>7, <1>8, <1>9, Zenon

LEMMA PurgeKeeps == ASSUME HostInv, NEW n \in Node, PurgeForwarded(n) PROVE HostInv'
<1>1. PICK f : fwd' = [fwd EXCEPT ![n] = @ \ {f}] BY Zenon DEF PurgeForwarded
<1>2. UNCHANGED <<coreVars, owed, sends, drv, emb, probed, conn, net>> BY Zenon DEF PurgeForwarded
<1>3. FwdTypes' BY <1>1, CoreParts, FwdDrops, Zenon
<1>4. Steady BY <1>2, CoreParts, StillSteady, Zenon DEF coreVars
<1> QED BY <1>2, <1>3, <1>4, CoreParts, DrvStays, EmbStays, ConnStays, LocalStep, Zenon

(* ----------------------------- connections ------------------------------- *)

LEMMA WaitKeeps ==
    ASSUME ConnInv, NEW c \in Tcp, NEW n \in Node, NEW m \in Message, NEW q \in {m, None},
           Wait(c, n, m, q)
    PROVE  ConnInv'
<1> DEFINE k == [at |-> n, pending |-> q, verb |-> m,
                 got |-> IF conn[c].verb = m THEN conn[c].got ELSE None,
                 lines |-> conn[c].lines + 1]
<1>1. conn' = [conn EXCEPT ![c] = k] BY Zenon DEF Wait
<1>2. conn[c] \in [at : Node \union {Nobody}, pending : Pendings, verb : Pendings,
                   got : Pendings, lines : Nat]
  BY Zenon DEF ConnInv
<1>3. conn[c].got \in {None, conn[c].verb} BY Zenon DEF ConnInv
<1>4. k \in [at : Node \union {Nobody}, pending : Pendings, verb : Pendings,
             got : Pendings, lines : Nat]
  BY <1>2 DEF Pendings
<1>5. k.pending \in {None, k.verb} /\ k.got \in {None, k.verb} BY <1>3, Zenon
<1> HIDE DEF k
<1> QED BY <1>1, <1>4, <1>5, ConnMoves, Zenon

LEMMA HandleClientLineKeeps ==
    ASSUME HostInv, NEW c \in Tcp, HandleClientLine(c)
    PROVE  HostInv'
<1>1. PICK n \in Node, m \in Lines(c) :
          /\ LineRouted(c, n, m) \/ LineCached(c, n, m)
          /\ sends' = IF m.num > sends THEN m.num ELSE sends
  BY Zenon DEF HandleClientLine
<1>2. CoreTypes /\ LeaseInv /\ DrvInv /\ EmbInv /\ ConnInv /\ FwdTypes BY CoreParts, Zenon
<1>3. m \in Message
  <2>1. CASE sends < MaxMessages /\ m = Mint(Client(c), "set")
    BY <1>2, <2>1, MintTypes DEF Clients
  <2>2. CASE conn[c].verb # None /\ m = conn[c].verb
    BY <1>2, <2>2, Zenon DEF ConnInv, Pendings
  <2> QED BY <1>1, <2>1, <2>2, Zenon DEF Lines
<1>4. sends' \in 0..MaxMessages
  <2>1. m.num \in 1..MaxMessages BY <1>3, Zenon DEF Message
  <2> QED BY <1>1, <1>2, <2>1, MixFacts
<1>5. UNCHANGED <<mix, leader, status, done, lease, now, drv, emb, probed>>
  BY <1>1, Zenon DEF LineRouted, LineCached
<1>6. Steady /\ now' \in Nat BY <1>2, <1>5, StillSteady, Zenon DEF Steady
<1>7. IOInv(mix, lease', now', IO) BY <1>2, <1>6, ReportsStaySound, Zenon
<1>8. /\ ConnInv' /\ FwdTypes' /\ IOInv(mix, lease', now', IONext)
  <2>1. CASE LineRouted(c, n, m)
    <3>1. PICK o \in Routed(n, m, IO) : Wait(c, n, m, o.pending) /\ Becomes(o.io)
      BY <2>1, Zenon DEF LineRouted
    <3>2. o.pending \in {m, None} /\ IOInv(mix, lease', now', o.io)
      BY <1>2, <1>3, <1>6, <1>7, RoutedKeeps, Zenon
    <3>3. ConnInv' BY <1>2, <1>3, <3>1, <3>2, WaitKeeps, Zenon
    <3>4. FwdTypes' BY <1>2, <2>1, Zenon DEF LineRouted, FwdTypes
    <3> QED BY <3>1, <3>2, <3>3, <3>4, BecomesNext, Zenon DEF IOInv
  <2>2. CASE LineCached(c, n, m)
    <3> DEFINE S == {Datagram("response", n, f.from, m, ReplyTo(m)) : f \in Rows(n, m)}
    <3>1. /\ IsDone(m) /\ Wait(c, n, m, m) /\ fwd' = [fwd EXCEPT ![n] = @ \ Rows(n, m)]
          /\ net' = net \union S /\ UNCHANGED <<prop, owed>>
      BY <2>2, Zenon DEF LineCached, InFlight, MayBeCached
    <3>2. ConnInv' BY <1>2, <1>3, <3>1, WaitKeeps, Zenon
    <3>3. FwdTypes' BY <1>2, <3>1, FwdDrops, Zenon
    <3>4. ReplyTo(m) \in Replies /\ Sound(mix, lease', now', m, ReplyTo(m))
      BY <1>2, <1>6, <3>1, ReplyToSound, Zenon
    <3>5. \A f \in Rows(n, m) : f.from \in Node BY <1>2 DEF FwdTypes, Rows
    <3>6. \A d \in S : d \in Packets /\ Sound(mix, lease', now', d.msg, d.reply)
      BY <1>3, <3>4, <3>5, PacketTypes
    <3> HIDE DEF S
    <3>7. IOInv(mix, lease', now', [prop |-> prop, owed |-> owed, net |-> net \union S])
      BY <1>2, <1>7, <3>6, WireSends, Zenon
    <3>8. IONext = [prop |-> prop, owed |-> owed, net |-> net \union S] BY <3>1, Zenon DEF IONext
    <3> QED BY <3>2, <3>3, <3>7, <3>8, Zenon
  <2> QED BY <1>1, <2>1, <2>2, Zenon
<1>9. CoreTypes' /\ LeaseInv' BY <1>2, <1>4, <1>5, <1>8, CoreStays, Zenon
<1> QED BY <1>2, <1>5, <1>6, <1>8, <1>9, DrvStays, EmbStays, Zenon DEF HostInv

LEMMA ConnDeadlineKeeps == ASSUME HostInv, NEW c \in Tcp, ConnDeadline(c) PROVE HostInv'
<1>1. /\ conn' = [conn EXCEPT ![c].pending = None]
      /\ UNCHANGED <<coreVars, owed, sends, drv, emb, probed, fwd, net>>
  BY Zenon DEF ConnDeadline
<1>2. ConnInv' BY <1>1, CoreParts, ConnDrops, Zenon
<1>3. FwdTypes' BY <1>1, CoreParts, Zenon DEF FwdTypes
<1>4. Steady BY <1>1, CoreParts, StillSteady, Zenon DEF coreVars
<1> QED BY <1>1, <1>2, <1>3, <1>4, CoreParts, DrvStays, EmbStays, LocalStep, Zenon

LEMMA GoneKeeps == HostInv /\ Gone => HostInv'
<1> SUFFICES ASSUME HostInv, Gone PROVE HostInv'
  OBVIOUS
<1>1. net' \subseteq net /\ UNCHANGED <<coreVars, owed, sends, hostVars>> BY Zenon DEF Gone
<1>2. CoreTypes' BY <1>1, CoreParts, Zenon DEF CoreTypes, coreVars, hostVars
<1>3. LeaseInv' BY <1>1, CoreParts, Zenon DEF LeaseInv, coreVars
<1>4. DrvInv' /\ EmbInv' /\ ConnInv'
  BY <1>1, CoreParts, StillSteady, DrvStays, EmbStays, ConnStays, Zenon DEF coreVars, hostVars
<1> QED BY <1>2, <1>3, <1>4 DEF HostInv

(* ------------------------------ the theorems ----------------------------- *)

LEMMA InitHost == Init => HostInv
<1> SUFFICES ASSUME Init PROVE HostInv
  BY Zenon
<1>1. mix \in Mixes /\ mix.time \in Nat \ {0} /\ LeaseMs \in Nat /\ MaxMessages \in Nat
  BY HostAssumption, Zenon DEF Init
<1>2. lease \in Leases /\ lease.expiry = 0 BY Zenon DEF Init, Free, Leases, Holders
<1>3. CoreTypes BY <1>1, <1>2 DEF Init, CoreTypes
<1>4. LeaseInv BY <1>1, <1>2 DEF Init, LeaseInv
<1>5. DrvInv BY <1>1 DEF Init, DrvInv, Backed, Pendings
<1>6. EmbInv BY Zenon DEF Init, EmbInv, Pendings
<1>7. ConnInv BY Zenon DEF Init, ConnInv, Pendings
<1> QED BY <1>3, <1>4, <1>5, <1>6, <1>7, Zenon DEF HostInv

LEMMA NextKeepsHost == HostInv /\ [Next]_vars => HostInv'
<1> SUFFICES ASSUME HostInv, [Next]_vars PROVE HostInv'
  BY Zenon
<1>1. CASE CoreNext BY <1>1, CommitKeeps, ClockKeeps, CoreKeeps, Zenon DEF CoreNext
<1>2. CASE HostNext
  <2>1. ASSUME NEW c \in mix.tcp, HandleClientLine(c) \/ ConnDeadline(c) PROVE HostInv'
    <3>1. c \in Tcp BY CoreParts, MixFacts, Zenon
    <3> QED BY <2>1, <3>1, HandleClientLineKeeps, ConnDeadlineKeeps, Zenon
  <2> QED
    BY <1>2, <2>1, DriverDropsKeeps, DriverActsKeeps, EmbeddedActsKeeps, EmbeddedDropsKeeps,
       ReplyDueKeeps, PurgeKeeps, HandleRequestKeeps, HandleResponseKeeps, HandleNotLeaderKeeps, Zenon
    DEF HostNext
<1>3. CASE Gone BY <1>3, GoneKeeps, Zenon
<1>4. CASE UNCHANGED vars
  <2>1. UNCHANGED <<mix, leader, status, prop, done, lease, now, owed, sends, hostVars, net>>
    BY <1>4, Zenon DEF vars, coreVars
  <2>2. leader' \in Node /\ prop' \subseteq prop
        /\ status' \in [Node -> [normal : BOOLEAN, leader : Node \union {Nobody}]]
    BY <2>1, CoreParts, Zenon DEF CoreTypes
  <2> QED BY <2>1, <2>2, CoreMoves, Zenon
<1> QED BY <1>1, <1>2, <1>3, <1>4, Zenon DEF Next

LEMMA HostInvHolds == Spec => []HostInv
BY InitHost, NextKeepsHost, PTL DEF Spec

\* A driver that believes it holds the lease does, whatever the order in which
\* replies reach it, through however many hosts and elections (main.rs:1209-1271).
THEOREM HeldIsHeld == Spec => []HeldLeaseIsHeld
<1>1. HostInv => HeldLeaseIsHeld BY Zenon DEF HostInv, DrvInv, HeldLeaseIsHeld, Backed
<1> QED BY <1>1, HostInvHolds, PTL

\* After a silence and a start the contender probes before it does anything else,
\* whatever is still in flight (client_gate.rs:3-7).
THEOREM ProbesFirst == Spec => []StartsWithAProbe
<1>1. HostInv => StartsWithAProbe
  <2> SUFFICES ASSUME HostInv, NEW n \in Node
               PROVE  /\ ~emb[n].on => ~emb[n].holds /\ ~emb[n].sched
                      /\ emb[n].pending # None /\ emb[n].pending.op = "extend" => probed[n]
    BY Zenon DEF StartsWithAProbe
  <2> QED BY Zenon DEF HostInv, EmbInv
<1> QED BY <1>1, HostInvHolds, PTL

\* A connection is only written the answer to its last line, and every table and
\* every pending verb has its type (main.rs:939-953, 2161-2170).
THEOREM AnswersMatch == Spec => []AnswersItsLine
<1>1. HostInv => AnswersItsLine
  <2> SUFFICES ASSUME HostInv PROVE TypeOK /\ \A c \in Tcp : conn[c].got \in {None, conn[c].verb}
    BY Zenon DEF AnswersItsLine
  <2>1. TypeOK BY DEF HostInv, CoreTypes, DrvInv, EmbInv, ConnInv, TypeOK
  <2>2. \A c \in Tcp : conn[c].got \in {None, conn[c].verb} BY Zenon DEF HostInv, ConnInv
  <2> QED BY <2>1, <2>2, Zenon
<1> QED BY <1>1, HostInvHolds, PTL
=============================================================================
