------------------------ MODULE ChatTransportProofs ------------------------
(***************************************************************************)
(* Proofs about ChatTransport: for any number of connections, events,      *)
(* reconnects and restarts it implements OrderedStream.                    *)
(***************************************************************************)
EXTENDS ChatTransport, AgentRunsProofs

Buf == run[1].buf

(* What the reader has received of a connection's lane.                    *)
Received == delivered + Len(queue)
Base(s)  == IF s = Sse THEN Len(got) ELSE Received

(* Events n + 1, n + 2, ... of the run.                                    *)
Numbered(es, n) == \A k \in 1 .. Len(es) : es[k] = [run |-> 1, seq |-> n + k]

(* A wire: chunks, and perhaps a last frame that is none.                  *)
Chunks(w)    == IF w # <<>> /\ w[Len(w)].kind # "chunk" THEN Len(w) - 1 ELSE Len(w)
InWire(w, n) == \A k \in 1 .. Len(w) : w[k] = Chunk(1, n + k) \/ (k = Len(w) /\ w[k].kind # "chunk")

(* A connection of which `b` events have been received, whose generator is *)
(* `at` its place with `next` events given, for a buffer of n: the wire    *)
(* goes on where the reader is, and the generator where the wire ends.     *)
ConnOK(l, at, next, b, n) ==
  /\ InWire(l.wire, b)
  /\ b + Chunks(l.wire) <= n
  /\ l.up /\ l.fresh => at = "off" /\ l.wire = <<>> /\ l.idx = 0 /\ l.resume = b
  /\ l.up /\ at # "off" =>
       /\ ~l.fresh /\ l.idx = next /\ Chunks(l.wire) = Len(l.wire)
       /\ b + Len(l.wire) = IF l.idx < l.resume THEN l.resume ELSE l.idx

Used(s) == IF s = Sse THEN lane \in {"choosing", "sse"} ELSE s = sock

LinkOK(s) ==
  /\ ~Used(s) => link[s] = Down
  /\ ConnOK(link[s], sub[s].at, sub[s].next, Base(s), Len(Buf))

(* The reader: what it holds is numbered from 1, in the caller's hands and *)
(* then in the queue.                                                      *)
ClientOK ==
  /\ started <= 1 /\ (lane # "idle" => started = 1)
  /\ lane \in {"idle", "choosing"} => got = <<>> /\ ended = "no"
  /\ lane # "ws" => queue = <<>> /\ delivered = 0 /\ ~reading /\ ~timer
  /\ lane \in {"idle", "sse"} => sock = "none"
  /\ lane = "ws" => Len(got) = delivered /\ Socks # {}
  /\ Numbered(got, 0) /\ Numbered(queue, Len(got))
  /\ reading => ended = "no" /\ queue = <<>>
  /\ timer => sock = "none"
  /\ lane = "idle" => attempts = 0
  /\ timer \/ sock # "none" => attempts <= MaxReconnects

ClientTypeOK ==
  /\ link \in [Subs -> Links] /\ restarts \in 0 .. MaxRestarts
  /\ lane \in {"idle", "choosing", "ws", "sse"}
  /\ sock \in Socks \cup {"none", "connecting"}
  /\ attempts \in 0 .. MaxReconnects + 1
  /\ queue \in Seq(Events) /\ got \in Seq(Events) /\ delivered \in Nat
  /\ timer \in BOOLEAN /\ done \in BOOLEAN /\ sawDone \in BOOLEAN /\ reading \in BOOLEAN
  /\ ended \in {"no", "complete", "short"}

ReaderInv ==
  /\ ClientTypeOK /\ ClientOK
  /\ \A s \in Subs : LinkOK(s)

TransportInv == RunsInv /\ ReaderInv

-----------------------------------------------------------------------------
(* Wires.                                                                  *)

LEMMA WireGrows ==
  ASSUME NEW w \in Seq(Frames), NEW n \in Nat, InWire(w, n), Chunks(w) = Len(w),
         NEW f \in Frames, f = Chunk(1, n + Len(w) + 1) \/ f.kind # "chunk"
  PROVE  /\ InWire(Append(w, f), n)
         /\ Chunks(Append(w, f)) = IF f.kind = "chunk" THEN Len(w) + 1 ELSE Len(w)
         /\ Len(Append(w, f)) = Len(w) + 1
<1> DEFINE v == Append(w, f)
<1>1. /\ v \in Seq(Frames) /\ Len(v) = Len(w) + 1 /\ v[Len(w) + 1] = f /\ Len(w) \in Nat
      /\ \A k \in 1 .. Len(w) : v[k] = w[k]
  OBVIOUS
<1> HIDE DEF v
<1>2. v # <<>>
  <2>1. Len(v) > 0
    BY <1>1
  <2> QED
    BY <2>1, EmptySeq
<1>3. \A k \in 1 .. Len(w) : w[k] = Chunk(1, n + k)
  <2> SUFFICES ASSUME NEW k \in 1 .. Len(w), w[k] # Chunk(1, n + k) PROVE FALSE
    OBVIOUS
  <2>1. k = Len(w) /\ w[k].kind # "chunk"
    BY DEF InWire
  <2>2. w # <<>>
    BY <1>1
  <2>3. Chunks(w) = Len(w) - 1
    BY <2>1, <2>2 DEF Chunks
  <2> QED
    BY <1>1, <2>3
<1>4. InWire(v, n)
  <2> SUFFICES ASSUME NEW k \in 1 .. Len(w) + 1
               PROVE  v[k] = Chunk(1, n + k) \/ (k = Len(v) /\ v[k].kind # "chunk")
    BY <1>1 DEF InWire
  <2>1. CASE k \in 1 .. Len(w)
    BY <1>1, <1>3, <2>1
  <2>2. CASE k = Len(w) + 1
    BY <1>1, <2>2
  <2> QED
    BY <1>1, <2>1, <2>2
<1>5. Chunks(v) = IF f.kind = "chunk" THEN Len(w) + 1 ELSE Len(w)
  BY <1>1, <1>2 DEF Chunks
<1> QED
  BY <1>1, <1>4, <1>5 DEF v

LEMMA WireShrinks ==
  ASSUME NEW w \in Seq(Frames), w # <<>>, NEW n \in Nat, InWire(w, n)
  PROVE  /\ Tail(w) \in Seq(Frames) /\ Head(w) \in Frames /\ Len(Tail(w)) = Len(w) - 1
         /\ Head(w).kind = "chunk" =>
              /\ Head(w) = Chunk(1, n + 1) /\ InWire(Tail(w), n + 1)
              /\ Chunks(Tail(w)) = Chunks(w) - 1 /\ Chunks(w) >= 1
         /\ Head(w).kind # "chunk" => Tail(w) = <<>> /\ Chunks(w) = 0 /\ Len(w) = 1
<1> DEFINE t == Tail(w)
           h == Head(w)
<1>1. /\ Len(w) \in Nat /\ Len(w) >= 1 /\ t \in Seq(Frames) /\ Len(t) = Len(w) - 1
      /\ \A k \in 1 .. Len(t) : t[k] = w[k + 1]
      /\ h = w[1] /\ h \in Frames
  BY EmptySeq, HeadTailProperties
<1> HIDE DEF t, h
<1>2. t = <<>> <=> Len(w) = 1
  <2>1. t # <<>> => Len(t) \in Nat \ {0}
    BY <1>1, EmptySeq
  <2>2. t = <<>> => Len(t) = 0
    BY EmptySeq
  <2> QED
    BY <1>1, <2>1, <2>2
<1>3. CASE h.kind = "chunk"
  <2>1. h = Chunk(1, n + 1)
    BY <1>1, <1>3 DEF InWire
  <2>2. ASSUME NEW k \in 1 .. Len(t)
        PROVE  t[k] = Chunk(1, n + 1 + k) \/ (k = Len(t) /\ t[k].kind # "chunk")
    <3>1. k + 1 \in 1 .. Len(w) /\ (k + 1 = Len(w) <=> k = Len(t)) /\ n + (k + 1) = n + 1 + k
      BY <1>1
    <3>2. w[k + 1] = Chunk(1, n + (k + 1)) \/ (k + 1 = Len(w) /\ w[k + 1].kind # "chunk")
      BY <3>1 DEF InWire
    <3> QED
      BY <1>1, <3>1, <3>2
  <2>3. Chunks(t) = Chunks(w) - 1 /\ Chunks(w) >= 1
    <3>1. CASE Len(w) = 1
      <4>1. t = <<>> /\ Len(t) = 0
        BY <1>1, <1>2, <3>1
      <4>2. w[Len(w)].kind = "chunk"
        BY <1>1, <1>3, <3>1
      <4> QED
        BY <3>1, <4>1, <4>2 DEF Chunks
    <3>2. CASE Len(w) # 1
      <4>1. t # <<>> /\ Len(t) \in 1 .. Len(t) /\ Len(t) + 1 = Len(w)
        BY <1>1, <1>2, <3>2
      <4>2. t[Len(t)] = w[Len(w)]
        BY <1>1, <4>1
      <4> QED
        BY <1>1, <3>2, <4>1, <4>2 DEF Chunks
    <3> QED
      BY <3>1, <3>2
  <2> QED
    BY <1>1, <1>3, <2>1, <2>2, <2>3 DEF InWire, t, h
<1>4. CASE h.kind # "chunk"
  <2>1. Chunk(1, n + 1).kind = "chunk"
    BY DEF Chunk
  <2>2. Len(w) = 1
    BY <1>1, <1>4, <2>1 DEF InWire
  <2>3. Chunks(w) = 0
    BY <1>1, <1>4, <2>2 DEF Chunks
  <2> QED
    BY <1>1, <1>2, <1>4, <2>2, <2>3 DEF t, h
<1> QED
  BY <1>3, <1>4

LEMMA ChunksIsNat ==
  ASSUME NEW w \in Seq(Frames)
  PROVE  Chunks(w) \in Nat /\ Chunks(w) <= Len(w) /\ Len(w) \in Nat
<1>1. Len(w) \in Nat /\ (w # <<>> => Len(w) >= 1)
  BY EmptySeq, LenProperties
<1> QED
  BY <1>1 DEF Chunks

-----------------------------------------------------------------------------
(* Connections, one step at a time.                                        *)

LEMMA ConnDown ==
  ASSUME NEW at, NEW next, NEW b \in Nat, NEW n \in Nat, b <= n
  PROVE  Down \in Links /\ ConnOK(Down, at, next, b, n)
<1>1. Down \in Links /\ Down.wire = <<>> /\ ~Down.up
  BY EmptySeq DEF Down, Links
<1>2. Len(<<>>) = 0
  BY EmptySeq
<1> HIDE DEF Down
<1> QED
  BY <1>1, <1>2 DEF ConnOK, InWire, Chunks

LEMMA ConnUp ==
  ASSUME NEW next, NEW b \in Nat, NEW n \in Nat, b <= n
  PROVE  Up(b) \in Links /\ Up(b) # Down /\ ConnOK(Up(b), "off", next, b, n)
<1>1. /\ Up(b) \in Links /\ Up(b).wire = <<>> /\ Up(b).up /\ Up(b).idx = 0 /\ Up(b).resume = b
      /\ ~Down.up
  BY EmptySeq DEF Up, Down, Links
<1>2. Len(<<>>) = 0
  BY EmptySeq
<1> QED
  BY <1>1, <1>2 DEF ConnOK, InWire, Chunks

LEMMA ConnFrame ==
  ASSUME NEW l \in Links, NEW at, NEW next, NEW b \in Nat, NEW n \in Nat,
         ConnOK(l, at, next, b, n), NEW m \in Nat, n <= m, NEW at2, at2 = "off" <=> at = "off"
  PROVE  ConnOK(l, at2, next, b, m)
<1>1. Chunks(l.wire) \in Nat
  BY ChunksIsNat DEF Links
<1> QED
  BY <1>1 DEF ConnOK

(* The subscribe frame arrives.                                            *)
LEMMA ConnServe ==
  ASSUME NEW l \in Links, l.up, l.fresh, NEW at, NEW next, NEW b \in Nat, NEW n \in Nat,
         ConnOK(l, at, next, b, n), NEW m, m = [l EXCEPT !.fresh = FALSE]
  PROVE  m \in Links /\ ConnOK(m, "replay", 0, b, n)
<1>1. /\ m \in Links /\ m.wire = <<>> /\ m.wire = l.wire /\ m.up /\ ~m.fresh /\ m.idx = 0 /\ m.resume = b
  BY DEF Links, ConnOK
<1>2. Chunks(<<>>) = 0 /\ Len(<<>>) = 0
  BY EmptySeq DEF Chunks
<1>3. InWire(m.wire, b) /\ b + Chunks(m.wire) <= n
  BY <1>1 DEF ConnOK
<1>4. b + 0 = IF 0 < b THEN b ELSE 0
  OBVIOUS
<1> QED
  BY <1>1, <1>2, <1>3, <1>4 DEF ConnOK

LEMMA FramesAre ==
  ASSUME NEW kind \in {"end", "error"}
  PROVE  Frame(kind) \in Frames /\ Frame(kind).kind = kind
BY DEF Frame, Frames

LEMMA ConnRefuse ==
  ASSUME NEW l \in Links, l.up, l.fresh, NEW at, NEW next, NEW b \in Nat, NEW n \in Nat,
         ConnOK(l, at, next, b, n), NEW kind \in {"end", "error"},
         NEW m, m = [l EXCEPT !.fresh = FALSE, !.wire = Append(@, Frame(kind))]
  PROVE  m \in Links /\ ConnOK(m, at, next, b, n)
<1> DEFINE w == l.wire
           v == Append(w, Frame(kind))
<1>1. w \in Seq(Frames) /\ InWire(w, b) /\ w = <<>> /\ at = "off" /\ b + Chunks(w) <= n
  BY DEF Links, ConnOK
<1>2. Chunks(w) = Len(w) /\ Len(w) = 0
  BY <1>1, EmptySeq DEF Chunks
<1>3. Frame(kind) \in Frames /\ Frame(kind).kind # "chunk"
  BY FramesAre
<1>4. InWire(v, b) /\ Chunks(v) = 0
  BY <1>1, <1>2, <1>3, WireGrows
<1>5. v \in Seq(Frames)
  BY <1>1, <1>3
<1> HIDE DEF v, w
<1>6. m \in Links /\ m.wire = v /\ ~m.fresh
  BY <1>5 DEF Links, v, w
<1> QED
  BY <1>1, <1>2, <1>4, <1>6 DEF ConnOK

(* The generator gives an event, or ends.                                  *)
LEMMA ConnSkip ==
  ASSUME NEW l \in Links, l.up, NEW at, at # "off", NEW next \in Nat, NEW b \in Nat, NEW n \in Nat,
         ConnOK(l, at, next, b, n), l.idx < l.resume, NEW at2, at2 # "off",
         NEW m, m = [l EXCEPT !.idx = @ + 1]
  PROVE  m \in Links /\ ConnOK(m, at2, next + 1, b, n)
<1>1. /\ m \in Links /\ m.wire = l.wire /\ m.up = l.up /\ m.fresh = l.fresh /\ m.resume = l.resume
      /\ m.idx = l.idx + 1 /\ l.idx \in Nat /\ l.resume \in Nat
  <2>1. l.idx \in Nat /\ l.idx + 1 \in Nat /\ l.resume \in Nat
    BY DEF Links
  <2> DEFINE i == l.idx + 1
  <2>2. m = [l EXCEPT !.idx = i]
    OBVIOUS
  <2> HIDE DEF i
  <2>3. m \in Links /\ m.wire = l.wire /\ m.up = l.up /\ m.fresh = l.fresh /\ m.resume = l.resume /\ m.idx = i
    BY <2>1, <2>2 DEF Links, i
  <2> QED
    BY <2>1, <2>3 DEF i
<1>2. /\ ~l.fresh /\ l.idx = next /\ Chunks(l.wire) = Len(l.wire) /\ b + Len(l.wire) = l.resume
  BY DEF ConnOK
<1>3. l.resume = IF next + 1 < l.resume THEN l.resume ELSE next + 1
  BY <1>1, <1>2
<1> QED
  BY <1>1, <1>2, <1>3 DEF ConnOK

LEMMA ConnRelay ==
  ASSUME NEW l \in Links, l.up, NEW at, at # "off", NEW next \in Nat, NEW b \in Nat, NEW n \in Nat,
         ConnOK(l, at, next, b, n), ~(l.idx < l.resume), next + 1 <= n, NEW at2, at2 # "off",
         Chunk(1, next + 1) \in Frames,
         NEW m, m = [l EXCEPT !.idx = @ + 1, !.wire = Append(@, Chunk(1, next + 1))]
  PROVE  m \in Links /\ ConnOK(m, at2, next + 1, b, n)
<1> DEFINE w == l.wire
           v == Append(w, Chunk(1, next + 1))
<1>1. /\ w \in Seq(Frames) /\ l.idx \in Nat /\ l.resume \in Nat /\ Len(w) \in Nat
  BY LenProperties DEF Links
<1>2. /\ InWire(w, b) /\ ~l.fresh /\ l.idx = next /\ Chunks(w) = Len(w) /\ b + Len(w) = next
  BY DEF ConnOK
<1>3. b + Len(w) + 1 = next + 1 /\ Chunk(1, next + 1).kind = "chunk"
  BY <1>2 DEF Chunk
<1>4. InWire(v, b) /\ Chunks(v) = Len(w) + 1 /\ Len(v) = Len(w) + 1
  BY <1>1, <1>2, <1>3, WireGrows
<1>5. v \in Seq(Frames)
  BY <1>1
<1>6. /\ m \in Links /\ m.wire = v /\ m.up = l.up /\ m.fresh = l.fresh /\ m.resume = l.resume
      /\ m.idx = next + 1
  <2> DEFINE i == next + 1
  <2>1. m = [l EXCEPT !.idx = i, !.wire = v] /\ i \in Nat
    BY <1>2
  <2> HIDE DEF v, i
  <2>2. /\ m \in Links /\ m.wire = v /\ m.up = l.up /\ m.fresh = l.fresh /\ m.resume = l.resume
        /\ m.idx = i
    BY <1>5, <2>1 DEF Links
  <2> QED
    BY <2>2 DEF i
<1> HIDE DEF v, w
<1>7. b + (Len(w) + 1) = next + 1 /\ ~(next + 1 < l.resume)
  BY <1>1, <1>2
<1> QED
  BY <1>1, <1>2, <1>4, <1>6, <1>7 DEF ConnOK

LEMMA ConnEnd ==
  ASSUME NEW l \in Links, l.up, NEW at, at # "off", NEW next, NEW b \in Nat, NEW n \in Nat,
         ConnOK(l, at, next, b, n), NEW m, m = [l EXCEPT !.wire = Append(@, Frame("end"))]
  PROVE  m \in Links /\ ConnOK(m, "off", 0, b, n)
<1> DEFINE w == l.wire
           v == Append(w, Frame("end"))
<1>1. w \in Seq(Frames) /\ InWire(w, b) /\ b + Chunks(w) <= n /\ ~l.fresh /\ Chunks(w) = Len(w)
  BY DEF Links, ConnOK
<1>2. Frame("end") \in Frames /\ Frame("end").kind # "chunk"
  BY FramesAre
<1>3. InWire(v, b) /\ Chunks(v) = Len(w)
  BY <1>1, <1>2, WireGrows
<1>4. v \in Seq(Frames)
  BY <1>1, <1>2
<1>5. m \in Links /\ m.wire = v /\ m.fresh = l.fresh
  <2> HIDE DEF v
  <2> QED
    BY <1>4 DEF Links, v
<1> QED
  BY <1>1, <1>3, <1>5 DEF ConnOK

(* A connection that is gone keeps what is on its wire.                    *)
LEMMA ConnGone ==
  ASSUME NEW l \in Links, NEW at, NEW next, NEW at2, NEW next2, NEW b \in Nat, NEW n \in Nat,
         ConnOK(l, at, next, b, n), NEW m \in Links, m.wire = l.wire, ~m.up
  PROVE  ConnOK(m, at2, next2, b, n)
BY DEF ConnOK

(* A frame is received.                                                    *)
LEMMA ConnTake ==
  ASSUME NEW l \in Links, l.wire # <<>>, Head(l.wire).kind = "chunk",
         NEW at, NEW next, NEW b \in Nat, NEW n \in Nat, ConnOK(l, at, next, b, n),
         NEW m, m = [l EXCEPT !.wire = Tail(@)]
  PROVE  /\ Head(l.wire) = Chunk(1, b + 1) /\ b + 1 <= n
         /\ m \in Links /\ ConnOK(m, at, next, b + 1, n)
<1> DEFINE w == l.wire
           t == Tail(w)
<1>1. w \in Seq(Frames) /\ InWire(w, b) /\ b + Chunks(w) <= n /\ ~(l.up /\ l.fresh)
  BY DEF Links, ConnOK
<1>2. /\ t \in Seq(Frames) /\ Len(t) = Len(w) - 1
      /\ Head(w) = Chunk(1, b + 1) /\ InWire(t, b + 1)
      /\ Chunks(t) = Chunks(w) - 1 /\ Chunks(w) >= 1
  BY <1>1, WireShrinks
<1>3. Chunks(w) \in Nat /\ Len(w) \in Nat
  BY <1>1, ChunksIsNat
<1> HIDE DEF t, w
<1>4. /\ m \in Links /\ m.wire = t /\ m.up = l.up /\ m.fresh = l.fresh /\ m.resume = l.resume
      /\ m.idx = l.idx
  BY <1>2 DEF Links, t, w
<1>5. /\ b + 1 <= n /\ b + 1 + Chunks(t) <= n
      /\ b + 1 + Len(t) = b + Len(w) /\ (Chunks(w) = Len(w) => Chunks(t) = Len(t))
  <2> DEFINE x == Chunks(w)
             y == Len(w)
  <2>1. /\ x \in Nat /\ y \in Nat /\ b + x <= n /\ Chunks(t) = x - 1 /\ x >= 1 /\ Len(t) = y - 1
    BY <1>1, <1>2, <1>3
  <2> HIDE DEF x, y
  <2> QED
    BY <2>1 DEF x, y
<1>6. l.up /\ at # "off" =>
        /\ ~l.fresh /\ l.idx = next /\ Chunks(w) = Len(w)
        /\ b + Len(w) = IF l.idx < l.resume THEN l.resume ELSE l.idx
  BY DEF ConnOK, w
<1>7. ConnOK(m, at, next, b + 1, n)
  BY <1>1, <1>2, <1>4, <1>5, <1>6 DEF ConnOK
<1> QED
  BY <1>2, <1>4, <1>5, <1>7 DEF w

LEMMA ConnTakeEnd ==
  ASSUME NEW l \in Links, l.wire # <<>>, Head(l.wire).kind # "chunk",
         NEW at, NEW next, NEW b \in Nat, NEW n \in Nat, ConnOK(l, at, next, b, n),
         NEW m, m = [l EXCEPT !.wire = Tail(@)]
  PROVE  m \in Links /\ ConnOK(m, at, next, b, n)
<1> DEFINE w == l.wire
<1>1. w \in Seq(Frames) /\ InWire(w, b) /\ b + Chunks(w) <= n /\ ~(l.up /\ l.fresh)
      /\ (l.up /\ at # "off" => Chunks(w) = Len(w))
  BY DEF Links, ConnOK
<1>2. Tail(w) = <<>> /\ Chunks(w) = 0 /\ Len(w) = 1 /\ Tail(w) \in Seq(Frames)
  BY <1>1, WireShrinks
<1>3. m \in Links /\ m.wire = <<>> /\ m.up = l.up /\ m.fresh = l.fresh
  BY <1>2 DEF Links
<1>4. InWire(<<>>, b) /\ Chunks(<<>>) = 0
  BY EmptySeq DEF InWire, Chunks
<1> HIDE DEF w
<1>5. ~(l.up /\ at # "off") /\ b + 0 <= n
  BY <1>1, <1>2
<1> QED
  BY <1>1, <1>3, <1>4, <1>5 DEF ConnOK

-----------------------------------------------------------------------------
(* What the invariant says of the run, of a generator and of the reader.   *)

LEMMA RunFacts ==
  ASSUME RunsInv
  PROVE  /\ 1 \in Runs /\ run \in [Runs -> RunStates] /\ run[1] \in RunStates
         /\ Buf \in Seq({"text", "DONE"}) /\ Len(Buf) \in Nat /\ RunOK(1)
<1>1. 1 \in Runs
  BY AgentRunsAssumption DEF Runs, AgentRunsAssumption
<1>2. run \in [Runs -> RunStates] /\ RunOK(1)
  BY <1>1 DEF RunsInv, RunsTypeOK
<1>3. run[1] \in RunStates
  BY <1>1, <1>2
<1>4. Buf \in Seq({"text", "DONE"})
  BY <1>3 DEF RunStates, Buf
<1> QED
  BY <1>1, <1>2, <1>3, <1>4, LenProperties

LEMMA GeneratorFacts ==
  ASSUME TransportInv, NEW s \in Subs
  PROVE  /\ sub \in [Subs -> SubStates] /\ sub[s] \in SubStates /\ sub[s].next \in Nat
         /\ sub[s].at # "off" => sub[s].run = 1 /\ sub[s].next <= Len(Buf)
<1>1. sub \in [Subs -> SubStates] /\ started \in Nat /\ started <= 1 /\ SubOK(s)
  BY DEF TransportInv, RunsInv, RunsTypeOK, ReaderInv, ClientOK
<1>2. sub[s] \in SubStates
  BY <1>1
<1>3. sub[s].next \in Nat
  BY <1>2 DEF SubStates
<1>4. ASSUME sub[s].at # "off" PROVE sub[s].run = 1
  BY <1>1, <1>4 DEF SubOK
<1>5. ASSUME sub[s].at # "off" PROVE sub[s].next <= Len(Buf)
  BY <1>1, <1>4, <1>5 DEF SubOK, Buf
<1> QED
  BY <1>1, <1>2, <1>3, <1>4, <1>5

LEMMA ReaderFacts ==
  ASSUME TransportInv, NEW s \in Subs
  PROVE  /\ link[s] \in Links /\ Received \in Nat /\ Base(s) \in Nat /\ Base(s) <= Len(Buf)
         /\ ConnOK(link[s], sub[s].at, sub[s].next, Base(s), Len(Buf))
         /\ ~Used(s) => link[s] = Down
<1>1. link[s] \in Links /\ delivered \in Nat /\ Len(queue) \in Nat /\ Len(got) \in Nat
  BY LenProperties DEF TransportInv, ReaderInv, ClientTypeOK
<1>2. LinkOK(s)
  BY DEF TransportInv, ReaderInv
<1>3. Chunks(link[s].wire) \in Nat /\ Len(Buf) \in Nat
  BY <1>1, ChunksIsNat, RunFacts DEF Links, TransportInv
<1>4. Received \in Nat /\ Base(s) \in Nat
  BY <1>1 DEF Received, Base
<1>5. Base(s) + Chunks(link[s].wire) <= Len(Buf)
  BY <1>2 DEF LinkOK, ConnOK
<1> QED
  BY <1>1, <1>2, <1>3, <1>4, <1>5 DEF LinkOK

-----------------------------------------------------------------------------
(* The server's steps leave the reader alone.                              *)

LEMMA ReaderUnmoved ==
  ASSUME TransportInv, UNCHANGED client, restarts' \in 0 .. MaxRestarts, started' = started,
         link' \in [Subs -> Links],
         \A s \in Subs : /\ ~Used(s) => link'[s] = Down
                         /\ ConnOK(link'[s], sub'[s].at, sub'[s].next, Base(s), Len(Buf'))
  PROVE  ReaderInv'
<1>1. UNCHANGED <<lane, sock, timer, attempts, queue, delivered, done, sawDone, reading, got, ended>>
  BY DEF client, reader, caller
<1>2. ClientTypeOK' /\ ClientOK'
  BY <1>1 DEF TransportInv, ReaderInv, ClientTypeOK, ClientOK, Numbered
<1>3. ASSUME NEW s \in Subs PROVE LinkOK(s)'
  <2>1. Base(s)' = Base(s) /\ Used(s)' = Used(s)
    BY <1>1 DEF Base, Received, Used
  <2>2. Len(Buf)' = Len(Buf')
    OBVIOUS
  <2> QED
    BY <2>1, <2>2 DEF LinkOK
<1> QED
  BY <1>2, <1>3 DEF ReaderInv

LEMMA OneLink ==
  ASSUME TransportInv, UNCHANGED <<restarts, client>>, started' = started,
         run'[1].buf = run[1].buf, NEW s \in Subs, \A t \in Subs \ {s} : sub'[t] = sub[t],
         NEW l \in Links, link' = [link EXCEPT ![s] = l], Used(s) \/ l = Down,
         ConnOK(l, sub'[s].at, sub'[s].next, Base(s), Len(Buf))
  PROVE  ReaderInv'
<1>1. link \in [Subs -> Links] /\ restarts \in 0 .. MaxRestarts /\ Buf' = Buf
  BY DEF TransportInv, ReaderInv, ClientTypeOK, Buf
<1>2. link' \in [Subs -> Links] /\ link'[s] = l /\ \A t \in Subs \ {s} : link'[t] = link[t]
  BY <1>1
<1>3. ASSUME NEW t \in Subs
      PROVE  /\ ~Used(t) => link'[t] = Down
             /\ ConnOK(link'[t], sub'[t].at, sub'[t].next, Base(t), Len(Buf'))
  <2>1. CASE t = s
    BY <1>1, <1>2, <2>1
  <2>2. CASE t # s
    <3>1. link'[t] = link[t] /\ sub'[t] = sub[t]
      BY <1>2, <2>2
    <3> QED
      BY <1>1, <3>1, ReaderFacts
  <2> QED
    BY <2>1, <2>2
<1> QED
  BY <1>1, <1>2, <1>3, ReaderUnmoved

LEMMA OneRun ==
  ASSUME NEW c \in Runs, NEW new, 1 \in Runs, run \in [Runs -> RunStates],
         run' = [run EXCEPT ![c] = new], new.buf = run[c].buf
  PROVE  Buf' = Buf
BY DEF Buf

(* An event is published, or none: generators stay where they are.         *)
LEMMA RunSteps ==
  ASSUME RunsInv, NEW r \in Runs, Drain(r) \/ Evict(r) \/ Stop
  PROVE  /\ started' = started
         /\ \A s \in Subs : sub'[s].at = sub[s].at /\ sub'[s].next = sub[s].next
         /\ Len(Buf') \in Nat
         /\ Buf' = Buf \/ (~Complete(1) /\ Len(Buf') > Len(Buf))
<1>0. /\ run \in [Runs -> RunStates] /\ sub \in [Subs -> SubStates] /\ 1 \in Runs /\ Len(Buf) \in Nat
      /\ current \in 0 .. MaxRuns /\ run[r] \in RunStates
      /\ Buf \in Seq({"text", "DONE"})
  BY RunFacts DEF RunsInv, RunsTypeOK
<1>1. ASSUME NEW items, sub' = Put(r, items), NEW s \in Subs
      PROVE  sub'[s].at = sub[s].at /\ sub'[s].next = sub[s].next
  BY <1>0, <1>1 DEF Put, SubStates
<1>2. CASE Stop \/ Begin(r) \/ Resume(r) \/ CancelEarly(r) \/ CancelDrain(r) \/ Evict(r)
  <2>1. started' = started /\ sub' = sub
    BY <1>2 DEF Stop, Begin, Resume, CancelEarly, CancelDrain, Evict
  <2>3. Buf' = Buf
    <3>0. ASSUME Stop PROVE current \in Runs /\ run[current] \in RunStates
      BY <1>0, <3>0 DEF Stop, Runs
    <3>1. CASE Stop
      <4> DEFINE new == [run[current] EXCEPT !.cancel = TRUE]
      <4>1. run' = [run EXCEPT ![current] = new]
        BY <3>1 DEF Stop
      <4>2. new.buf = run[current].buf
        BY <1>0, <3>0, <3>1 DEF RunStates
      <4> HIDE DEF new
      <4> QED
        BY <1>0, <4>1, <4>2, <3>0, <3>1, OneRun
    <3>2. CASE Begin(r)
      <4> DEFINE new == [run[r] EXCEPT !.task = IF run[r].after # 0 /\ Unfinished(run[r].after)
                                                   THEN "waiting" ELSE "draining"]
      <4>1. run' = [run EXCEPT ![r] = new]
        BY <3>2 DEF Begin
      <4>2. new.buf = run[r].buf
        BY <1>0 DEF RunStates
      <4> HIDE DEF new
      <4> QED
        BY <1>0, <4>1, <4>2, OneRun
    <3>3. CASE Resume(r)
      <4> DEFINE new == [run[r] EXCEPT !.task = "draining"]
      <4>1. run' = [run EXCEPT ![r] = new]
        BY <3>3 DEF Resume
      <4>2. new.buf = run[r].buf
        BY <1>0 DEF RunStates
      <4> HIDE DEF new
      <4> QED
        BY <1>0, <4>1, <4>2, OneRun
    <3>4. CASE CancelEarly(r)
      <4> DEFINE new == [run[r] EXCEPT !.task = "ended", !.cancel = FALSE]
      <4>1. run' = [run EXCEPT ![r] = new]
        BY <3>4 DEF CancelEarly
      <4>2. new.buf = run[r].buf
        BY <1>0 DEF RunStates
      <4> HIDE DEF new
      <4> QED
        BY <1>0, <4>1, <4>2, OneRun
    <3>5. CASE CancelDrain(r)
      <4> DEFINE new == [run[r] EXCEPT !.status = "stopped", !.task = "closing", !.cancel = FALSE]
      <4>1. run' = [run EXCEPT ![r] = new]
        BY <3>5 DEF CancelDrain
      <4>2. new.buf = run[r].buf
        BY <1>0 DEF RunStates
      <4> HIDE DEF new
      <4> QED
        BY <1>0, <4>1, <4>2, OneRun
    <3>6. CASE Evict(r)
      <4> DEFINE new == [run[r] EXCEPT !.timer = FALSE]
      <4>1. run' = [run EXCEPT ![r] = new]
        BY <3>6 DEF Evict
      <4>2. new.buf = run[r].buf
        BY <1>0 DEF RunStates
      <4> HIDE DEF new
      <4> QED
        BY <1>0, <4>1, <4>2, OneRun
    <3> QED
      BY <1>2, <3>1, <3>2, <3>3, <3>4, <3>5, <3>6
  <2> QED
    BY <1>0, <2>1, <2>3
<1>3. ASSUME NEW kind \in {"text", "DONE"}, Publish(r, kind)
      PROVE  /\ started' = started /\ sub' = Put(r, <<Len(run[r].buf)>>)
             /\ Len(Buf') \in Nat
             /\ Buf' = Buf \/ (~Complete(1) /\ Len(Buf') > Len(Buf))
  <2>1. /\ started' = started /\ sub' = Put(r, <<Len(run[r].buf)>>) /\ ~Complete(r)
        /\ run' = [run EXCEPT ![r].buf = Append(@, kind)]
    BY <1>3 DEF Publish
  <2>2. CASE r = 1
    <3>1. Buf' = Append(Buf, kind)
      BY <1>0, <2>1, <2>2 DEF Buf
    <3>2. Len(Append(Buf, kind)) = Len(Buf) + 1
      BY <1>0
    <3> QED
      BY <1>0, <2>1, <2>2, <3>1, <3>2
  <2>3. CASE r # 1
    BY <1>0, <2>1, <2>3 DEF Buf
  <2> QED
    BY <2>1, <2>2, <2>3
<1>4. ASSUME NEW changed, NEW items, Ended(r, changed, items)
      PROVE  /\ started' = started /\ sub' = Put(r, Append(items, End))
             /\ r # 1 => Buf' = Buf
             /\ r = 1 => Buf' = changed.buf
  <2> DEFINE runs == [run EXCEPT ![r] = [changed EXCEPT !.task = "ended", !.cancel = FALSE]]
  <2>1. /\ started' = started /\ sub' = Put(r, Append(items, End)) /\ run' = Rearmed(runs)
    BY <1>4 DEF Ended
  <2>2. Rearmed(runs)[1].buf = runs[1].buf
    BY <1>0 DEF Rearmed
  <2>3. /\ r # 1 => runs[1] = run[1]
        /\ r = 1 => runs[1].buf = changed.buf
    BY <1>0
  <2> QED
    BY <2>1, <2>2, <2>3 DEF Buf
<1>5. CASE Finish(r) \/ CloseGenerator(r)
  <2>1. \E changed : Ended(r, changed, <<>>) /\ changed.buf = run[r].buf
    BY <1>0, <1>5 DEF Finish, CloseGenerator, RunStates
  <2>2. /\ started' = started /\ sub' = Put(r, Append(<<>>, End)) /\ Buf' = Buf
    BY <1>4, <2>1 DEF Buf
  <2> QED
    BY <1>0, <1>1, <2>2
<1>6. CASE Fail(r)
  <2> DEFINE n == Len(run[r].buf)
             added == run[r].buf \o <<"text", "DONE">>
             changed == [run[r] EXCEPT !.status = "error", !.buf = added]
  <2>1. Ended(r, changed, <<n, n + 1>>) /\ ~Complete(r)
    BY <1>6 DEF Fail
  <2>2. changed.buf = added
    BY <1>0 DEF RunStates
  <2>3. r = 1 => Len(added) = Len(Buf) + 2
    BY <1>0 DEF Buf
  <2> HIDE DEF changed, added
  <2>4. /\ started' = started /\ sub' = Put(r, Append(<<n, n + 1>>, End))
        /\ r # 1 => Buf' = Buf
        /\ r = 1 => Len(Buf') = Len(Buf) + 2
    BY <1>4, <2>1, <2>2, <2>3
  <2>5. Len(Buf') \in Nat /\ (Buf' = Buf \/ (~Complete(1) /\ Len(Buf') > Len(Buf)))
    <3>1. CASE r = 1
      BY <1>0, <2>1, <2>4, <3>1
    <3>2. CASE r # 1
      BY <1>0, <2>4, <3>2
    <3> QED
      BY <3>1, <3>2
  <2> QED
    BY <1>1, <2>4, <2>5
<1> QED
  BY <1>1, <1>2, <1>3, <1>5, <1>6 DEF Drain

-----------------------------------------------------------------------------
(* The server's steps keep the invariant.                                  *)

LEMMA RestartKeepsRuns == ASSUME TransportInv, Restart PROVE RunsInv' /\ Buf' = Buf
<1>0. /\ run \in [Runs -> RunStates] /\ started \in 0 .. MaxRuns /\ 1 \in Runs
      /\ \A k \in Runs : RunOK(k)
  BY RunFacts DEF TransportInv, RunsInv, RunsTypeOK
<1>1. Off \in SubStates /\ Off.at = "off"
  BY AgentRunsAssumption DEF Off, SubStates, AgentRunsAssumption
<1>2. /\ current' = 0 /\ started' = started /\ sub' = [s \in Subs |-> Off]
      /\ run' = [k \in Runs |-> IF k > started THEN run[k]
                                ELSE [run[k] EXCEPT !.task = "ended", !.status = "stopped",
                                                    !.timer = FALSE, !.cancel = FALSE]]
  BY DEF Restart
<1>3. ASSUME NEW k \in Runs
      PROVE  /\ run'[k] \in RunStates /\ run'[k].buf = run[k].buf
             /\ k > started => run'[k] = run[k]
             /\ ~(k > started) => run'[k].task = "ended"
  <2> DEFINE stopped == [run[k] EXCEPT !.task = "ended", !.status = "stopped",
                                       !.timer = FALSE, !.cancel = FALSE]
  <2>1. stopped \in RunStates /\ stopped.buf = run[k].buf /\ stopped.task = "ended"
    BY <1>0 DEF RunStates
  <2>2. run'[k] = IF k > started THEN run[k] ELSE stopped
    BY <1>2
  <2> HIDE DEF stopped
  <2> QED
    BY <1>0, <2>1, <2>2
<1>4. run' \in [Runs -> RunStates]
  <2>1. run' = [k \in Runs |-> run'[k]]
    BY <1>2
  <2> QED
    BY <1>3, <2>1
<1>5. RunsTypeOK' /\ current' <= started'
  <2>1. current' = 0 /\ started' = started /\ sub' = [s \in Subs |-> Off]
    BY DEF Restart
  <2>2. sub' \in [Subs -> SubStates]
    BY <1>1, <2>1
  <2>3. started \in 0 .. MaxRuns /\ MaxRuns \in Nat
    BY <1>0, AgentRunsAssumption DEF AgentRunsAssumption
  <2> QED
    BY <1>4, <2>1, <2>2, <2>3 DEF RunsTypeOK
<1>6. ASSUME NEW k \in Runs PROVE RunOK(k)'
  <2>1. RunOK(k) /\ k \in Nat
    BY <1>0 DEF Runs
  <2>2. run'[k].buf = run[k].buf /\ started' = started
    BY <1>2, <1>3
  <2>3. Complete(k)' <=> Complete(k)
    BY <2>2 DEF Complete
  <2>4. /\ run'[k].task \in {"none", "created", "waiting", "draining"} => run'[k].status = "running"
        /\ k > started => run'[k] = NotStarted
    <3>1. CASE k > started
      BY <1>3, <2>1, <3>1 DEF RunOK
    <3>2. CASE ~(k > started)
      BY <1>3, <3>2
    <3> QED
      BY <3>1, <3>2
  <2> QED
    BY <2>1, <2>2, <2>3, <2>4 DEF RunOK
<1>7. ASSUME NEW s \in Subs PROVE SubOK(s)'
  BY <1>1, <1>2 DEF SubOK
<1> QED
  BY <1>0, <1>3, <1>5, <1>6, <1>7 DEF RunsInv, Buf

LEMMA DownStaysDown == [Down EXCEPT !.up = FALSE, !.fresh = FALSE] = Down
<1> SUFFICES ASSUME NEW d, d = [up |-> FALSE, fresh |-> FALSE, resume |-> 0, idx |-> 0, wire |-> <<>>],
                    NEW e, e = [d EXCEPT !.up = FALSE, !.fresh = FALSE]
             PROVE  e = d
  BY DEF Down
<1>1. e = [up |-> FALSE, fresh |-> FALSE, resume |-> e.resume, idx |-> e.idx, wire |-> e.wire]
  OBVIOUS
<1>2. e.resume = 0 /\ e.idx = 0 /\ e.wire = <<>>
  OBVIOUS
<1> QED
  BY <1>1, <1>2

LEMMA RestartStep == ASSUME TransportInv, Restart PROVE RunsInv' /\ ReaderInv'
<1>1. RunsInv' /\ Buf' = Buf
  BY RestartKeepsRuns
<1>2. /\ UNCHANGED client /\ started' = started /\ restarts' = restarts + 1 /\ restarts < MaxRestarts
      /\ link' = [s \in Subs |-> [link[s] EXCEPT !.up = FALSE, !.fresh = FALSE]]
  BY DEF Restart
<1>3. restarts' \in 0 .. MaxRestarts
  <2>1. restarts \in 0 .. MaxRestarts /\ MaxRestarts \in Nat
    BY ChatTransportAssumption DEF TransportInv, ReaderInv, ClientTypeOK, ChatTransportAssumption
  <2>2. restarts' = restarts + 1 /\ restarts < MaxRestarts
    BY DEF Restart
  <2> QED
    BY <2>1, <2>2
<1>4. ASSUME NEW s \in Subs
      PROVE  /\ link'[s] \in Links /\ (~Used(s) => link'[s] = Down)
             /\ ConnOK(link'[s], sub'[s].at, sub'[s].next, Base(s), Len(Buf'))
  <2> DEFINE m == [link[s] EXCEPT !.up = FALSE, !.fresh = FALSE]
  <2>1. link[s] \in Links /\ Base(s) \in Nat /\ (~Used(s) => link[s] = Down)
        /\ ConnOK(link[s], sub[s].at, sub[s].next, Base(s), Len(Buf))
    BY ReaderFacts
  <2>2. m \in Links /\ m.wire = link[s].wire /\ ~m.up /\ link'[s] = m
    BY <1>2, <2>1 DEF Links
  <2>3. ~Used(s) => m = Down
    BY <2>1, DownStaysDown
  <2> HIDE DEF m
  <2>4. Len(Buf) \in Nat
    BY RunFacts DEF TransportInv
  <2>5. ConnOK(m, sub'[s].at, sub'[s].next, Base(s), Len(Buf))
    BY <2>1, <2>2, <2>4, ConnGone
  <2> QED
    BY <1>1, <2>2, <2>3, <2>5
<1>5. link' \in [Subs -> Links]
  BY <1>2, <1>4
<1> QED
  BY <1>1, <1>2, <1>3, <1>4, <1>5, ReaderUnmoved

LEMMA ServerStep == ASSUME TransportInv, Server PROVE ReaderInv'
<1>1. PICK r \in Runs : Drain(r) \/ Evict(r) \/ Stop
  BY RunFacts DEF Server, TransportInv
<1>2. /\ started' = started /\ Len(Buf') \in Nat
      /\ \A s \in Subs : sub'[s].at = sub[s].at /\ sub'[s].next = sub[s].next
      /\ Buf' = Buf \/ (~Complete(1) /\ Len(Buf') > Len(Buf))
  BY <1>1, RunSteps DEF TransportInv
<1>3. UNCHANGED <<link, restarts, client>>
  BY DEF Server
<1>4. Len(Buf) \in Nat /\ Len(Buf) <= Len(Buf')
  BY <1>2, RunFacts DEF TransportInv
<1>5. ASSUME NEW s \in Subs
      PROVE  /\ ~Used(s) => link'[s] = Down
             /\ ConnOK(link'[s], sub'[s].at, sub'[s].next, Base(s), Len(Buf'))
  <2>1. ConnOK(link[s], sub[s].at, sub[s].next, Base(s), Len(Buf')) /\ (~Used(s) => link[s] = Down)
    BY <1>2, <1>4, ReaderFacts, ConnFrame
  <2> QED
    BY <1>2, <1>3, <2>1
<1>6. link' \in [Subs -> Links] /\ restarts' \in 0 .. MaxRestarts
  BY <1>3 DEF TransportInv, ReaderInv, ClientTypeOK
<1> QED
  BY <1>2, <1>3, <1>5, <1>6, ReaderUnmoved

LEMMA GeneratorSteps ==
  ASSUME RunsInv, NEW s \in Subs,
         Subscribe(s) \/ Yield(s) \/ Silent(s) \/ Return(s) \/ CloseSub(s)
  PROVE  /\ started' = started /\ run'[1].buf = run[1].buf
         /\ \A t \in Subs \ {s} : sub'[t] = sub[t]
<1>0. run \in [Runs -> RunStates] /\ sub \in [Subs -> SubStates] /\ 1 \in Runs /\ current \in 0 .. MaxRuns
  BY RunFacts DEF RunsInv, RunsTypeOK
<1>1. started' = started /\ \E new : sub' = [sub EXCEPT ![s] = new]
  BY DEF Subscribe, Yield, Replay, TakeLive, Silent, GoLive, SkipReplayed, SeeSentinel, Return, CloseSub, Leave
<1>2. CASE Subscribe(s)
  <2> DEFINE new == [run[current] EXCEPT !.timer = FALSE]
  <2>1. current \in Runs /\ run' = [run EXCEPT ![current] = new]
    BY <1>0, <1>2 DEF Subscribe, Runs
  <2>2. new.buf = run[current].buf
    BY <1>0, <2>1 DEF RunStates
  <2> HIDE DEF new
  <2>3. run'[1].buf = run[1].buf
    BY <1>0, <2>1, <2>2, OneRun DEF Buf
  <2> QED
    BY <1>0, <1>1, <2>3
<1>3. CASE Yield(s) \/ Silent(s)
  <2>1. run' = run
    BY <1>3 DEF Yield, Replay, TakeLive, Silent, GoLive, SkipReplayed, SeeSentinel
  <2> QED
    BY <1>0, <1>1, <2>1
<1>4. CASE Return(s) \/ CloseSub(s)
  <2>1. run' = run \/ run' = Rearmed(run)
    BY <1>4 DEF Return, CloseSub, Leave
  <2>2. run'[1].buf = run[1].buf
    BY <1>0, <2>1, RearmedKeeps
  <2> QED
    BY <1>0, <1>1, <2>2
<1> QED
  BY <1>2, <1>3, <1>4

LEMMA UsedOf == ASSUME TransportInv, NEW s \in Subs, link[s].up PROVE Used(s)
  BY ReaderFacts DEF Down

LEMMA ServeStep == ASSUME TransportInv, NEW s \in Subs, Serve(s) PROVE ReaderInv'
<1>0. /\ link[s] \in Links /\ Base(s) \in Nat /\ link[s].up /\ link[s].fresh /\ Used(s)
      /\ ConnOK(link[s], sub[s].at, sub[s].next, Base(s), Len(Buf)) /\ Len(Buf) \in Nat
      /\ link \in [Subs -> Links] /\ sub \in [Subs -> SubStates]
      /\ UNCHANGED <<restarts, client>>
  BY ReaderFacts, UsedOf, RunFacts
     DEF Serve, TransportInv, ReaderInv, ClientTypeOK, RunsInv, RunsTypeOK
<1>1. CASE Subscribe(s) /\ link' = [link EXCEPT ![s].fresh = FALSE]
  <2> DEFINE m == [link[s] EXCEPT !.fresh = FALSE]
  <2>1. m \in Links /\ ConnOK(m, "replay", 0, Base(s), Len(Buf))
    BY <1>0, ConnServe
  <2>2. sub'[s].at = "replay" /\ sub'[s].next = 0
    BY <1>0, <1>1 DEF Subscribe
  <2>3. started' = started /\ run'[1].buf = run[1].buf /\ \A t \in Subs \ {s} : sub'[t] = sub[t]
    BY <1>1, GeneratorSteps DEF TransportInv
  <2>4. link' = [link EXCEPT ![s] = m]
    BY <1>1
  <2> HIDE DEF m
  <2> QED
    BY <1>0, <2>1, <2>2, <2>3, <2>4, OneLink
<1>2. ASSUME NEW kind \in {"end", "error"}, UNCHANGED runsVars,
             link' = [link EXCEPT ![s].fresh = FALSE, ![s].wire = Append(@, Frame(kind))]
      PROVE  ReaderInv'
  <2> DEFINE m == [link[s] EXCEPT !.fresh = FALSE, !.wire = Append(@, Frame(kind))]
  <2>1. m \in Links /\ ConnOK(m, sub[s].at, sub[s].next, Base(s), Len(Buf))
    BY <1>0, ConnRefuse
  <2>2. sub' = sub /\ run' = run /\ started' = started
    BY <1>2 DEF runsVars
  <2>3. link' = [link EXCEPT ![s] = m]
    BY <1>0, <1>2
  <2> HIDE DEF m
  <2> QED
    BY <1>0, <2>1, <2>2, <2>3, OneLink
<1> QED
  BY <1>1, <1>2 DEF Serve

LEMMA RelayStep == ASSUME TransportInv, NEW s \in Subs, Relay(s) PROVE ReaderInv'
<1>0. /\ link[s] \in Links /\ Base(s) \in Nat /\ link[s].up /\ Used(s)
      /\ ConnOK(link[s], sub[s].at, sub[s].next, Base(s), Len(Buf)) /\ Len(Buf) \in Nat
      /\ link \in [Subs -> Links] /\ sub \in [Subs -> SubStates]
      /\ UNCHANGED <<restarts, client>>
  BY ReaderFacts, UsedOf, RunFacts
     DEF Relay, TransportInv, ReaderInv, ClientTypeOK, RunsInv, RunsTypeOK
<1>1. /\ sub[s].at # "off" /\ sub'[s].at # "off" /\ sub[s].run = 1 /\ sub[s].next \in Nat
      /\ sub'[s].next = sub[s].next + 1 /\ sub'[s].next <= Len(Buf)
  <2>1. sub[s].at # "off" /\ sub'[s].at # "off" /\ sub'[s].run = sub[s].run /\ Yield(s)
    BY <1>0 DEF Relay, Yield, Replay, TakeLive, Queued, SubStates
  <2>2. sub[s].run = 1 /\ sub[s].next \in Nat /\ sub[s] \in SubStates
    BY <2>1, GeneratorFacts
  <2>3. sub'[s].next = sub[s].next + 1
    <3>1. CASE Replay(s)
      BY <1>0, <3>1 DEF Replay, SubStates
    <3>2. CASE TakeLive(s)
      <4>1. Head(sub[s].q) = sub[s].next
        BY <3>2, TakenInOrder DEF TransportInv
      <4>2. sub'[s].next = Head(sub[s].q) + 1
        BY <1>0, <3>2 DEF TakeLive, SubStates
      <4> QED
        BY <4>1, <4>2
    <3> QED
      BY <2>1, <3>1, <3>2 DEF Yield
  <2>4. RunsInv'
    BY <2>1, RunsInvStep DEF TransportInv, RunsNext
  <2>5. run'[1].buf = run[1].buf
    BY <2>1, GeneratorSteps DEF TransportInv
  <2>6. SubOK(s)'
    BY <2>4 DEF RunsInv
  <2>7. sub'[s].next <= Len(Buf)
    BY <2>1, <2>2, <2>5, <2>6 DEF SubOK, Buf
  <2> QED
    BY <2>1, <2>2, <2>3, <2>7
<1>2. started' = started /\ run'[1].buf = run[1].buf /\ \A t \in Subs \ {s} : sub'[t] = sub[t]
  BY GeneratorSteps DEF Relay, TransportInv
<1>3. CASE link[s].idx < link[s].resume
  <2> DEFINE m == [link[s] EXCEPT !.idx = @ + 1]
  <2>1. m \in Links /\ ConnOK(m, sub'[s].at, sub[s].next + 1, Base(s), Len(Buf))
    BY <1>0, <1>1, <1>3, ConnSkip
  <2>2. link' = [link EXCEPT ![s].idx = @ + 1, ![s].wire = @]
    BY <1>3 DEF Relay
  <2>3. link' = [link EXCEPT ![s] = m]
    BY <1>0, <2>2 DEF Links
  <2> HIDE DEF m
  <2> QED
    BY <1>0, <1>1, <1>2, <2>1, <2>3, OneLink
<1>4. CASE ~(link[s].idx < link[s].resume)
  <2> DEFINE m == [link[s] EXCEPT !.idx = @ + 1, !.wire = Append(@, Chunk(1, sub[s].next + 1))]
  <2>1. Chunk(1, sub[s].next + 1) \in Frames
    BY <1>1, RunFacts DEF Chunk, Frames, Events, TransportInv
  <2>2. m \in Links /\ ConnOK(m, sub'[s].at, sub[s].next + 1, Base(s), Len(Buf))
    BY <1>0, <1>1, <1>4, <2>1, ConnRelay
  <2>3. link' = [link EXCEPT ![s].idx = @ + 1, ![s].wire = Append(@, Chunk(sub[s].run, sub'[s].next))]
    BY <1>4 DEF Relay
  <2>4. link' = [link EXCEPT ![s] = m]
    BY <1>0, <1>1, <2>3
  <2> HIDE DEF m
  <2> QED
    BY <1>0, <1>1, <1>2, <2>2, <2>4, OneLink
<1> QED
  BY <1>3, <1>4

LEMMA LeaveEffect ==
  ASSUME TransportInv, NEW s \in Subs, Return(s) \/ CloseSub(s)
  PROVE  /\ sub[s].at # "off" /\ sub'[s].at = "off" /\ sub'[s].next = 0
         /\ started' = started /\ run'[1].buf = run[1].buf
         /\ \A t \in Subs \ {s} : sub'[t] = sub[t]
<1>1. sub \in [Subs -> SubStates]
  BY DEF TransportInv, RunsInv, RunsTypeOK
<1>2. sub[s].at # "off" /\ sub' = [sub EXCEPT ![s] = Off]
  BY DEF Return, CloseSub, Leave, AtEnd
<1>3. started' = started /\ run'[1].buf = run[1].buf /\ \A t \in Subs \ {s} : sub'[t] = sub[t]
  BY GeneratorSteps DEF TransportInv
<1> QED
  BY <1>1, <1>2, <1>3 DEF Off

LEMMA RelayEndStep == ASSUME TransportInv, NEW s \in Subs, RelayEnd(s) PROVE ReaderInv'
<1> DEFINE m == [link[s] EXCEPT !.wire = Append(@, Frame("end"))]
<1>0. /\ link[s] \in Links /\ Base(s) \in Nat /\ link[s].up /\ Used(s)
      /\ ConnOK(link[s], sub[s].at, sub[s].next, Base(s), Len(Buf)) /\ Len(Buf) \in Nat
      /\ link \in [Subs -> Links] /\ UNCHANGED <<restarts, client>>
      /\ link' = [link EXCEPT ![s].wire = Append(@, Frame("end"))]
  BY ReaderFacts, UsedOf, RunFacts
     DEF RelayEnd, Sent, TransportInv, ReaderInv, ClientTypeOK
<1>1. /\ sub[s].at # "off" /\ sub'[s].at = "off" /\ sub'[s].next = 0
      /\ started' = started /\ run'[1].buf = run[1].buf
      /\ \A t \in Subs \ {s} : sub'[t] = sub[t]
  BY LeaveEffect DEF RelayEnd
<1>2. m \in Links /\ ConnOK(m, "off", 0, Base(s), Len(Buf))
  BY <1>0, <1>1, ConnEnd
<1>3. link' = [link EXCEPT ![s] = m]
  BY <1>0
<1> HIDE DEF m
<1> QED
  BY <1>0, <1>1, <1>2, <1>3, OneLink

(* A generator whose connection stays as it is.                            *)
LEMMA LinkStays ==
  ASSUME TransportInv, UNCHANGED <<link, restarts, client>>, started' = started,
         run'[1].buf = run[1].buf, NEW s \in Subs, \A t \in Subs \ {s} : sub'[t] = sub[t],
         ConnOK(link[s], sub'[s].at, sub'[s].next, Base(s), Len(Buf))
  PROVE  ReaderInv'
<1>1. link \in [Subs -> Links] /\ link[s] \in Links /\ (Used(s) \/ link[s] = Down)
  BY ReaderFacts DEF TransportInv, ReaderInv, ClientTypeOK
<1>2. link' = [link EXCEPT ![s] = link[s]]
  BY <1>1
<1> QED
  BY <1>1, <1>2, OneLink

LEMMA GenerateStep == ASSUME TransportInv, NEW s \in Subs, Generate(s) PROVE ReaderInv'
<1>1. started' = started /\ run'[1].buf = run[1].buf /\ \A t \in Subs \ {s} : sub'[t] = sub[t]
  BY GeneratorSteps DEF Generate, TransportInv
<1>2. sub \in [Subs -> SubStates] /\ Len(Buf) \in Nat /\ Len(Buf) <= Len(Buf)
  BY RunFacts DEF TransportInv, RunsInv, RunsTypeOK
<1>3. sub[s].at # "off" /\ sub'[s].at # "off" /\ sub'[s].next = sub[s].next
  BY <1>2 DEF Generate, Silent, GoLive, SkipReplayed, SeeSentinel, Queued, SubStates
<1>4. link[s] \in Links /\ Base(s) \in Nat
      /\ ConnOK(link[s], sub[s].at, sub[s].next, Base(s), Len(Buf))
  BY ReaderFacts
<1>5. ConnOK(link[s], sub'[s].at, sub[s].next, Base(s), Len(Buf))
  BY <1>2, <1>3, <1>4, ConnFrame
<1> QED
  BY <1>1, <1>3, <1>5, LinkStays DEF Generate

LEMMA RelayFailsStep == ASSUME TransportInv, NEW s \in Subs, RelayFails(s) PROVE ReaderInv'
<1>1. /\ sub'[s].at = "off" /\ sub'[s].next = 0
      /\ started' = started /\ run'[1].buf = run[1].buf
      /\ \A t \in Subs \ {s} : sub'[t] = sub[t]
  BY LeaveEffect DEF RelayFails
<1>2. link[s] \in Links /\ Base(s) \in Nat /\ Len(Buf) \in Nat /\ ~link[s].up
      /\ ConnOK(link[s], sub[s].at, sub[s].next, Base(s), Len(Buf))
  BY ReaderFacts, RunFacts DEF RelayFails, TransportInv
<1>3. ConnOK(link[s], sub'[s].at, sub'[s].next, Base(s), Len(Buf))
  BY <1>2, ConnGone
<1> QED
  BY <1>1, <1>3, LinkStays DEF RelayFails

-----------------------------------------------------------------------------
(* The reader's steps keep the invariant, and hand over at most the next   *)
(* event.                                                                  *)

Delivers ==
  \/ UNCHANGED <<got, ended>>
  \/ ended = "no" /\ ended' \in {"short", Judged} /\ UNCHANGED got
  \/ /\ ended = "no" /\ Len(got) + 1 <= Len(Buf)
     /\ got' = Append(got, [run |-> 1, seq |-> Len(got) + 1])
     /\ ended' = ended

LEMMA JudgedIs == Judged \in {"complete", "short"}
  BY DEF Judged

LEMMA ReaderMoves ==
  ASSUME TransportInv, UNCHANGED runsVars, restarts' \in 0 .. MaxRestarts,
         ClientTypeOK', ClientOK',
         \A s \in Subs :
           \/ link'[s] = Down /\ Base(s)' \in Nat /\ Base(s)' <= Len(Buf)
           \/ link'[s] = link[s] /\ Base(s)' = Base(s) /\ (Used(s) => Used(s)')
           \/ Used(s)' /\ ConnOK(link'[s], sub[s].at, sub[s].next, Base(s)', Len(Buf))
  PROVE  ReaderInv'
<1>1. run' = run /\ sub' = sub /\ Buf' = Buf /\ Len(Buf) \in Nat
  BY RunFacts DEF runsVars, Buf, TransportInv
<1>2. ASSUME NEW s \in Subs PROVE LinkOK(s)'
  <2>1. CASE link'[s] = Down /\ Base(s)' \in Nat /\ Base(s)' <= Len(Buf)
    <3>1. ConnOK(Down, sub[s].at, sub[s].next, Base(s)', Len(Buf))
      BY <1>1, <2>1, ConnDown
    <3> QED
      BY <1>1, <2>1, <3>1 DEF LinkOK
  <2>2. CASE link'[s] = link[s] /\ Base(s)' = Base(s) /\ (Used(s) => Used(s)')
    BY <1>1, <2>2, ReaderFacts DEF LinkOK
  <2>3. CASE Used(s)' /\ ConnOK(link'[s], sub[s].at, sub[s].next, Base(s)', Len(Buf))
    BY <1>1, <2>3 DEF LinkOK
  <2> QED
    BY <2>1, <2>2, <2>3
<1> QED
  BY <1>2 DEF ReaderInv

LEMMA ClientFacts ==
  ASSUME TransportInv
  PROVE  /\ Subs = Socks \cup {Sse}
         /\ Sse \in Subs /\ Socks \subseteq Subs /\ Sse \notin Socks
         /\ "none" \notin Socks /\ "connecting" \notin Socks
         /\ Len(Buf) \in Nat /\ MaxReconnects \in Nat
         /\ Len(got) \in Nat /\ Len(queue) \in Nat /\ Received \in Nat
         /\ Len(got) <= Len(Buf) /\ (lane = "ws" => Received <= Len(Buf))
         /\ ClientTypeOK /\ ClientOK
<1>1. /\ Subs = Socks \cup {Sse}
      /\ Sse \in Subs /\ Socks \subseteq Subs /\ Sse \notin Socks
      /\ "none" \notin Socks /\ "connecting" \notin Socks /\ MaxReconnects \in Nat
  BY ChatTransportAssumption DEF ChatTransportAssumption
<1>2. ClientTypeOK /\ ClientOK /\ Len(Buf) \in Nat
  BY RunFacts DEF TransportInv, ReaderInv
<1>3. Len(got) \in Nat /\ Len(queue) \in Nat /\ delivered \in Nat
  BY <1>2, LenProperties DEF ClientTypeOK
<1>4. Received \in Nat
  BY <1>3 DEF Received
<1>5. Len(got) <= Len(Buf)
  BY <1>1, ReaderFacts DEF Base
<1>6. ASSUME lane = "ws" PROVE Received <= Len(Buf)
  <2>1. PICK s \in Socks : TRUE
    BY <1>2, <1>6 DEF ClientOK
  <2> QED
    BY <1>1, <2>1, ReaderFacts DEF Base
<1> QED
  BY <1>1, <1>2, <1>3, <1>4, <1>5, <1>6

(* A link that is not in use is down.                                      *)
LEMMA UnusedIsDown ==
  ASSUME TransportInv, NEW s \in Subs
  PROVE  /\ s \in Socks => (s = sock \/ link[s] = Down)
         /\ lane \notin {"choosing", "sse"} => link[Sse] = Down
         /\ link[s] \in Links
<1>1. Sse \in Subs /\ Sse \notin Socks
  BY ClientFacts
<1> QED
  BY <1>1, ReaderFacts DEF Used

LEMMA OpenStep == ASSUME TransportInv, Open PROVE ReaderInv' /\ Delivers
<1>0. /\ sock = "connecting" /\ sock' \in Free /\ link' = [link EXCEPT ![sock'] = Up(Received)]
      /\ UNCHANGED <<runsVars, restarts, lane, reader, caller>>
  BY DEF Open, ResumeOffset, Received
<1>1. UNCHANGED <<lane, timer, attempts, queue, delivered, done, sawDone, reading, got, ended>>
  BY <1>0 DEF reader, caller
<1>2. sock' \in Socks /\ sub[sock'].at = "off"
  BY <1>0 DEF Free
<1>3. Received <= Len(Buf) /\ Received \in Nat /\ Len(Buf) \in Nat /\ sock' \in Subs
  BY <1>2, ReaderFacts, ClientFacts DEF Base
<1>4. Up(Received) \in Links /\ ConnOK(Up(Received), "off", sub[sock'].next, Received, Len(Buf))
  BY <1>3, ConnUp
<1>5. ClientTypeOK'
  BY <1>0, <1>1, <1>2, <1>3, <1>4, ClientFacts DEF ClientTypeOK
<1>6. ClientOK'
  BY <1>0, <1>1, ClientFacts DEF ClientOK, Numbered, runsVars
<1>7. ASSUME NEW s \in Subs
      PROVE  \/ link'[s] = link[s] /\ Base(s)' = Base(s) /\ (Used(s) => Used(s)')
             \/ Used(s)' /\ ConnOK(link'[s], sub[s].at, sub[s].next, Base(s)', Len(Buf))
  <2>1. Base(s)' = Base(s) /\ link \in [Subs -> Links]
    BY <1>1, ClientFacts DEF Base, Received, ClientTypeOK
  <2>2. CASE s = sock'
    BY <1>0, <1>2, <1>3, <1>4, <2>1, <2>2, ClientFacts DEF Used, Base
  <2>3. CASE s # sock'
    BY <1>0, <1>1, <2>1, <2>3, ClientFacts DEF Used
  <2> QED
    BY <2>2, <2>3
<1>8. ReaderInv'
  BY <1>0, <1>5, <1>6, <1>7, ReaderMoves, ClientFacts DEF ClientTypeOK
<1> QED
  BY <1>1, <1>8 DEF Delivers

LEMMA FallBackStep == ASSUME TransportInv, FallBack PROVE ReaderInv' /\ Delivers
<1>0. /\ lane = "choosing" /\ lane' = "sse" /\ done' = TRUE /\ sock' = "none" /\ link' = Closed(link)
      /\ UNCHANGED <<runsVars, restarts, timer, attempts, queue, delivered, sawDone, reading, got, ended>>
  BY DEF FallBack, CloseSocket, caller
<1>1. link \in [Subs -> Links] /\ Down \in Links
  BY ClientFacts, ConnDown DEF ClientTypeOK
<1>2. ASSUME NEW s \in Subs
      PROVE  /\ link'[s] = IF s \in Socks /\ s = sock THEN Down ELSE link[s]
             /\ link'[s] \in Links /\ Base(s)' = Base(s)
  <2>1. sock \in Socks => sock \in Subs
    BY ClientFacts
  <2> QED
    BY <1>0, <1>1, <2>1 DEF Closed, Base, Received
<1>3. link' \in [Subs -> Links]
  BY <1>0, <1>1, <1>2 DEF Closed
<1>4. ClientTypeOK'
  BY <1>0, <1>3, ClientFacts DEF ClientTypeOK
<1>5. ClientOK'
  BY <1>0, ClientFacts DEF ClientOK, Numbered, runsVars
<1>6. ASSUME NEW s \in Subs
      PROVE  \/ link'[s] = Down /\ Base(s)' \in Nat /\ Base(s)' <= Len(Buf)
             \/ link'[s] = link[s] /\ Base(s)' = Base(s) /\ (Used(s) => Used(s)')
  BY <1>0, <1>2, ReaderFacts, ClientFacts DEF Used
<1>7. ReaderInv'
  BY <1>0, <1>4, <1>5, <1>6, ReaderMoves, ClientFacts DEF ClientTypeOK
<1> QED
  BY <1>0, <1>7 DEF Delivers

LEMMA AllDown ==
  ASSUME TransportInv, UNCHANGED <<runsVars, restarts, got, queue, delivered>>,
         \A s \in Subs : link'[s] = Down, ClientTypeOK', ClientOK'
  PROVE  ReaderInv'
<1>1. ASSUME NEW s \in Subs PROVE Base(s)' \in Nat /\ Base(s)' <= Len(Buf)
  <2>1. Base(s)' = Base(s)
    BY DEF Base, Received
  <2> QED
    BY <2>1, ReaderFacts
<1>2. restarts' \in 0 .. MaxRestarts
  BY ClientFacts DEF ClientTypeOK
<1> QED
  BY <1>1, <1>2, ReaderMoves

(* No socket is left: those that were not in use are down already.         *)
LEMMA SocketDown ==
  ASSUME TransportInv, lane \in {"choosing", "ws"}
  PROVE  /\ Closed(link) \in [Subs -> Links]
         /\ \A s \in Socks : Closed(link)[s] = Down
         /\ lane = "ws" => Closed(link)[Sse] = Down
<1>1. link \in [Subs -> Links] /\ Down \in Links
  BY ClientFacts, ConnDown DEF ClientTypeOK
<1>2. Socks \subseteq Subs /\ Sse \in Subs /\ Sse \notin Socks
  BY ClientFacts
<1>3. \A s \in Socks : s = sock \/ link[s] = Down
  BY <1>2, UnusedIsDown
<1>4. lane = "ws" => link[Sse] = Down
  BY <1>2, UnusedIsDown
<1> QED
  BY <1>1, <1>2, <1>3, <1>4 DEF Closed

LEMMA ReceiveEndStep ==
  ASSUME TransportInv, NEW s \in Socks, ReceiveEnd(s)
  PROVE  ReaderInv' /\ Delivers
<1>0. /\ sock = s /\ link[s].wire # <<>> /\ sawDone' \in {TRUE, sawDone} /\ lane' = "ws" /\ attempts' = 0
      /\ done' = TRUE /\ timer' = FALSE /\ reading' = FALSE
      /\ ended' = IF reading THEN Judged ELSE ended
      /\ sock' = "none" /\ link' = Closed(Popped(s))
      /\ UNCHANGED <<runsVars, restarts, queue, delivered, got>>
  BY DEF ReceiveEnd, FinishReader
<1>1. lane \in {"choosing", "ws"} /\ sock # "none"
  BY <1>0, ClientFacts DEF ClientTypeOK, ClientOK
<1>2. /\ link \in [Subs -> Links] /\ Down \in Links /\ Socks \subseteq Subs /\ Sse \in Subs
      /\ Sse \notin Socks /\ Subs = Socks \cup {Sse}
  BY ClientFacts, ConnDown DEF ClientTypeOK
<1>3. \A t \in Socks : t = sock \/ link[t] = Down
  BY <1>2, UnusedIsDown
<1>4. lane = "ws" => link[Sse] = Down
  BY <1>2, UnusedIsDown
<1>5. \A t \in Subs : link'[t] = Down
  <2> DEFINE new == [link[s] EXCEPT !.wire = Tail(@)]
             rest == [link EXCEPT ![s] = new]
  <2>1. Popped(s) = IF lane = "choosing" THEN [rest EXCEPT ![Sse] = Down] ELSE rest
    BY <1>2 DEF Popped
  <2> HIDE DEF new
  <2>2. \A t \in Subs \ {s} : Popped(s)[t] = Down
    BY <1>0, <1>1, <1>2, <1>3, <1>4, <2>1
  <2>3. DOMAIN Popped(s) = Subs
    BY <1>2, <2>1
  <2>4. link' = [Popped(s) EXCEPT ![s] = Down]
    BY <1>0 DEF Closed
  <2> HIDE DEF rest
  <2> QED
    BY <2>2, <2>3, <2>4
<1>6. link' \in [Subs -> Links]
  <2>1. link' = [t \in Subs |-> link'[t]]
    BY <1>0, <1>2 DEF Closed, Popped
  <2> QED
    BY <1>2, <1>5, <2>1
<1>7. ClientTypeOK'
  <2>1. sawDone' \in BOOLEAN /\ ended' \in {"no", "complete", "short"}
    BY <1>0, JudgedIs, ClientFacts DEF ClientTypeOK
  <2>2. /\ UNCHANGED <<restarts, queue, delivered, got>> /\ lane' = "ws" /\ attempts' = 0
        /\ done' = TRUE /\ timer' = FALSE /\ reading' = FALSE /\ sock' = "none"
    BY <1>0
  <2>3. attempts' \in 0 .. MaxReconnects + 1
    BY <2>2, ClientFacts
  <2> QED
    BY <1>6, <2>1, <2>2, <2>3, ClientFacts DEF ClientTypeOK
<1>8. ClientOK'
  <2>1. Socks # {}
    OBVIOUS
  <2> QED
    BY <1>0, <1>1, <2>1, ClientFacts DEF ClientOK, Numbered, runsVars
<1>9. ReaderInv'
  BY <1>0, <1>5, <1>7, <1>8, AllDown
<1> QED
  BY <1>0, <1>9, ClientFacts DEF Delivers, ClientOK

LEMMA SocketClosesStep == ASSUME TransportInv, SocketCloses PROVE ReaderInv' /\ Delivers
<1>0. /\ lane = "ws" /\ sock # "none" /\ sock' = "none" /\ link' = Closed(link)
      /\ UNCHANGED <<runsVars, restarts, lane, sawDone, queue, delivered, got>>
      /\ attempts' = IF done \/ sawDone THEN attempts ELSE attempts + 1
      /\ \/ /\ done' = TRUE /\ timer' = FALSE /\ reading' = FALSE
            /\ ended' = IF reading THEN Judged ELSE ended
         \/ /\ ~GiveUp /\ timer' = TRUE /\ UNCHANGED <<done, reading, ended>>
  BY DEF SocketCloses, CloseSocket, FinishReader, caller
<1>1. attempts \in Nat /\ attempts <= MaxReconnects /\ MaxReconnects \in Nat
  BY <1>0, ClientFacts DEF ClientOK, ClientTypeOK
<1>2. attempts' \in 0 .. MaxReconnects + 1 /\ (~GiveUp => attempts' <= MaxReconnects)
  BY <1>0, <1>1 DEF GiveUp
<1>3. link' \in [Subs -> Links] /\ \A s \in Subs : link'[s] = Down
  BY <1>0, SocketDown, ClientFacts
<1>4. ClientTypeOK'
  BY <1>0, <1>2, <1>3, JudgedIs, ClientFacts DEF ClientTypeOK
<1>5. ClientOK'
  BY <1>0, <1>2, ClientFacts DEF ClientOK, Numbered, runsVars
<1>6. ReaderInv'
  BY <1>0, <1>3, <1>4, <1>5, AllDown
<1> QED
  BY <1>0, <1>6, ClientFacts DEF Delivers, ClientOK

LEMMA AbortStep == ASSUME TransportInv, Abort PROVE ReaderInv' /\ Delivers
<1>0. /\ lane # "idle" /\ ended = "no" /\ done' = TRUE /\ timer' = FALSE /\ reading' = FALSE
      /\ ended' = IF reading THEN Judged ELSE ended
      /\ sock' = "none" /\ link' = [Closed(link) EXCEPT ![Sse] = Down]
      /\ UNCHANGED <<runsVars, restarts, lane, attempts, sawDone, queue, delivered, got>>
  BY DEF Abort, FinishReader
<1>1. /\ Down \in Links /\ Socks \subseteq Subs /\ Sse \in Subs /\ Sse \notin Socks
      /\ Subs = Socks \cup {Sse} /\ link \in [Subs -> Links]
  BY ClientFacts, ConnDown DEF ClientTypeOK
<1>2. Closed(link) \in [Subs -> Links] /\ \A s \in Socks : Closed(link)[s] = Down
  <2>1. CASE lane \in {"choosing", "ws"}
    BY <2>1, SocketDown
  <2>2. CASE lane = "sse"
    <3>1. sock = "none" /\ \A s \in Socks : link[s] = Down
      BY <1>1, <2>2, UnusedIsDown, ClientFacts DEF ClientOK
    <3> QED
      BY <1>1, <3>1, ClientFacts DEF Closed
  <2> QED
    BY <1>0, <2>1, <2>2, ClientFacts DEF ClientTypeOK
<1>3. link' \in [Subs -> Links] /\ \A s \in Subs : link'[s] = Down
  BY <1>0, <1>1, <1>2
<1>4. ClientTypeOK'
  BY <1>0, <1>3, JudgedIs, ClientFacts DEF ClientTypeOK
<1>5. ClientOK'
  BY <1>0, ClientFacts DEF ClientOK, Numbered, runsVars
<1>6. ReaderInv'
  BY <1>0, <1>3, <1>4, <1>5, AllDown
<1> QED
  BY <1>0, <1>6 DEF Delivers

LEMMA ReconnectStep == ASSUME TransportInv, Reconnect PROVE ReaderInv' /\ Delivers
<1>0. /\ timer /\ timer' = FALSE /\ sock' = "connecting"
      /\ UNCHANGED <<runsVars, link, restarts, lane, attempts, queue, delivered, done, sawDone,
                     reading, got, ended>>
  BY DEF Reconnect, caller
<1>1. sock = "none" /\ lane = "ws"
  BY <1>0, ClientFacts DEF ClientOK
<1>2. ClientTypeOK'
  BY <1>0, ClientFacts DEF ClientTypeOK
<1>3. ClientOK'
  BY <1>0, <1>1, ClientFacts DEF ClientOK, Numbered, runsVars
<1>4. ASSUME NEW s \in Subs
      PROVE  link'[s] = link[s] /\ Base(s)' = Base(s) /\ (Used(s) => Used(s)')
  BY <1>0, <1>1, ClientFacts DEF Base, Received, Used
<1>5. ReaderInv'
  BY <1>0, <1>2, <1>3, <1>4, ReaderMoves, ClientFacts DEF ClientTypeOK
<1> QED
  BY <1>0, <1>5 DEF Delivers

LEMMA BodyLost == ASSUME TransportInv, DropBody \/ BodyBreaks PROVE ReaderInv' /\ Delivers
<1>0. /\ UNCHANGED <<runsVars, restarts, lane, sock, timer, attempts, queue, delivered, done, sawDone,
                     reading, got>>
      /\ \/ link' = [link EXCEPT ![Sse] = Down] /\ ended' = ended
         \/ link' = link /\ lane = "sse" /\ ended = "no" /\ ended' = "short"
  BY DEF DropBody, BodyBreaks, client, reader, caller
<1>1. link \in [Subs -> Links] /\ Down \in Links /\ Sse \in Subs
  BY ClientFacts, ConnDown DEF ClientTypeOK
<1>2. ClientTypeOK'
  BY <1>0, <1>1, ClientFacts DEF ClientTypeOK
<1>3. ClientOK'
  BY <1>0, ClientFacts DEF ClientOK, Numbered, runsVars
<1>4. ASSUME NEW s \in Subs
      PROVE  \/ link'[s] = Down /\ Base(s)' \in Nat /\ Base(s)' <= Len(Buf)
             \/ link'[s] = link[s] /\ Base(s)' = Base(s) /\ (Used(s) => Used(s)')
  <2>1. Base(s)' = Base(s) /\ Used(s)' = Used(s)
    BY <1>0 DEF Base, Received, Used
  <2>2. link'[s] = link[s] \/ link'[s] = Down
    BY <1>0, <1>1
  <2> QED
    BY <2>1, <2>2, ReaderFacts
<1>5. ReaderInv'
  BY <1>0, <1>2, <1>3, <1>4, ReaderMoves, ClientFacts DEF ClientTypeOK
<1> QED
  BY <1>0, <1>5 DEF Delivers

(* Numbered events, one more and one less.                                 *)
Nth(i) == [run |-> 1, seq |-> i]

LEMMA AppendNumbered ==
  ASSUME NEW es \in Seq(Events), NEW n \in Nat, Numbered(es, n), 1 \in Runs,
         NEW e, e = Nth(n + Len(es) + 1)
  PROVE  /\ e \in Events /\ Append(es, e) \in Seq(Events) /\ Len(Append(es, e)) = Len(es) + 1
         /\ Numbered(Append(es, e), n)
<1>1. Len(es) \in Nat
  BY LenProperties
<1>2. e \in Events
  BY <1>1 DEF Nth, Events
<1> DEFINE v == Append(es, e)
<1>3. /\ v \in Seq(Events) /\ Len(v) = Len(es) + 1 /\ v[Len(es) + 1] = e
      /\ \A k \in 1 .. Len(es) : v[k] = es[k]
  BY <1>2
<1> HIDE DEF v
<1>4. ASSUME NEW k \in 1 .. Len(v) PROVE v[k] = Nth(n + k)
  <2>1. CASE k = Len(es) + 1
    BY <1>1, <1>3, <2>1
  <2>2. CASE k # Len(es) + 1
    <3>1. k \in 1 .. Len(es)
      BY <1>1, <1>3, <2>2
    <3> QED
      BY <1>3, <3>1 DEF Numbered, Nth
  <2> QED
    BY <2>1, <2>2
<1> QED
  BY <1>2, <1>3, <1>4 DEF Numbered, Nth, v

LEMMA HeadNumbered ==
  ASSUME NEW es \in Seq(Events), es # <<>>, NEW n \in Nat, Numbered(es, n)
  PROVE  /\ Head(es) = Nth(n + 1)
         /\ Tail(es) \in Seq(Events) /\ Len(Tail(es)) = Len(es) - 1 /\ Len(es) >= 1
         /\ Numbered(Tail(es), n + 1)
<1> DEFINE t == Tail(es)
<1>1. /\ t \in Seq(Events) /\ Len(t) = Len(es) - 1 /\ Len(es) \in Nat /\ Len(es) >= 1
      /\ \A k \in 1 .. Len(t) : t[k] = es[k + 1]
      /\ Head(es) = es[1]
  BY EmptySeq, HeadTailProperties
<1> HIDE DEF t
<1>2. es[1] = Nth(n + 1)
  BY <1>1 DEF Numbered, Nth
<1>3. ASSUME NEW k \in 1 .. Len(t) PROVE t[k] = Nth(n + 1 + k)
  <2>1. k + 1 \in 1 .. Len(es) /\ n + (k + 1) = n + 1 + k
    BY <1>1
  <2>2. es[k + 1] = Nth(n + (k + 1))
    BY <2>1 DEF Numbered, Nth
  <2> QED
    BY <1>1, <2>1, <2>2
<1> QED
  BY <1>1, <1>2, <1>3 DEF Numbered, Nth, t

(* The next event is handed over.                                          *)
LEMMA HandStep ==
  ASSUME TransportInv, ended = "no", NEW e, e = Nth(Len(got) + 1), Len(got) + 1 <= Len(Buf),
         got' = Append(got, e), ended' = ended
  PROVE  /\ Delivers /\ got' \in Seq(Events) /\ Numbered(got', 0) /\ Len(got') = Len(got) + 1
         /\ e \in Events
<1>1. got \in Seq(Events) /\ Numbered(got, 0) /\ 1 \in Runs /\ Len(got) \in Nat
  BY ClientFacts, RunFacts DEF ClientTypeOK, ClientOK, TransportInv
<1>2. e = Nth(0 + Len(got) + 1)
  BY <1>1
<1>3. e \in Events /\ got' \in Seq(Events) /\ Len(got') = Len(got) + 1 /\ Numbered(Append(got, e), 0)
  BY <1>1, <1>2, AppendNumbered
<1> QED
  BY <1>3 DEF Delivers, Nth

LEMMA ReadStep == ASSUME TransportInv, Read PROVE ReaderInv' /\ Delivers
<1>0. /\ lane = "ws" /\ ended = "no" /\ ~reading
      /\ UNCHANGED <<runsVars, link, restarts, lane, sock, timer, attempts, done, sawDone>>
  BY DEF Read
<1>1. /\ got \in Seq(Events) /\ queue \in Seq(Events) /\ delivered \in Nat /\ Len(got) \in Nat
      /\ Len(queue) \in Nat /\ Len(got) = delivered /\ delivered + Len(queue) <= Len(Buf) /\ Len(Buf) \in Nat
      /\ Numbered(queue, Len(got)) /\ Numbered(got, 0)
  BY <1>0, ClientFacts DEF ClientOK, ClientTypeOK, Received
<1>2. CASE queue # <<>>
  <2>1. /\ Head(queue) = Nth(Len(got) + 1) /\ Tail(queue) \in Seq(Events)
        /\ Len(Tail(queue)) = Len(queue) - 1 /\ Len(queue) >= 1 /\ Numbered(Tail(queue), Len(got) + 1)
    BY <1>1, <1>2, HeadNumbered
  <2>2. /\ got' = Append(got, Head(queue)) /\ delivered' = delivered + 1
        /\ ended' = ended
        /\ queue' = Tail(queue) /\ reading' = reading
    BY <1>2 DEF Read, Hand
  <2>3. Len(got) + 1 <= Len(Buf)
    BY <1>1, <2>1
  <2>4. /\ Delivers /\ got' \in Seq(Events) /\ Numbered(got', 0) /\ Len(got') = Len(got) + 1
    BY <1>0, <2>1, <2>2, <2>3, HandStep
  <2>5. delivered' \in Nat /\ queue' \in Seq(Events) /\ Len(got') = delivered' /\ Numbered(queue', Len(got'))
        /\ delivered' + Len(queue') = delivered + Len(queue)
    BY <1>1, <2>1, <2>2, <2>4
  <2>6. ClientTypeOK'
    BY <1>0, <2>2, <2>4, <2>5, ClientFacts DEF ClientTypeOK
  <2>7. ClientOK'
    BY <1>0, <2>2, <2>4, <2>5, ClientFacts DEF ClientOK, Numbered, runsVars
  <2>8. ASSUME NEW s \in Subs
        PROVE  \/ link'[s] = Down /\ Base(s)' \in Nat /\ Base(s)' <= Len(Buf)
               \/ link'[s] = link[s] /\ Base(s)' = Base(s) /\ (Used(s) => Used(s)')
    <3>1. CASE s = Sse
      BY <1>0, <1>1, <2>3, <2>4, <3>1, UnusedIsDown DEF Base
    <3>2. CASE s # Sse
      BY <1>0, <2>5, <3>2 DEF Base, Received, Used
    <3> QED
      BY <3>1, <3>2
  <2>9. ReaderInv'
    BY <1>0, <2>6, <2>7, <2>8, ReaderMoves, ClientFacts DEF ClientTypeOK
  <2> QED
    BY <2>4, <2>9
<1>3. CASE queue = <<>>
  <2>1. /\ UNCHANGED <<got, queue, delivered>>
        /\ \/ ended' = Judged /\ reading' = reading
           \/ reading' = TRUE /\ ended' = ended
    BY <1>3 DEF Read
  <2>2. ClientTypeOK'
    BY <1>0, <2>1, JudgedIs, ClientFacts DEF ClientTypeOK
  <2>3. ClientOK'
    BY <1>0, <1>3, <2>1, ClientFacts DEF ClientOK, Numbered, runsVars
  <2>4. ASSUME NEW s \in Subs
        PROVE  link'[s] = link[s] /\ Base(s)' = Base(s) /\ (Used(s) => Used(s)')
    BY <1>0, <2>1 DEF Base, Received, Used
  <2>5. ReaderInv'
    BY <1>0, <2>2, <2>3, <2>4, ReaderMoves, ClientFacts DEF ClientTypeOK
  <2> QED
    BY <1>0, <2>1, <2>5 DEF Delivers
<1> QED
  BY <1>2, <1>3

LEMMA ReadBodyStep == ASSUME TransportInv, ReadBody PROVE ReaderInv' /\ Delivers
<1> DEFINE m == [link[Sse] EXCEPT !.wire = Tail(@)]
<1>0. /\ lane = "sse" /\ ended = "no" /\ link[Sse].wire # <<>>
      /\ link' = [link EXCEPT ![Sse].wire = Tail(@)]
      /\ UNCHANGED <<runsVars, restarts, lane, sock, timer, attempts, queue, delivered, done, sawDone,
                     reading>>
  BY DEF ReadBody, reader
<1>1. /\ link \in [Subs -> Links] /\ Sse \in Subs /\ link[Sse] \in Links /\ Base(Sse) = Len(got)
      /\ Len(got) \in Nat /\ Len(Buf) \in Nat
      /\ ConnOK(link[Sse], sub[Sse].at, sub[Sse].next, Len(got), Len(Buf))
  BY ClientFacts, ReaderFacts DEF ClientTypeOK, Base
<1>2. link' = [link EXCEPT ![Sse] = m]
  BY <1>0, <1>1
<1>3. m \in Links => link' \in [Subs -> Links]
  BY <1>1, <1>2
<1>4. CASE Head(link[Sse].wire).kind = "chunk"
  <2> DEFINE e == Head(link[Sse].wire).ev
  <2>1. /\ Head(link[Sse].wire) = Chunk(1, Len(got) + 1) /\ Len(got) + 1 <= Len(Buf)
        /\ m \in Links /\ ConnOK(m, sub[Sse].at, sub[Sse].next, Len(got) + 1, Len(Buf))
    BY <1>0, <1>1, <1>4, ConnTake
  <2>2. e = Nth(Len(got) + 1)
    BY <2>1 DEF Chunk, Nth
  <2>3. got' = Append(got, e) /\ ended' = ended
    BY <1>4 DEF ReadBody
  <2> HIDE DEF e, m
  <2>4. /\ Delivers /\ got' \in Seq(Events) /\ Numbered(got', 0) /\ Len(got') = Len(got) + 1
    BY <1>0, <2>1, <2>2, <2>3, HandStep
  <2>5. ClientTypeOK'
    BY <1>0, <1>3, <2>1, <2>3, <2>4, ClientFacts DEF ClientTypeOK
  <2>6. ClientOK'
    <3>1. queue = <<>> /\ queue' = <<>> /\ Len(<<>>) = 0
      BY <1>0, EmptySeq, ClientFacts DEF ClientOK
    <3>2. Numbered(queue, Len(got))'
      BY <3>1 DEF Numbered
    <3>3. Numbered(got, 0)'
      BY <2>4 DEF Numbered
    <3> QED
      BY <1>0, <3>1, <3>2, <3>3, ClientFacts DEF ClientOK, runsVars
  <2>7. ASSUME NEW s \in Subs
        PROVE  \/ link'[s] = link[s] /\ Base(s)' = Base(s) /\ (Used(s) => Used(s)')
               \/ Used(s)' /\ ConnOK(link'[s], sub[s].at, sub[s].next, Base(s)', Len(Buf))
    <3>1. CASE s = Sse
      BY <1>0, <1>1, <1>2, <2>1, <2>4, <3>1 DEF Base, Used
    <3>2. CASE s # Sse
      BY <1>0, <1>1, <1>2, <3>2 DEF Base, Received, Used
    <3> QED
      BY <3>1, <3>2
  <2>8. ReaderInv'
    BY <1>0, <2>5, <2>6, <2>7, ReaderMoves, ClientFacts DEF ClientTypeOK
  <2> QED
    BY <2>4, <2>8
<1>5. CASE Head(link[Sse].wire).kind # "chunk"
  <2>1. m \in Links /\ ConnOK(m, sub[Sse].at, sub[Sse].next, Len(got), Len(Buf))
    BY <1>0, <1>1, <1>5, ConnTakeEnd
  <2>2. ended' = Judged /\ got' = got
    BY <1>5 DEF ReadBody
  <2> HIDE DEF m
  <2>3. ClientTypeOK'
    BY <1>0, <1>3, <2>1, <2>2, JudgedIs, ClientFacts DEF ClientTypeOK
  <2>4. ClientOK'
    BY <1>0, <2>2, ClientFacts DEF ClientOK, Numbered, runsVars
  <2>5. ASSUME NEW s \in Subs
        PROVE  \/ link'[s] = link[s] /\ Base(s)' = Base(s) /\ (Used(s) => Used(s)')
               \/ Used(s)' /\ ConnOK(link'[s], sub[s].at, sub[s].next, Base(s)', Len(Buf))
    <3>1. CASE s = Sse
      BY <1>0, <1>1, <1>2, <2>1, <2>2, <3>1 DEF Base, Used
    <3>2. CASE s # Sse
      BY <1>0, <1>1, <1>2, <3>2 DEF Base, Received, Used
    <3> QED
      BY <3>1, <3>2
  <2>6. ReaderInv'
    BY <1>0, <2>3, <2>4, <2>5, ReaderMoves, ClientFacts DEF ClientTypeOK
  <2> QED
    BY <1>0, <2>2, <2>6 DEF Delivers
<1> QED
  BY <1>4, <1>5

(* The event of a socket goes to the read that waits, or into the queue.   *)
LEMMA PushStep ==
  ASSUME TransportInv, lane \in {"choosing", "ws"}, NEW e, e = Nth(Received + 1),
         Received + 1 <= Len(Buf), PushChunk(e), UNCHANGED <<runsVars, restarts, sock>>,
         lane' = "ws", attempts' = 0, link' \in [Subs -> Links], Socks # {}, sock # "none"
  PROVE  /\ ClientTypeOK' /\ ClientOK' /\ Delivers
         /\ Received' = Received + 1 /\ Len(got') \in Nat /\ Len(got') <= Len(Buf)
<1>1. /\ got \in Seq(Events) /\ queue \in Seq(Events) /\ delivered \in Nat /\ Len(got) \in Nat
      /\ Len(queue) \in Nat /\ Len(Buf) \in Nat /\ 1 \in Runs
      /\ Numbered(queue, Len(got)) /\ Numbered(got, 0)
  BY ClientFacts, RunFacts DEF ClientOK, ClientTypeOK, TransportInv
<1>2. Len(got) = delivered /\ (reading => ended = "no" /\ queue = <<>>) /\ ~timer
  <2>1. lane = "choosing" => got = <<>> /\ delivered = 0
    BY ClientFacts DEF ClientOK
  <2> QED
    BY <2>1, EmptySeq, ClientFacts DEF ClientOK
<1>3. /\ sawDone' = (sawDone \/ IsDone(e)) /\ UNCHANGED <<timer, done, ended>>
  BY DEF PushChunk
<1>4. sawDone' \in BOOLEAN
  BY <1>3, ClientFacts, Zenon DEF ClientTypeOK, IsDone
<1>5. 0 \in 0 .. MaxReconnects + 1 /\ 0 <= MaxReconnects
  BY ClientFacts
<1>6. CASE reading
  <2>1. /\ got' = Append(got, e) /\ delivered' = delivered + 1 /\ reading' = FALSE /\ queue' = queue
        /\ ended' = ended
    BY <1>3, <1>6 DEF PushChunk, Hand
  <2>2. queue = <<>> /\ Len(queue) = 0 /\ ended = "no"
    BY <1>2, <1>6, EmptySeq
  <2>3. e = Nth(Len(got) + 1) /\ Len(got) + 1 <= Len(Buf)
    BY <1>1, <1>2, <2>2 DEF Received
  <2>4. /\ Delivers /\ got' \in Seq(Events) /\ Numbered(got', 0) /\ Len(got') = Len(got) + 1
    BY <2>1, <2>2, <2>3, HandStep
  <2>5. delivered' \in Nat /\ Len(got') = delivered' /\ Numbered(queue', Len(got')) /\ Numbered(got, 0)'
    BY <1>1, <1>2, <2>1, <2>2, <2>4 DEF Numbered
  <2>6. ClientTypeOK'
    BY <1>3, <1>4, <1>5, <2>1, <2>4, <2>5, ClientFacts DEF ClientTypeOK
  <2>7. ClientOK'
    BY <1>2, <1>3, <1>5, <2>1, <2>2, <2>4, <2>5, ClientFacts DEF ClientOK, Numbered, runsVars
  <2> QED
    BY <1>1, <1>2, <2>1, <2>2, <2>3, <2>4, <2>6, <2>7 DEF Received
<1>7. CASE ~reading
  <2>1. queue' = Append(queue, e) /\ UNCHANGED <<delivered, reading, got, ended>>
    BY <1>3, <1>7 DEF PushChunk
  <2>2. e = Nth(Len(got) + Len(queue) + 1)
    BY <1>1, <1>2 DEF Received
  <2>3. /\ queue' \in Seq(Events) /\ Len(queue') = Len(queue) + 1 /\ Numbered(queue', Len(got))
    BY <1>1, <2>1, <2>2, AppendNumbered
  <2>4. ClientTypeOK'
    BY <1>3, <1>4, <1>5, <2>1, <2>3, ClientFacts DEF ClientTypeOK
  <2>5. ClientOK'
    BY <1>2, <1>3, <1>5, <1>7, <2>1, <2>3, ClientFacts DEF ClientOK, Numbered, runsVars
  <2>6. Received' = Received + 1
    BY <1>1, <2>1, <2>3 DEF Received
  <2> QED
    BY <1>1, <2>1, <2>4, <2>5, <2>6, ClientFacts DEF Delivers
<1> QED
  BY <1>6, <1>7

LEMMA ReceiveChunkStep ==
  ASSUME TransportInv, NEW s \in Socks, ReceiveChunk(s)
  PROVE  ReaderInv' /\ Delivers
<1> DEFINE m == [link[s] EXCEPT !.wire = Tail(@)]
           rest == [link EXCEPT ![s] = m]
           e == Head(link[s].wire).ev
<1>0. /\ sock = s /\ link[s].wire # <<>> /\ Head(link[s].wire).kind = "chunk"
      /\ lane' = "ws" /\ attempts' = 0 /\ link' = Popped(s) /\ PushChunk(e)
      /\ UNCHANGED <<runsVars, restarts, sock>>
  BY DEF ReceiveChunk
<1>1. lane \in {"choosing", "ws"} /\ sock # "none"
  BY <1>0, ClientFacts DEF ClientTypeOK, ClientOK
<1>2. /\ link \in [Subs -> Links] /\ Down \in Links /\ Socks \subseteq Subs /\ Sse \in Subs
      /\ Sse \notin Socks /\ Subs = Socks \cup {Sse}
  BY ClientFacts, ConnDown DEF ClientTypeOK
<1>3. /\ Base(s) = Received /\ Received \in Nat /\ link[s] \in Links /\ Len(Buf) \in Nat
      /\ ConnOK(link[s], sub[s].at, sub[s].next, Received, Len(Buf))
  BY <1>2, ClientFacts, ReaderFacts DEF Base
<1>4. /\ Head(link[s].wire) = Chunk(1, Received + 1) /\ Received + 1 <= Len(Buf)
      /\ m \in Links /\ ConnOK(m, sub[s].at, sub[s].next, Received + 1, Len(Buf))
  <2>1. link[s].wire # <<>> /\ Head(link[s].wire).kind = "chunk"
    BY <1>0
  <2>2. /\ link[s] \in Links /\ Received \in Nat /\ Len(Buf) \in Nat
        /\ ConnOK(link[s], sub[s].at, sub[s].next, Received, Len(Buf))
    BY <1>3
  <2>3. m = [link[s] EXCEPT !.wire = Tail(@)]
    OBVIOUS
  <2> HIDE DEF m, e
  <2> QED
    BY <2>1, <2>2, <2>3, ConnTake
<1>5. e = Nth(Received + 1)
  BY <1>4 DEF Chunk, Nth
<1>6. link' = IF lane = "choosing" THEN [rest EXCEPT ![Sse] = Down] ELSE rest
  BY <1>0, <1>2 DEF Popped
<1> HIDE DEF m, e
<1>7. /\ link' \in [Subs -> Links] /\ link'[s] = m
      /\ \A t \in Socks \ {s} : link'[t] = link[t]
      /\ link'[Sse] = IF lane = "choosing" THEN Down ELSE link[Sse]
  BY <1>2, <1>4, <1>6
<1>8. /\ ClientTypeOK' /\ ClientOK' /\ Delivers
      /\ Received' = Received + 1 /\ Len(got') \in Nat /\ Len(got') <= Len(Buf)
  BY <1>0, <1>1, <1>4, <1>5, <1>7, PushStep
<1>9. ASSUME NEW t \in Subs
      PROVE  \/ link'[t] = Down /\ Base(t)' \in Nat /\ Base(t)' <= Len(Buf)
             \/ Used(t)' /\ ConnOK(link'[t], sub[t].at, sub[t].next, Base(t)', Len(Buf))
  <2>1. CASE t = s
    <3>1. Base(t)' = Received + 1 /\ Used(t)'
      BY <1>0, <1>2, <1>8, <2>1 DEF Base, Used, Received
    <3> QED
      BY <1>4, <1>7, <2>1, <3>1
  <2>2. CASE t = Sse
    <3>1. link'[Sse] = Down
      BY <1>1, <1>2, <1>7, UnusedIsDown
    <3>2. Base(t)' = Len(got')
      BY <2>2 DEF Base
    <3> QED
      BY <1>8, <2>2, <3>1, <3>2
  <2>3. CASE t \in Socks \ {s}
    <3>1. link'[t] = Down
      BY <1>0, <1>2, <1>7, <2>3, UnusedIsDown
    <3>2. Base(t)' = Received + 1
      BY <1>2, <1>8, <2>3 DEF Base, Received
    <3> QED
      BY <1>3, <1>4, <3>1, <3>2
  <2> QED
    BY <1>2, <2>1, <2>2, <2>3
<1>10. ReaderInv'
  BY <1>0, <1>8, <1>9, ReaderMoves, ClientFacts DEF ClientTypeOK
<1> QED
  BY <1>8, <1>10

(* The message is sent: the run is new, its buffer empty.                  *)
LEMMA SendStep == ASSUME TransportInv, Send PROVE ReaderInv' /\ Buf = <<>> /\ Buf' = <<>>
<1> USE AgentRunsAssumption DEF AgentRunsAssumption
<1>0. /\ lane = "idle" /\ started = 0 /\ Start /\ link' = [link EXCEPT ![Sse] = Up(0)]
      /\ lane' = "choosing" /\ sock' = "connecting"
      /\ UNCHANGED <<restarts, timer, attempts, queue, delivered, done, sawDone, reading, got, ended>>
  BY DEF Send, reader, caller
<1>1. /\ run \in [Runs -> RunStates] /\ 1 \in Runs /\ RunOK(1) /\ sub \in [Subs -> SubStates]
      /\ \A s \in Subs : SubOK(s)
      /\ current <= started /\ current \in 0 .. MaxRuns
  BY RunFacts DEF TransportInv, RunsInv, RunsTypeOK
<1>2. Buf = <<>> /\ current = 0
  BY <1>0, <1>1 DEF RunOK, NotStarted, Buf
<1>3. run' = [run EXCEPT ![1] = [NotStarted EXCEPT !.task = "created", !.after = 0]]
      /\ started' = 1 /\ sub' = sub
  BY <1>0, <1>2 DEF Start
<1>4. Buf' = <<>>
  BY <1>1, <1>3 DEF Buf, NotStarted
<1>5. got = <<>> /\ queue = <<>> /\ delivered = 0 /\ Len(<<>>) = 0 /\ sock = "none" /\ ~timer /\ ~reading
      /\ ended = "no"
  BY <1>0, EmptySeq, ClientFacts DEF ClientOK
<1>6. \A s \in Subs : sub[s].at = "off"
  BY <1>0, <1>1 DEF SubOK
<1>7. link \in [Subs -> Links] /\ Down \in Links /\ Sse \in Subs /\ \A s \in Subs : link[s] = Down
  BY <1>0, <1>5, ReaderFacts, ClientFacts, ConnDown DEF ClientTypeOK, Used
<1>8. \A s \in Subs : Base(s)' = 0
  BY <1>0, <1>5 DEF Base, Received
<1>9. /\ Up(0) \in Links /\ ConnOK(Up(0), "off", sub[Sse].next, 0, 0)
      /\ \A s \in Subs : ConnOK(Down, "off", sub[s].next, 0, 0)
  BY ConnUp, ConnDown
<1>10. link' \in [Subs -> Links]
  BY <1>0, <1>7, <1>9
<1>11. ClientTypeOK'
  BY <1>0, <1>10, ClientFacts DEF ClientTypeOK
<1>12. ClientOK'
  BY <1>0, <1>3, <1>5, ClientFacts DEF ClientOK, Numbered
<1>13. ASSUME NEW s \in Subs PROVE LinkOK(s)'
  <2>1. Len(Buf)' = 0
    BY <1>4, <1>5
  <2>2. CASE s = Sse
    BY <1>0, <1>3, <1>6, <1>7, <1>8, <1>9, <2>1, <2>2 DEF LinkOK, Used
  <2>3. CASE s # Sse
    BY <1>0, <1>3, <1>6, <1>7, <1>8, <1>9, <2>1, <2>3 DEF LinkOK
  <2> QED
    BY <2>2, <2>3
<1> QED
  BY <1>2, <1>4, <1>11, <1>12, <1>13 DEF ReaderInv

-----------------------------------------------------------------------------
(* All steps.                                                              *)

LEMMA TransportInit == Init => TransportInv
<1> SUFFICES ASSUME Init PROVE TransportInv
  OBVIOUS
<1>1. RunsInv
  BY RunsInitInv DEF Init
<1>2. Buf = <<>> /\ Len(<<>>) = 0 /\ started = 0
  BY <1>1, RunFacts, EmptySeq DEF Init, RunsInit, Buf, NotStarted
<1>3. 0 \in 0 .. MaxRestarts /\ 0 \in 0 .. MaxReconnects + 1
  BY ChatTransportAssumption DEF ChatTransportAssumption
<1>4. Down \in Links /\ \A s \in Subs : ConnOK(Down, sub[s].at, sub[s].next, 0, 0)
  BY ConnDown
<1>5. ClientTypeOK
  BY <1>3, <1>4, EmptySeq DEF Init, ClientTypeOK
<1>6. ClientOK
  BY <1>2 DEF Init, ClientOK, Numbered
<1>7. \A s \in Subs : Base(s) = 0
  BY <1>2 DEF Init, Base, Received
<1>8. ASSUME NEW s \in Subs PROVE LinkOK(s)
  BY <1>2, <1>4, <1>7 DEF Init, LinkOK
<1> QED
  BY <1>1, <1>5, <1>6, <1>8 DEF TransportInv, ReaderInv

(* What a step does to what OrderedStream sees.                            *)
Grows ==
  /\ UNCHANGED <<got, ended>>
  /\ Buf' = Buf \/ (~Complete(1) /\ Len(Buf') \in Nat /\ Len(Buf') > Len(Buf))

ServerNext ==
  \/ Server \/ Restart
  \/ \E s \in Subs : Serve(s) \/ Relay(s) \/ RelayEnd(s) \/ Generate(s) \/ RelayFails(s)

ReaderNext ==
  \/ DropBody \/ Abort \/ Open
  \/ \E s \in Socks : ReceiveChunk(s) \/ ReceiveEnd(s) \/ ReceiveRefusal(s)
  \/ ConnectTimeout \/ ClosesBeforeChoice \/ SocketCloses \/ Reconnect
  \/ Read \/ ReadBody \/ BodyBreaks

LEMMA ReaderNextStep ==
  ASSUME TransportInv, ReaderNext
  PROVE  TransportInv' /\ UNCHANGED runsVars /\ Delivers
<1>1. CASE ConnectTimeout \/ ClosesBeforeChoice \/ (\E s \in Socks : ReceiveRefusal(s))
  <2>1. FallBack
    BY <1>1 DEF ConnectTimeout, ClosesBeforeChoice, ReceiveRefusal
  <2> QED
    BY <2>1, FallBackStep, RunsInvStep DEF TransportInv, FallBack
<1>2. CASE DropBody \/ BodyBreaks
  BY <1>2, BodyLost, RunsInvStep DEF TransportInv, DropBody, BodyBreaks
<1>3. CASE Abort
  BY <1>3, AbortStep, RunsInvStep DEF TransportInv, Abort
<1>4. CASE Open
  BY <1>4, OpenStep, RunsInvStep DEF TransportInv, Open
<1>5. ASSUME NEW s \in Socks, ReceiveChunk(s) PROVE TransportInv' /\ UNCHANGED runsVars /\ Delivers
  BY <1>5, ReceiveChunkStep, RunsInvStep DEF TransportInv, ReceiveChunk
<1>6. ASSUME NEW s \in Socks, ReceiveEnd(s) PROVE TransportInv' /\ UNCHANGED runsVars /\ Delivers
  BY <1>6, ReceiveEndStep, RunsInvStep DEF TransportInv, ReceiveEnd
<1>7. CASE SocketCloses
  BY <1>7, SocketClosesStep, RunsInvStep DEF TransportInv, SocketCloses
<1>8. CASE Reconnect
  BY <1>8, ReconnectStep, RunsInvStep DEF TransportInv, Reconnect
<1>9. CASE Read
  BY <1>9, ReadStep, RunsInvStep DEF TransportInv, Read
<1>10. CASE ReadBody
  BY <1>10, ReadBodyStep, RunsInvStep DEF TransportInv, ReadBody
<1> QED
  BY <1>1, <1>2, <1>3, <1>4, <1>5, <1>6, <1>7, <1>8, <1>9, <1>10 DEF ReaderNext

LEMMA ServerNextStep ==
  ASSUME TransportInv, ServerNext
  PROVE  TransportInv' /\ Grows
<1>1. CASE Restart
  <2>1. UNCHANGED <<got, ended>>
    BY <1>1 DEF Restart, client, caller
  <2> QED
    BY <1>1, <2>1, RestartStep, RestartKeepsRuns DEF TransportInv, Grows
<1>2. CASE Server
  <2>1. UNCHANGED <<got, ended>>
    BY <1>2 DEF Server, client, caller
  <2>2. PICK r \in Runs : Drain(r) \/ Evict(r) \/ Stop
    BY <1>2, RunFacts DEF Server, TransportInv
  <2>3. Len(Buf') \in Nat /\ (Buf' = Buf \/ (~Complete(1) /\ Len(Buf') > Len(Buf)))
    BY <2>2, RunSteps DEF TransportInv
  <2>4. RunsInv'
    BY <2>2, RunsInvStep DEF TransportInv, RunsNext
  <2> QED
    BY <1>2, <2>1, <2>3, <2>4, ServerStep DEF TransportInv, Grows
<1>3. ASSUME NEW s \in Subs, Serve(s) \/ Relay(s) \/ RelayEnd(s) \/ Generate(s) \/ RelayFails(s)
      PROVE  TransportInv' /\ Grows
  <2>1. UNCHANGED <<got, ended>>
    BY <1>3 DEF Serve, Relay, RelayEnd, Generate, RelayFails, client, caller
  <2>2. \/ UNCHANGED runsVars
        \/ Subscribe(s) \/ Yield(s) \/ Silent(s) \/ Return(s) \/ CloseSub(s)
    BY <1>3 DEF Serve, Relay, RelayEnd, Generate, RelayFails
  <2>3. RunsInv'
    BY <2>2, RunsInvStep DEF TransportInv, RunsNext
  <2>4. Buf' = Buf
    BY <2>2, GeneratorSteps DEF TransportInv, runsVars, Buf
  <2>5. ReaderInv'
    BY <1>3, ServeStep, RelayStep, RelayEndStep, GenerateStep, RelayFailsStep
  <2> QED
    BY <2>1, <2>3, <2>4, <2>5 DEF TransportInv, Grows
<1> QED
  BY <1>1, <1>2, <1>3 DEF ServerNext

LEMMA SendKeeps == ASSUME TransportInv, Send PROVE TransportInv' /\ Grows
<1>1. RunsInv'
  BY RunsInvStep DEF TransportInv, RunsNext, Send
<1>2. UNCHANGED <<got, ended>>
  BY DEF Send, caller
<1> QED
  BY <1>1, <1>2, SendStep DEF TransportInv, Grows

LEMMA NextIs == Next => ServerNext \/ ReaderNext \/ Send
  BY DEF Next, ServerNext, ReaderNext

LEMMA TransportInvStep == TransportInv /\ [Next]_vars => TransportInv'
<1> SUFFICES ASSUME TransportInv, [Next]_vars PROVE TransportInv'
  OBVIOUS
<1>1. CASE Next
  BY <1>1, NextIs, ServerNextStep, ReaderNextStep, SendKeeps
<1>2. CASE UNCHANGED vars
  <2>1. RunsInv'
    BY <1>2, RunsInvStep DEF TransportInv, vars
  <2>2. UNCHANGED <<runsVars, client, link, restarts>>
    BY <1>2 DEF vars
  <2>3. UNCHANGED <<current, started, run, sub>> /\ Buf' = Buf
    BY <2>2 DEF runsVars, Buf
  <2>4. link \in [Subs -> Links] /\ restarts \in 0 .. MaxRestarts
    BY ClientFacts DEF ClientTypeOK
  <2>5. ReaderInv'
    BY <2>2, <2>3, <2>4, ReaderFacts, ReaderUnmoved
  <2> QED
    BY <2>1, <2>5 DEF TransportInv
<1> QED
  BY <1>1, <1>2

(* Runs, wires and reader agree on how far the answer has come.            *)
THEOREM TransportInvariant == Spec => []TransportInv
  BY TransportInit, TransportInvStep, PTL DEF Spec

(* Server, wires and reader keep their types.                              *)
THEOREM TransportTyped == Spec => []TypeOK
<1>1. TransportInv => TypeOK
  BY DEF TransportInv, RunsInv, ReaderInv, ClientTypeOK, TypeOK
<1> QED
  BY <1>1, TransportInvariant, PTL

-----------------------------------------------------------------------------
(* OrderedStream is implemented.                                           *)

Positions == [k \in DOMAIN got |-> got[k].seq]

LEMMA PositionsLen ==
  ASSUME TransportInv
  PROVE  Positions \in Seq(Nat) /\ Len(Positions) = Len(got)
<1>1. got \in Seq(Events) /\ Len(got) \in Nat
  BY ClientFacts DEF ClientTypeOK
<1>2. \A k \in 1 .. Len(got) : got[k] \in Events
  BY <1>1
<1>3. Positions = [k \in 1 .. Len(got) |-> got[k].seq] /\ \A k \in 1 .. Len(got) : got[k].seq \in Nat
  BY <1>1, <1>2 DEF Positions, Events
<1> HIDE DEF Positions
<1>4. Positions \in [1 .. Len(got) -> Nat]
  BY <1>3
<1> QED
  BY <1>1, <1>4

LEMMA PositionsAppend ==
  ASSUME TransportInv, got' = Append(got, Nth(Len(got) + 1)), got' \in Seq(Events)
  PROVE  Positions' = Append(Positions, Len(Positions) + 1)
<1> DEFINE p == Positions
           q == Positions'
           n == Len(got)
<1>1. p \in Seq(Nat) /\ Len(p) = n /\ n \in Nat
  BY PositionsLen, ClientFacts
<1>2. got \in Seq(Events)
  BY ClientFacts DEF ClientTypeOK
<1>3. /\ Len(got') = n + 1 /\ DOMAIN got' = 1 .. n + 1 /\ got'[n + 1] = Nth(n + 1)
      /\ \A k \in 1 .. n : got'[k] = got[k]
  BY <1>1, <1>2
<1>4. q = [k \in 1 .. n + 1 |-> got'[k].seq]
  BY <1>3 DEF Positions
<1>5. p = [k \in 1 .. n |-> got[k].seq]
  BY <1>2 DEF Positions
<1> HIDE DEF p, q, n
<1>6. \A k \in 1 .. n + 1 : q[k] = IF k = n + 1 THEN n + 1 ELSE p[k]
  BY <1>1, <1>3, <1>4, <1>5 DEF Nth
<1>7. Append(p, n + 1) = [k \in 1 .. n + 1 |-> IF k = n + 1 THEN n + 1 ELSE p[k]]
  BY <1>1
<1>8. q = Append(p, n + 1)
  BY <1>4, <1>6, <1>7
<1> QED
  BY <1>1, <1>8 DEF p, q, n

(* [DONE] is at the end of the buffer and nowhere else.                    *)
LEMMA DoneIsLast ==
  ASSUME TransportInv, NEW i \in 1 .. Len(Buf)
  PROVE  Buf[i] = "DONE" <=> Complete(1) /\ i = Len(Buf)
<1>1. RunOK(1) /\ Buf \in Seq({"text", "DONE"})
  BY RunFacts DEF TransportInv
<1>2. DOMAIN run[1].buf = 1 .. Len(Buf)
  BY <1>1 DEF Buf
<1> QED
  BY <1>1, <1>2 DEF RunOK, Complete, Buf

(* The caller that has seen [DONE] has been given the whole answer.        *)
LEMMA SawDoneIsAll ==
  ASSUME TransportInv, StreamSawDone
  PROVE  Complete(1) /\ Len(got) = Len(Buf)
<1>1. got \in Seq(Events) /\ Numbered(got, 0) /\ Len(got) \in Nat /\ Len(Buf) \in Nat
      /\ Len(got) <= Len(Buf)
  BY ClientFacts DEF ClientTypeOK, ClientOK
<1>2. PICK k \in 1 .. Len(got) : IsDone(got[k])
  BY <1>1 DEF StreamSawDone
<1>3. got[k] = [run |-> 1, seq |-> k] /\ k \in 1 .. Len(Buf)
  BY <1>1 DEF Numbered
<1>4. Buf[k] = "DONE"
  BY <1>2, <1>3 DEF IsDone, Buf
<1>5. Complete(1) /\ k = Len(Buf)
  BY <1>3, <1>4, DoneIsLast
<1> QED
  BY <1>1, <1>5

LEMMA StreamInit == Init => Stream!Init
<1> SUFFICES ASSUME Init PROVE Stream!Init
  OBVIOUS
<1>1. run[1] = NotStarted /\ got = <<>> /\ ended = "no"
  BY TransportInit, RunFacts DEF Init, RunsInit, TransportInv
<1>2. run[1].buf = <<>> /\ Len(<<>>) = 0 /\ DOMAIN <<>> = {}
  BY <1>1, EmptySeq DEF NotStarted
<1>3. [k \in DOMAIN got |-> got[k].seq] = <<>>
  BY <1>1, <1>2
<1> QED
  BY <1>1, <1>2, <1>3 DEF Stream!Init, Complete

LEMMA StreamStep == TransportInv /\ [Next]_vars => [Stream!Next]_(Stream!vars)
<1> SUFFICES ASSUME TransportInv, [Next]_vars PROVE [Stream!Next]_(Stream!vars)
  OBVIOUS
<1>1. CASE UNCHANGED runsVars /\ Delivers
  <2>1. run' = run /\ Buf' = Buf /\ Complete(1)' = Complete(1)
    BY <1>1 DEF runsVars, Buf, Complete
  <2>2. CASE UNCHANGED <<got, ended>>
    BY <2>1, <2>2 DEF Stream!vars, Complete
  <2>3. CASE ended = "no" /\ ended' \in {"short", Judged} /\ UNCHANGED got
    <3>1. CASE ended' = "short"
      BY <2>1, <2>3, <3>1 DEF Stream!Next, Stream!Break, Complete
    <3>2. CASE ended' # "short"
      <4>1. StreamSawDone /\ ended' = "complete"
        BY <2>3, <3>2 DEF Judged
      <4>2. Complete(1) /\ Len(got) = Len(Buf)
        BY <4>1, SawDoneIsAll
      <4> QED
        BY <2>1, <2>3, <4>1, <4>2, PositionsLen DEF Stream!Next, Stream!Finish, Positions, Buf
    <3> QED
      BY <3>1, <3>2
  <2>4. CASE /\ ended = "no" /\ Len(got) + 1 <= Len(Buf)
             /\ got' = Append(got, Nth(Len(got) + 1))
             /\ ended' = ended
    <3>1. Len(got) \in Nat /\ Len(Buf) \in Nat /\ got' \in Seq(Events) /\ Len(Positions) = Len(got)
      <4>1. got \in Seq(Events) /\ Numbered(got, 0) /\ 1 \in Runs /\ Len(got) \in Nat /\ Len(Buf) \in Nat
        BY ClientFacts, RunFacts DEF ClientTypeOK, ClientOK, TransportInv
      <4>2. Nth(Len(got) + 1) = Nth(0 + Len(got) + 1)
        BY <4>1
      <4> QED
        BY <2>4, <4>1, <4>2, AppendNumbered, PositionsLen
    <3>2. Positions' = Append(Positions, Len(Positions) + 1)
      BY <2>4, <3>1, PositionsAppend
    <3>3. Len(Positions) < Len(Buf)
      BY <2>4, <3>1
    <3> QED
      BY <2>1, <2>4, <3>2, <3>3 DEF Stream!Next, Stream!Deliver, Positions, Buf, Complete
  <2> QED
    BY <1>1, <2>2, <2>3, <2>4 DEF Delivers, Nth
<1>2. CASE Grows
  <2>1. CASE Buf' = Buf
    <3>1. Complete(1)' = Complete(1)
      BY <2>1 DEF Complete, Buf
    <3> QED
      BY <1>2, <2>1, <3>1 DEF Grows, Stream!vars, Buf
  <2>2. CASE ~Complete(1) /\ Len(Buf') \in Nat /\ Len(Buf') > Len(Buf)
    <3>1. Complete(1)' \in BOOLEAN
      BY DEF Complete
    <3> QED
      BY <1>2, <2>2, <3>1 DEF Grows, Stream!Next, Stream!Emit, Buf
  <2> QED
    BY <1>2, <2>1, <2>2 DEF Grows
<1>3. CASE UNCHANGED vars
  <2>1. UNCHANGED runsVars /\ UNCHANGED <<got, ended>>
    BY <1>3 DEF vars, client, caller
  <2> QED
    BY <1>1, <2>1 DEF Delivers
<1> QED
  BY <1>1, <1>2, <1>3, NextIs, ServerNextStep, ReaderNextStep, SendKeeps

(* Over any number of connections, drops, reconnects and restarts, and for *)
(* any length of the answer, the caller is given an ordered stream that    *)
(* says "complete" only when it is.                                        *)
THEOREM TransportIsOrdered == Spec => ImplementsOrderedStream
  BY TransportInvariant, StreamInit, StreamStep, PTL DEF Spec, ImplementsOrderedStream, Stream!Spec
=============================================================================
